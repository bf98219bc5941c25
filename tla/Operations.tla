------------------------------ MODULE Operations ------------------------------
(* The operations of the client: what each method of src/modules asks of   *)
(* the pipeline.  One table per module, one row per method; a row names    *)
(* the endpoint and how many identifiers its path takes.  A list has one   *)
(* row for its three readers: items, page and all.                         *)
EXTENDS Naturals, TLC

Get(path, ids) ==
  [method |-> "GET", path |-> path, ids |-> ids, body |-> "none",
   response |-> "json", intent |-> "none", list |-> "none",
   soft |-> FALSE, again |-> FALSE]

Post(path, ids) == [Get(path, ids) EXCEPT !.method = "POST"]

(* A list is looked at again after the pipeline: by unwrapList or          *)
(* decodePage.  "controlled" lists are asked for a limit and an offset     *)
(* page by page, "fixed" ones by following links only, "items" lists have  *)
(* no page.                                                                *)
List(path, ids) == [Get(path, ids) EXCEPT !.list = "controlled", !.again = TRUE]
FixedList(path, ids) == [List(path, ids) EXCEPT !.list = "fixed"]
ItemsList(path, ids) == [List(path, ids) EXCEPT !.list = "items"]

Binary(path, ids) == [Get(path, ids) EXCEPT !.response = "binary"]
Text(path, ids) == [Get(path, ids) EXCEPT !.response = "text"]
Report(path, ids) == [Get(path, ids) EXCEPT !.intent = "side-effecting-read"]
Json(path, ids) == [Post(path, ids) EXCEPT !.body = "json"]
Multipart(path, ids) == [Post(path, ids) EXCEPT !.body = "multipart"]

(* What is looked at again once the request has been answered: a bulk      *)
(* write by safeParse and unwrapList, an upload of scenarios and a preview *)
(* of a deletion by client.parse.  The write may have happened all the     *)
(* same.                                                                   *)
Again(op) == [op EXCEPT !.again = TRUE]
SoftOr(op) == [op EXCEPT !.soft = TRUE]

-----------------------------------------------------------------------------

CaseReads ==
  [getCase           |-> Get("get_case", 1),
   getCaseTitles     |-> Get("get_case_titles", 0),
   getCases          |-> List("get_cases", 1),
   getHistoryForCase |-> List("get_history_for_case", 1)]

CaseWrites ==
  [addCase    |-> Json("add_case", 1),
   addCases   |-> Again(Json("add_cases", 1)),
   updateCase |-> Json("update_case", 1),
   deleteCase |-> SoftOr(Post("delete_case", 1))]

CaseBulkWrites ==
  [updateCases        |-> Again(Json("update_cases", 1)),
   deleteCases        |-> SoftOr(Json("delete_cases", 1)),
   copyCasesToSection |-> Json("copy_cases_to_section", 1),
   moveCasesToSection |-> Json("move_cases_to_section", 1)]

AttachmentReads ==
  [getAttachmentsForCase      |-> List("get_attachments_for_case", 1),
   getAttachmentsForRun       |-> List("get_attachments_for_run", 1),
   getAttachmentsForTest      |-> ItemsList("get_attachments_for_test", 1),
   getAttachmentsForPlan      |-> List("get_attachments_for_plan", 1),
   getAttachmentsForPlanEntry |-> ItemsList("get_attachments_for_plan_entry", 2),
   getAttachment              |-> Binary("get_attachment", 1)]

AttachmentWrites ==
  [addAttachmentToCase      |-> Multipart("add_attachment_to_case", 1),
   addAttachmentToResult    |-> Multipart("add_attachment_to_result", 1),
   addAttachmentToRun       |-> Multipart("add_attachment_to_run", 1),
   addAttachmentToPlan      |-> Multipart("add_attachment_to_plan", 1),
   addAttachmentToPlanEntry |-> Multipart("add_attachment_to_plan_entry", 2),
   deleteAttachment         |-> Post("delete_attachment", 1)]

Bdds ==
  [getBdd    |-> Text("get_bdd", 1),
   getBdds   |-> List("get_bdds", 1),
   addBdd    |-> Again(Multipart("add_bdd", 1)),
   updateBdd |-> Again(Multipart("update_bdd", 1))]

Configurations ==
  [getConfigurations        |-> Get("get_configs", 1),
   addConfigurationGroup    |-> Json("add_config_group", 1),
   updateConfigurationGroup |-> Json("update_config_group", 1),
   deleteConfigurationGroup |-> Post("delete_config_group", 1),
   addConfiguration         |-> Json("add_config", 1),
   updateConfiguration      |-> Json("update_config", 1),
   deleteConfiguration      |-> Post("delete_config", 1)]

Datasets ==
  [getDataset    |-> Get("get_dataset", 1),
   getDatasets   |-> FixedList("get_datasets", 1),
   addDataset    |-> Json("add_dataset", 1),
   updateDataset |-> Json("update_dataset", 1),
   deleteDataset |-> Post("delete_dataset", 1)]

Labels ==
  [getLabel     |-> Get("get_label", 1),
   getLabels    |-> List("get_labels", 1),
   addLabel     |-> Json("add_label", 1),
   updateLabel  |-> Json("update_label", 1),
   deleteLabel  |-> Post("delete_label", 1),
   deleteLabels |-> Json("delete_labels", 0)]

MetadataReads ==
  [getVersion             |-> Get("get_version", 0),
   getStatuses            |-> Get("get_statuses", 0),
   getCaseStatuses        |-> FixedList("get_case_statuses", 0),
   getPriorities          |-> Get("get_priorities", 0),
   getDynamicFilterFields |-> Get("get_dynamic_filter_fields", 1),
   getResultFields        |-> Get("get_result_fields", 0),
   getCaseFields          |-> Get("get_case_fields", 0)]

Metadata ==
  [addCaseField |-> Json("add_case_field", 0),
   getCaseTypes |-> Get("get_case_types", 0),
   getTemplates |-> Get("get_templates", 1),
   getRoles     |-> FixedList("get_roles", 0)]

Milestones ==
  [getMilestone    |-> Get("get_milestone", 1),
   getMilestones   |-> List("get_milestones", 1),
   addMilestone    |-> Json("add_milestone", 1),
   updateMilestone |-> Json("update_milestone", 1),
   deleteMilestone |-> Post("delete_milestone", 1)]

PlanReads ==
  [getPlan  |-> Get("get_plan", 1),
   getPlans |-> List("get_plans", 1)]

PlanWrites ==
  [addPlan                |-> Json("add_plan", 1),
   updatePlan             |-> Json("update_plan", 1),
   closePlan              |-> Post("close_plan", 1),
   deletePlan             |-> Post("delete_plan", 1),
   addPlanEntry           |-> Json("add_plan_entry", 1),
   updatePlanEntry        |-> Json("update_plan_entry", 2),
   deletePlanEntry        |-> Post("delete_plan_entry", 2),
   addRunToPlanEntry      |-> Json("add_run_to_plan_entry", 2),
   updateRunInPlanEntry   |-> Json("update_run_in_plan_entry", 1),
   deleteRunFromPlanEntry |-> Post("delete_run_from_plan_entry", 1)]

Projects ==
  [getProject    |-> Get("get_project", 1),
   getProjects   |-> List("get_projects", 0),
   addProject    |-> Json("add_project", 0),
   updateProject |-> Json("update_project", 1),
   deleteProject |-> Post("delete_project", 1)]

Reports ==
  [getReports             |-> Get("get_reports", 1),
   runReport              |-> Report("run_report", 1),
   getCrossProjectReports |-> Get("get_cross_project_reports", 0),
   runCrossProjectReport  |-> Report("run_cross_project_report", 1)]

ResultReads ==
  [getResults        |-> List("get_results", 1),
   getResultsForCase |-> List("get_results_for_case", 2),
   getResultsForRun  |-> List("get_results_for_run", 1)]

ResultWrites ==
  [addResult          |-> Json("add_result", 1),
   addResultForCase   |-> Json("add_result_for_case", 2),
   addResultsForCases |-> Json("add_results_for_cases", 1),
   addResults         |-> Json("add_results", 1),
   editResult         |-> Json("edit_result", 1)]

Runs ==
  [getRun    |-> Get("get_run", 1),
   getRuns   |-> List("get_runs", 1),
   addRun    |-> Json("add_run", 1),
   updateRun |-> Json("update_run", 1),
   closeRun  |-> Post("close_run", 1),
   deleteRun |-> SoftOr(Post("delete_run", 1))]

Sections ==
  [getSection    |-> Get("get_section", 1),
   getSections   |-> List("get_sections", 1),
   addSection    |-> Json("add_section", 1),
   updateSection |-> Json("update_section", 1),
   deleteSection |-> SoftOr(Post("delete_section", 1)),
   moveSection   |-> Json("move_section", 1)]

(* deleteSharedStep sends a body when keep_in_cases is given.              *)
SharedSteps ==
  [getSharedStep        |-> Get("get_shared_step", 1),
   getSharedSteps       |-> List("get_shared_steps", 1),
   addSharedStep        |-> Json("add_shared_step", 1),
   updateSharedStep     |-> Json("update_shared_step", 1),
   deleteSharedStep     |-> Post("delete_shared_step", 1),
   getSharedStepHistory |-> FixedList("get_shared_step_history", 1)]

Suites ==
  [getSuite    |-> Get("get_suite", 1),
   getSuites   |-> List("get_suites", 1),
   addSuite    |-> Json("add_suite", 1),
   updateSuite |-> Json("update_suite", 1),
   deleteSuite |-> SoftOr(Post("delete_suite", 1))]

(* getTest with its data is unwrapped again.                               *)
Tests ==
  [getTest     |-> Again(Get("get_test", 1)),
   getTests    |-> List("get_tests", 1),
   updateTest  |-> Json("update_test", 1),
   updateTests |-> Json("update_tests", 0)]

UserOperations ==
  [getUser        |-> Get("get_user", 1),
   getUserByEmail |-> Get("get_user_by_email", 0),
   getUsers       |-> ItemsList("get_users", 0),
   getCurrentUser |-> Get("get_current_user", 0),
   addUser        |-> Json("add_user", 0),
   updateUser     |-> Json("update_user", 1)]

Groups ==
  [getGroup    |-> Get("get_group", 1),
   getGroups   |-> FixedList("get_groups", 0),
   addGroup    |-> Json("add_group", 0),
   updateGroup |-> Json("update_group", 1),
   deleteGroup |-> Post("delete_group", 1)]

Variables ==
  [getVariables   |-> FixedList("get_variables", 1),
   addVariable    |-> Json("add_variable", 1),
   updateVariable |-> Json("update_variable", 1),
   deleteVariable |-> Post("delete_variable", 1)]

-----------------------------------------------------------------------------

(* The client: its modules, bound to one core.                             *)
Client ==
     Projects @@ Suites @@ Sections @@ CaseReads @@ CaseWrites
  @@ CaseBulkWrites @@ PlanReads @@ PlanWrites @@ Runs @@ Tests
  @@ ResultReads @@ ResultWrites @@ Milestones @@ UserOperations @@ Groups
  @@ MetadataReads @@ Metadata @@ Configurations @@ AttachmentReads
  @@ AttachmentWrites @@ Bdds @@ SharedSteps @@ Variables @@ Datasets
  @@ Reports @@ Labels

(* What TestRail does on its side when the request arrives: a GET without  *)
(* an intent reads, a soft deletion counts.                                *)
Reads(op) == op.method = "GET" /\ op.intent = "none"
===============================================================================
