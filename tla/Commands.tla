-------------------------------- MODULE Commands -------------------------------
(* The commands of the CLI: the rows of src/cli/metadata.  A row says how    *)
(* many positional arguments a command takes, the endpoint it is documented  *)
(* to call, its handler, and the capabilities from which the flags it        *)
(* accepts follow.  Flags that only narrow a list (--suite-id, --refs, ...)  *)
(* are left out: they are data of the request.                               *)
EXTENDS Naturals, Sequences, FiniteSets

Query(resource, action, params, endpoint, handler) ==
  [resource |-> resource, action |-> action, params |-> params,
   apiEndpoint |-> endpoint, handler |-> handler,
   bodySchema |-> FALSE, fileInput |-> FALSE, fileOutput |-> FALSE,
   isWrite |-> FALSE, destructive |-> FALSE, softMode |-> "reject",
   polls |-> FALSE, itemsRequestControls |-> FALSE,
   flags |-> {}, required |-> {}]

Takes(names, spec) == [spec EXCEPT !.flags = @ \cup names]
Needs(name, spec) == [Takes({name}, spec) EXCEPT !.required = @ \cup {name}]
SoftMode(spec) == [spec EXCEPT !.softMode = "optional"]
Polls(spec) == [spec EXCEPT !.polls = TRUE]
ItemsControls(spec) == [spec EXCEPT !.itemsRequestControls = TRUE]

Download(resource, action, params, endpoint, handler) ==
  Needs("out", [Query(resource, action, params, endpoint, handler)
                  EXCEPT !.fileOutput = TRUE])

Destroy(resource, action, params, endpoint, handler) ==
  [Query(resource, action, params, endpoint, handler)
     EXCEPT !.isWrite = TRUE, !.destructive = TRUE]

DestroyMany(resource, action, params, endpoint, handler) ==
  [Destroy(resource, action, params, endpoint, handler)
     EXCEPT !.bodySchema = TRUE]

Write(resource, action, params, endpoint, handler) ==
  [Query(resource, action, params, endpoint, handler)
     EXCEPT !.isWrite = TRUE, !.bodySchema = TRUE]

Upload(resource, action, params, endpoint, handler) ==
  Needs("file", [Query(resource, action, params, endpoint, handler)
                   EXCEPT !.isWrite = TRUE, !.fileInput = TRUE])

-----------------------------------------------------------------------------
(* Flags. *)

GlobalFlags ==
  {"base-url", "email", "api-key-stdin", "format", "timeout",
   "strict-responses", "diagnostic-file", "quiet", "help", "version"}

CapabilityFlags ==
  [pagination |-> {"page", "all", "max-pages", "max-items",
                   "max-duration-ms", "max-bytes"},
   request    |-> {"limit", "offset", "page-size", "start-offset"},
   body       |-> {"data", "data-file"},
   input      |-> {"file", "filename"},
   output     |-> {"out", "force"},
   write      |-> {"dry-run"},
   destroy    |-> {"yes", "soft"}]

MetaFlags ==
  [install   |-> {"global", "force", "print-path", "quiet"},
   uninstall |-> {"global", "quiet"}]

(* The catalog: flags that take no value, and flags that take one. *)
BooleanFlags ==
  {"api-key-stdin", "strict-responses", "quiet", "help", "version",
   "include-plan-runs", "page", "all", "dry-run", "force", "yes", "soft",
   "once", "global", "print-path"}

StringFlags ==
  {"base-url", "email", "user-email", "format", "timeout", "diagnostic-file",
   "project-id", "suite-id", "section-id", "run-id", "type-id", "priority-id",
   "template-id", "milestone-id", "created-after", "created-before",
   "created-by", "updated-after", "updated-before", "updated-by", "label-id",
   "refs", "filter", "is-completed", "is-started", "with-data", "limit",
   "offset", "page-size", "start-offset", "max-pages", "max-items",
   "max-duration-ms", "max-bytes", "status-id", "defects-filter", "data",
   "data-file", "file", "filename", "out", "keep-in-cases", "interval"}

KNOWN_FLAGS == BooleanFlags \cup StringFlags

(* A token of the command line: a flag, a flag with its value behind an      *)
(* equals sign, or a word.  "-" is a word.                                   *)
Flag(name) == [form |-> "flag", name |-> name]
Inline(name) == [form |-> "inline", name |-> name]
Word(text) == [form |-> "word", name |-> text]

(* The options parseArgs makes of the tokens from each position on: a flag   *)
(* that takes a value takes the next token, whatever it is.                  *)
Option(token, value) == [name |-> token.name, value |-> value]

optionsFrom(tokens) ==
  LET from[i \in 1 .. Len(tokens) + 2] ==
        IF i > Len(tokens) THEN <<>>
        ELSE LET token == tokens[i]
             IN  IF token.form = "word" THEN from[i + 1]
                 ELSE IF token.form = "inline"
                   THEN <<Option(token, Word("inline"))>> \o from[i + 1]
                 ELSE IF token.name \in StringFlags /\ i < Len(tokens)
                   THEN <<Option(token, tokens[i + 1])>> \o from[i + 2]
                 ELSE <<Option(token, Word(""))>> \o from[i + 1]
  IN  from

parseCliArgv(tokens) == optionsFrom(tokens)[1]

(* What the parser lets through and the CLI does not: a value given to a     *)
(* flag that takes none, a value missing, and a value that is itself a flag. *)
validateSuppliedFlagTypes(options) ==
  \A i \in DOMAIN options :
    /\ options[i].name \in BooleanFlags => options[i].value = Word("")
    /\ options[i].name \in StringFlags =>
         options[i].value # Word("") /\ options[i].value.form = "word"

(* The endpoints TestRail pages, and those of them whose pages a caller may  *)
(* ask for by limit and offset.                                              *)
UNCONTROLLED_ENDPOINTS ==
  {"GET get_datasets", "GET get_groups", "GET get_roles",
   "GET get_shared_step_history", "GET get_case_statuses",
   "GET get_variables"}

CONTROLLED_ENDPOINTS ==
  {"GET get_attachments_for_case", "GET get_attachments_for_plan",
   "GET get_attachments_for_run", "GET get_bdds", "GET get_cases",
   "GET get_history_for_case", "GET get_labels", "GET get_milestones",
   "GET get_plans", "GET get_projects", "GET get_results",
   "GET get_results_for_case", "GET get_results_for_run", "GET get_runs",
   "GET get_sections", "GET get_shared_steps", "GET get_suites",
   "GET get_tests"}

PAGINATED_ENDPOINTS == UNCONTROLLED_ENDPOINTS \cup CONTROLLED_ENDPOINTS

(* What a command accepts follows from what it declares; a flag it does not  *)
(* accept refuses the command.                                               *)
getAllowedActionFlags(spec) ==
  UNION {GlobalFlags, spec.flags,
         IF spec.apiEndpoint \in PAGINATED_ENDPOINTS
           THEN CapabilityFlags.pagination ELSE {},
         IF spec.apiEndpoint \in CONTROLLED_ENDPOINTS \/ spec.itemsRequestControls
           THEN CapabilityFlags.request ELSE {},
         IF spec.bodySchema THEN CapabilityFlags.body ELSE {},
         IF spec.fileInput THEN CapabilityFlags.input ELSE {},
         IF spec.fileOutput THEN CapabilityFlags.output ELSE {},
         IF spec.isWrite \/ spec.fileOutput THEN CapabilityFlags.write ELSE {},
         IF spec.destructive THEN CapabilityFlags.destroy ELSE {}}

(* The six flags of a walk over all pages, valid only with --all. *)
AggregateFlags ==
  (CapabilityFlags.pagination \cup CapabilityFlags.request)
    \ {"page", "all", "limit", "offset"}

(* Which page flags go together, for the mode they select. *)
validateCliPagination(spec, flags) ==
  LET paged == spec.apiEndpoint \in PAGINATED_ENDPOINTS
      fixed == spec.apiEndpoint \in UNCONTROLLED_ENDPOINTS
      asked == flags \cap {"limit", "offset"}
  IN  /\ ~ {"page", "all"} \subseteq flags
      /\ flags \cap AggregateFlags # {} => "all" \in flags
      /\ flags \cap {"page", "all"} # {} => paged
      /\ asked # {} /\ ~ paged => spec.itemsRequestControls
      /\ "all" \in flags => asked = {}
      /\ fixed => /\ "page" \notin flags => asked \subseteq spec.flags
                  /\ "page" \in flags => asked = {}
                  /\ flags \cap {"page-size", "start-offset"} = {}

-----------------------------------------------------------------------------

projectReadActions ==
  {Query("project", "get", 1, "GET get_project", "handleProjectGet"),
   Query("project", "list", 0, "GET get_projects", "handleProjectList")}

projectWriteActions ==
  {Write("project", "add", 0, "POST add_project", "handleProjectAdd"),
   Write("project", "update", 1, "POST update_project", "handleProjectUpdate"),
   Destroy("project", "delete", 1, "POST delete_project", "handleProjectDelete")}

suiteReadActions ==
  {Query("suite", "get", 1, "GET get_suite", "handleSuiteGet"),
   Needs("project-id", Query("suite", "list", 0, "GET get_suites", "handleSuiteList"))}

suiteWriteActions ==
  {Write("suite", "add", 1, "POST add_suite", "handleSuiteAdd"),
   Write("suite", "update", 1, "POST update_suite", "handleSuiteUpdate"),
   SoftMode(Destroy("suite", "delete", 1, "POST delete_suite", "handleSuiteDelete"))}

caseReadActions ==
  {Query("case", "get", 1, "GET get_case", "handleCaseGet"),
   Needs("project-id", Query("case", "list", 0, "GET get_cases", "handleCaseList")),
   Query("case", "history", 1, "GET get_history_for_case", "handleCaseHistory"),
   Query("case", "titles", 1, "GET get_case_titles", "handleCaseTitles")}

caseWriteActions ==
  {Write("case", "add", 1, "POST add_case", "handleCaseAdd"),
   Write("case", "add-bulk", 1, "POST add_cases", "handleCaseAddBulk"),
   Write("case", "update", 1, "POST update_case", "handleCaseUpdate"),
   Write("case", "update-bulk", 1, "POST update_cases", "handleCaseUpdateBulk"),
   SoftMode(Destroy("case", "delete", 1, "POST delete_case", "handleCaseDelete")),
   SoftMode(Needs("project-id",
     DestroyMany("case", "delete-bulk", 1, "POST delete_cases", "handleCaseDeleteBulk"))),
   Write("case", "copy-to-section", 1,
         "POST copy_cases_to_section", "handleCaseCopyToSection"),
   Write("case", "move-to-section", 1,
         "POST move_cases_to_section", "handleCaseMoveToSection")}

runReadActions ==
  {Query("run", "get", 1, "GET get_run", "handleRunGet"),
   Needs("project-id", Query("run", "list", 0, "GET get_runs", "handleRunList")),
   Polls(Takes({"interval", "once", "dry-run"},
               Query("run", "watch", 1, "GET get_run", "handleRunWatch")))}

runWriteActions ==
  {Write("run", "add", 1, "POST add_run", "handleRunAdd"),
   Write("run", "update", 1, "POST update_run", "handleRunUpdate"),
   Destroy("run", "close", 1, "POST close_run", "handleRunClose"),
   SoftMode(Destroy("run", "delete", 1, "POST delete_run", "handleRunDelete"))}

testReadActions ==
  {Query("test", "get", 1, "GET get_test", "handleTestGet"),
   Query("test", "list", 1, "GET get_tests", "handleTestList")}

testWriteActions ==
  {Write("test", "update-labels", 1, "POST update_test", "handleTestUpdate"),
   Write("test", "update-labels-bulk", 0, "POST update_tests", "handleTestUpdateBulk")}

resultReadActions ==
  {Needs("run-id", Query("result", "list", 0,
                         "GET get_results_for_run", "handleResultList")),
   Query("result", "list-for-test", 1, "GET get_results", "handleResultListForTest"),
   Query("result", "list-for-case", 2,
         "GET get_results_for_case", "handleResultListForCase")}

resultWriteActions ==
  {Write("result", "add", 2, "POST add_result_for_case", "handleResultAdd"),
   Write("result", "add-bulk", 1, "POST add_results_for_cases", "handleResultAddBulk"),
   Write("result", "add-bulk-by-test", 1,
         "POST add_results", "handleResultAddBulkByTest"),
   Write("result", "add-by-test", 1, "POST add_result", "handleResultAddByTest"),
   Write("result", "edit", 1, "POST edit_result", "handleResultEdit")}

milestoneReadActions ==
  {Query("milestone", "get", 1, "GET get_milestone", "handleMilestoneGet"),
   Needs("project-id", Query("milestone", "list", 0,
                             "GET get_milestones", "handleMilestoneList"))}

milestoneWriteActions ==
  {Write("milestone", "add", 1, "POST add_milestone", "handleMilestoneAdd"),
   Write("milestone", "update", 1, "POST update_milestone", "handleMilestoneUpdate"),
   Destroy("milestone", "delete", 1, "POST delete_milestone", "handleMilestoneDelete")}

userReadActions ==
  {Query("user", "get", 1, "GET get_user", "handleUserGet"),
   Takes({"project-id"}, Query("user", "list", 0, "GET get_users", "handleUserList")),
   Needs("user-email", Query("user", "get-by-email", 0,
                             "GET get_user_by_email", "handleUserGetByEmail")),
   Query("user", "get-current", 0, "GET get_current_user", "handleUserGetCurrent")}

userWriteActions ==
  {Write("user", "add", 0, "POST add_user", "handleUserAdd"),
   Write("user", "update", 1, "POST update_user", "handleUserUpdate")}

planReadActions ==
  {Query("plan", "get", 1, "GET get_plan", "handlePlanGet"),
   Needs("project-id", Query("plan", "list", 0, "GET get_plans", "handlePlanList"))}

planWriteActions ==
  {Write("plan", "add", 1, "POST add_plan", "handlePlanAdd"),
   Write("plan", "update", 1, "POST update_plan", "handlePlanUpdate"),
   Write("plan", "add-entry", 1, "POST add_plan_entry", "handlePlanAddEntry"),
   Write("plan", "add-run-to-entry", 2,
         "POST add_run_to_plan_entry", "handlePlanAddRunToEntry"),
   Write("plan", "update-entry", 2, "POST update_plan_entry", "handlePlanUpdateEntry"),
   Write("plan", "update-run-in-entry", 1,
         "POST update_run_in_plan_entry", "handlePlanUpdateRunInEntry"),
   Destroy("plan", "close", 1, "POST close_plan", "handlePlanClose"),
   Destroy("plan", "delete", 1, "POST delete_plan", "handlePlanDelete"),
   Destroy("plan", "delete-entry", 2,
           "POST delete_plan_entry", "handlePlanDeleteEntry"),
   Destroy("plan", "delete-run-from-entry", 1,
           "POST delete_run_from_plan_entry", "handlePlanDeleteRunFromEntry")}

sectionReadActions ==
  {Query("section", "get", 1, "GET get_section", "handleSectionGet"),
   Query("section", "list", 1, "GET get_sections", "handleSectionList")}

sectionWriteActions ==
  {Write("section", "add", 1, "POST add_section", "handleSectionAdd"),
   Write("section", "update", 1, "POST update_section", "handleSectionUpdate"),
   Write("section", "move", 1, "POST move_section", "handleSectionMove"),
   SoftMode(Destroy("section", "delete", 1,
                    "POST delete_section", "handleSectionDelete"))}

sharedStepReadActions ==
  {Query("shared-step", "get", 1, "GET get_shared_step", "handleSharedStepGet"),
   Needs("project-id", Query("shared-step", "list", 0,
                             "GET get_shared_steps", "handleSharedStepList")),
   Takes({"limit", "offset"},
         Query("shared-step", "history", 1,
               "GET get_shared_step_history", "handleSharedStepHistory"))}

sharedStepWriteActions ==
  {Write("shared-step", "add", 1, "POST add_shared_step", "handleSharedStepAdd"),
   Write("shared-step", "update", 1,
         "POST update_shared_step", "handleSharedStepUpdate"),
   Takes({"keep-in-cases"}, Destroy("shared-step", "delete", 1,
                                    "POST delete_shared_step", "handleSharedStepDelete"))}

reportActions ==
  {Query("report", "list", 1, "GET get_reports", "handleReportList"),
   Query("report", "run", 1, "GET run_report", "handleReportRun"),
   Query("report", "list-cross-project", 0,
         "GET get_cross_project_reports", "handleCrossProjectReportList"),
   Query("report", "run-cross-project", 1,
         "GET run_cross_project_report", "handleCrossProjectReportRun")}

caseStatusActions ==
  {Query("case-status", "list", 0, "GET get_case_statuses", "handleCaseStatusList")}

caseFieldReadActions ==
  {Query("case-field", "list", 0, "GET get_case_fields", "handleCaseFieldList")}

caseFieldWriteActions ==
  {Write("case-field", "add", 0, "POST add_case_field", "handleCaseFieldAdd")}

resultFieldActions ==
  {Query("result-field", "list", 0, "GET get_result_fields", "handleResultFieldList")}

statusActions ==
  {Query("status", "list", 0, "GET get_statuses", "handleStatusList")}

templateActions ==
  {Query("template", "list", 1, "GET get_templates", "handleTemplateList")}

roleActions ==
  {Query("role", "list", 0, "GET get_roles", "handleRoleList")}

priorityActions ==
  {Query("priority", "list", 0, "GET get_priorities", "handlePriorityList")}

caseTypeActions ==
  {Query("case-type", "list", 0, "GET get_case_types", "handleCaseTypeList")}

versionActions ==
  {Query("version", "get", 0, "GET get_version", "handleVersionGet")}

dynamicFilterFieldActions ==
  {Query("dynamic-filter-field", "list", 1,
         "GET get_dynamic_filter_fields", "handleDynamicFilterFieldList")}

attachmentReadActions ==
  {Query("attachment", "list-for-case", 1,
         "GET get_attachments_for_case", "handleAttachmentListForCase"),
   Query("attachment", "list-for-run", 1,
         "GET get_attachments_for_run", "handleAttachmentListForRun"),
   ItemsControls(Query("attachment", "list-for-test", 1,
                       "GET get_attachments_for_test", "handleAttachmentListForTest")),
   Query("attachment", "list-for-plan", 1,
         "GET get_attachments_for_plan", "handleAttachmentListForPlan"),
   Query("attachment", "list-for-plan-entry", 2,
         "GET get_attachments_for_plan_entry", "handleAttachmentListForPlanEntry"),
   Download("attachment", "get", 1, "GET get_attachment", "handleAttachmentGet")}

attachmentWriteActions ==
  {Upload("attachment", "add-to-case", 1,
          "POST add_attachment_to_case", "handleAttachmentAddToCase"),
   Upload("attachment", "add-to-result", 1,
          "POST add_attachment_to_result", "handleAttachmentAddToResult"),
   Upload("attachment", "add-to-run", 1,
          "POST add_attachment_to_run", "handleAttachmentAddToRun"),
   Upload("attachment", "add-to-plan", 1,
          "POST add_attachment_to_plan", "handleAttachmentAddToPlan"),
   Upload("attachment", "add-to-plan-entry", 2,
          "POST add_attachment_to_plan_entry", "handleAttachmentAddToPlanEntry"),
   Destroy("attachment", "delete", 1,
           "POST delete_attachment", "handleAttachmentDelete")}

bddActions ==
  {Download("bdd", "get", 1, "GET get_bdd", "handleBddGet"),
   Needs("project-id", Query("bdd", "list", 0, "GET get_bdds", "handleBddList")),
   Upload("bdd", "add", 1, "POST add_bdd", "handleBddAdd"),
   Upload("bdd", "update", 1, "POST update_bdd", "handleBddUpdate")}

variableActions ==
  {Query("variable", "list", 1, "GET get_variables", "handleVariableList"),
   Write("variable", "add", 1, "POST add_variable", "handleVariableAdd"),
   Write("variable", "update", 1, "POST update_variable", "handleVariableUpdate"),
   Destroy("variable", "delete", 1, "POST delete_variable", "handleVariableDelete")}

groupActions ==
  {Query("group", "get", 1, "GET get_group", "handleGroupGet"),
   Query("group", "list", 0, "GET get_groups", "handleGroupList"),
   Write("group", "add", 0, "POST add_group", "handleGroupAdd"),
   Write("group", "update", 1, "POST update_group", "handleGroupUpdate"),
   Destroy("group", "delete", 1, "POST delete_group", "handleGroupDelete")}

datasetActions ==
  {Query("dataset", "get", 1, "GET get_dataset", "handleDatasetGet"),
   Query("dataset", "list", 1, "GET get_datasets", "handleDatasetList"),
   Write("dataset", "add", 1, "POST add_dataset", "handleDatasetAdd"),
   Write("dataset", "update", 1, "POST update_dataset", "handleDatasetUpdate"),
   Destroy("dataset", "delete", 1, "POST delete_dataset", "handleDatasetDelete")}

configurationReadActions ==
  {Query("configuration", "list", 1, "GET get_configs", "handleConfigurationList")}

configurationWriteActions ==
  {Write("configuration", "add", 1, "POST add_config", "handleConfigurationAdd"),
   Write("configuration", "update", 1,
         "POST update_config", "handleConfigurationUpdate"),
   Destroy("configuration", "delete", 1,
           "POST delete_config", "handleConfigurationDelete")}

configurationGroupActions ==
  {Write("configuration-group", "add", 1,
         "POST add_config_group", "handleConfigurationGroupAdd"),
   Write("configuration-group", "update", 1,
         "POST update_config_group", "handleConfigurationGroupUpdate"),
   Destroy("configuration-group", "delete", 1,
           "POST delete_config_group", "handleConfigurationGroupDelete")}

labelActions ==
  {Query("label", "get", 1, "GET get_label", "handleLabelGet"),
   Query("label", "list", 1, "GET get_labels", "handleLabelList"),
   Write("label", "add", 1, "POST add_label", "handleLabelAdd"),
   Write("label", "update", 1, "POST update_label", "handleLabelUpdate"),
   Destroy("label", "delete", 1, "POST delete_label", "handleLabelDelete"),
   DestroyMany("label", "delete-bulk", 0,
               "POST delete_labels", "handleLabelDeleteBulk")}

Actions ==
  UNION {projectReadActions, projectWriteActions, suiteReadActions,
         suiteWriteActions, caseReadActions, caseWriteActions,
         runReadActions, runWriteActions, testReadActions,
         testWriteActions, resultReadActions, resultWriteActions,
         milestoneReadActions, milestoneWriteActions, userReadActions,
         userWriteActions, planReadActions, planWriteActions,
         sectionReadActions, sectionWriteActions, sharedStepReadActions,
         sharedStepWriteActions, reportActions, caseStatusActions,
         caseFieldReadActions, caseFieldWriteActions, resultFieldActions,
         statusActions, templateActions, roleActions,
         priorityActions, caseTypeActions, versionActions,
         dynamicFilterFieldActions, attachmentReadActions, attachmentWriteActions,
         bddActions, variableActions, groupActions,
         datasetActions, configurationReadActions, configurationWriteActions,
         configurationGroupActions, labelActions}
=============================================================================
