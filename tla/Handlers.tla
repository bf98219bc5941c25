-------------------------------- MODULE Handlers -------------------------------
(* The handlers of src/cli/handlers: which operation of the client each one  *)
(* calls, with how many identifiers, and the steps it takes around the call, *)
(* in their order.  CliRun.tla says what each step does.                     *)
EXTENDS Naturals, Sequences, TLC

Steps(op, ids, steps) == [op |-> op, ids |-> ids, steps |-> steps]

Fetch(op, ids) == Steps(op, ids, <<"ids", "call", "out">>)

(* One of three projections of a list: items, a page or all pages. *)
Paginated(op, ids) == Steps(op, ids, <<"ids", "call", "out">>)

(* createWriteHandler, and the same skeleton where it may do without a body  *)
(* and where nothing is named on the command line.                           *)
Body(op, ids) == Steps(op, ids, <<"ids", "body", "preview", "call", "out">>)
EmptyOrBody(op, ids) ==
  Steps(op, ids, <<"ids", "optional body", "preview", "call", "out">>)
UnplacedBody(op, ids) == Steps(op, ids, <<"body", "preview", "call", "out">>)

(* createDestructiveHandler, of both kinds, and the bulk deletions written   *)
(* out by hand.                                                              *)
Delete(op, ids) ==
  Steps(op, ids, <<"ids", "soft", "preview", "confirm", "call", "out">>)
Close(op, ids) == Delete(op, ids)
DeleteMany(op, ids) ==
  Steps(op, ids, <<"ids", "body", "soft", "preview", "confirm", "call", "out">>)

(* Uploads and downloads. *)
FromFile(op, ids) == Steps(op, ids, <<"ids", "file", "preview", "call", "out">>)
ToFile(op, ids) ==
  Steps(op, ids, <<"ids", "target", "preview", "call", "write", "out">>)

(* The watch reads a run over and over: RunWatch.tla. *)
runWatchHandler ==
  [handleRunWatch |-> Steps("getRun", 1, <<"ids", "preview", "call", "out">>)]

-----------------------------------------------------------------------------

attachmentWriteHandlers ==
  [handleAttachmentAddToCase |-> FromFile("addAttachmentToCase", 1),
   handleAttachmentAddToResult |-> FromFile("addAttachmentToResult", 1),
   handleAttachmentAddToRun |-> FromFile("addAttachmentToRun", 1),
   handleAttachmentAddToPlan |-> FromFile("addAttachmentToPlan", 1),
   handleAttachmentAddToPlanEntry |-> FromFile("addAttachmentToPlanEntry", 2),
   handleAttachmentDelete |-> Delete("deleteAttachment", 1)]

attachmentHandlers ==
  [handleAttachmentListForCase |-> Paginated("getAttachmentsForCase", 1),
   handleAttachmentListForRun |-> Paginated("getAttachmentsForRun", 1),
   handleAttachmentListForTest |-> Fetch("getAttachmentsForTest", 1),
   handleAttachmentListForPlan |-> Paginated("getAttachmentsForPlan", 1),
   handleAttachmentListForPlanEntry |-> Fetch("getAttachmentsForPlanEntry", 2),
   handleAttachmentGet |-> ToFile("getAttachment", 1)]

bddHandlers ==
  [handleBddList |-> Paginated("getBdds", 1),
   handleBddGet |-> ToFile("getBdd", 1),
   handleBddAdd |-> FromFile("addBdd", 1),
   handleBddUpdate |-> FromFile("updateBdd", 1)]

caseFieldWriteHandlers ==
  [handleCaseFieldAdd |-> Body("addCaseField", 0)]

caseFieldHandlers ==
  [handleCaseFieldList |-> Fetch("getCaseFields", 0)]

caseStatusHandlers ==
  [handleCaseStatusList |-> Paginated("getCaseStatuses", 0)]

caseTypeHandlers ==
  [handleCaseTypeList |-> Fetch("getCaseTypes", 0)]

caseWriteHandlers ==
  [handleCaseAdd |-> Body("addCase", 1),
   handleCaseAddBulk |-> Body("addCases", 1),
   handleCaseUpdate |-> Body("updateCase", 1),
   handleCaseUpdateBulk |-> Body("updateCases", 1),
   handleCaseCopyToSection |-> Body("copyCasesToSection", 1),
   handleCaseMoveToSection |-> Body("moveCasesToSection", 1),
   handleCaseDelete |-> Delete("deleteCase", 1),
   handleCaseDeleteBulk |-> DeleteMany("deleteCases", 1)]

caseHandlers ==
  [handleCaseGet |-> Fetch("getCase", 1),
   handleCaseList |-> Paginated("getCases", 1),
   handleCaseTitles |-> Fetch("getCaseTitles", 0),
   handleCaseHistory |-> Paginated("getHistoryForCase", 1)]

configurationWriteHandlers ==
  [handleConfigurationGroupAdd |-> Body("addConfigurationGroup", 1),
   handleConfigurationGroupUpdate |-> Body("updateConfigurationGroup", 1),
   handleConfigurationGroupDelete |-> Delete("deleteConfigurationGroup", 1),
   handleConfigurationAdd |-> Body("addConfiguration", 1),
   handleConfigurationUpdate |-> Body("updateConfiguration", 1),
   handleConfigurationDelete |-> Delete("deleteConfiguration", 1)]

configurationHandlers ==
  [handleConfigurationList |-> Fetch("getConfigurations", 1)]

datasetWriteHandlers ==
  [handleDatasetAdd |-> Body("addDataset", 1),
   handleDatasetUpdate |-> EmptyOrBody("updateDataset", 1),
   handleDatasetDelete |-> Delete("deleteDataset", 1)]

datasetHandlers ==
  [handleDatasetGet |-> Fetch("getDataset", 1),
   handleDatasetList |-> Paginated("getDatasets", 1)]

dynamicFilterFieldHandlers ==
  [handleDynamicFilterFieldList |-> Fetch("getDynamicFilterFields", 1)]

groupWriteHandlers ==
  [handleGroupAdd |-> UnplacedBody("addGroup", 0),
   handleGroupUpdate |-> Body("updateGroup", 1),
   handleGroupDelete |-> Delete("deleteGroup", 1)]

groupHandlers ==
  [handleGroupGet |-> Fetch("getGroup", 1),
   handleGroupList |-> Paginated("getGroups", 0)]

labelWriteHandlers ==
  [handleLabelAdd |-> Body("addLabel", 1),
   handleLabelUpdate |-> Body("updateLabel", 1),
   handleLabelDelete |-> Delete("deleteLabel", 1),
   handleLabelDeleteBulk |-> DeleteMany("deleteLabels", 0)]

labelHandlers ==
  [handleLabelGet |-> Fetch("getLabel", 1),
   handleLabelList |-> Paginated("getLabels", 1)]

milestoneWriteHandlers ==
  [handleMilestoneAdd |-> Body("addMilestone", 1),
   handleMilestoneUpdate |-> Body("updateMilestone", 1),
   handleMilestoneDelete |-> Delete("deleteMilestone", 1)]

milestoneHandlers ==
  [handleMilestoneGet |-> Fetch("getMilestone", 1),
   handleMilestoneList |-> Paginated("getMilestones", 1)]

planWriteHandlers ==
  [handlePlanAdd |-> Body("addPlan", 1),
   handlePlanUpdate |-> Body("updatePlan", 1),
   handlePlanAddEntry |-> Body("addPlanEntry", 1),
   handlePlanAddRunToEntry |-> Body("addRunToPlanEntry", 2),
   handlePlanUpdateEntry |-> Body("updatePlanEntry", 2),
   handlePlanUpdateRunInEntry |-> Body("updateRunInPlanEntry", 1),
   handlePlanClose |-> Close("closePlan", 1),
   handlePlanDelete |-> Delete("deletePlan", 1),
   handlePlanDeleteEntry |-> Delete("deletePlanEntry", 2),
   handlePlanDeleteRunFromEntry |-> Delete("deleteRunFromPlanEntry", 1)]

planHandlers ==
  [handlePlanGet |-> Fetch("getPlan", 1),
   handlePlanList |-> Paginated("getPlans", 1)]

priorityHandlers ==
  [handlePriorityList |-> Fetch("getPriorities", 0)]

projectWriteHandlers ==
  [handleProjectAdd |-> Body("addProject", 0),
   handleProjectUpdate |-> Body("updateProject", 1),
   handleProjectDelete |-> Delete("deleteProject", 1)]

projectHandlers ==
  [handleProjectGet |-> Fetch("getProject", 1),
   handleProjectList |-> Paginated("getProjects", 0)]

reportHandlers ==
  [handleReportList |-> Fetch("getReports", 1),
   handleReportRun |-> Fetch("runReport", 1),
   handleCrossProjectReportList |-> Fetch("getCrossProjectReports", 0),
   handleCrossProjectReportRun |-> Fetch("runCrossProjectReport", 1)]

resultFieldHandlers ==
  [handleResultFieldList |-> Fetch("getResultFields", 0)]

resultWriteHandlers ==
  [handleResultAddByTest |-> Body("addResult", 1),
   handleResultAdd |-> Body("addResultForCase", 2),
   handleResultAddBulk |-> Body("addResultsForCases", 1),
   handleResultAddBulkByTest |-> Body("addResults", 1),
   handleResultEdit |-> Body("editResult", 1)]

resultHandlers ==
  [handleResultList |-> Paginated("getResultsForRun", 1),
   handleResultListForTest |-> Paginated("getResults", 1),
   handleResultListForCase |-> Paginated("getResultsForCase", 2)]

roleHandlers ==
  [handleRoleList |-> Paginated("getRoles", 0)]

(* A mutated form: the two handlers that take a body are wired crosswise. *)
runWriteHandlersSwapped ==
  [handleRunAdd |-> Body("updateRun", 1),
   handleRunUpdate |-> Body("addRun", 1),
   handleRunClose |-> Close("closeRun", 1),
   handleRunDelete |-> Delete("deleteRun", 1)]

runWriteHandlers ==
  [handleRunAdd |-> Body("addRun", 1),
   handleRunUpdate |-> Body("updateRun", 1),
   handleRunClose |-> Close("closeRun", 1),
   handleRunDelete |-> Delete("deleteRun", 1)]

runHandlers ==
  [handleRunGet |-> Fetch("getRun", 1),
   handleRunList |-> Paginated("getRuns", 1)]

sectionWriteHandlers ==
  [handleSectionAdd |-> Body("addSection", 1),
   handleSectionUpdate |-> Body("updateSection", 1),
   handleSectionMove |-> Body("moveSection", 1),
   handleSectionDelete |-> Delete("deleteSection", 1)]

sectionHandlers ==
  [handleSectionGet |-> Fetch("getSection", 1),
   handleSectionList |-> Paginated("getSections", 1)]

sharedStepWriteHandlers ==
  [handleSharedStepAdd |-> Body("addSharedStep", 1),
   handleSharedStepUpdate |-> Body("updateSharedStep", 1),
   handleSharedStepDelete |-> Delete("deleteSharedStep", 1)]

sharedStepHandlers ==
  [handleSharedStepGet |-> Fetch("getSharedStep", 1),
   handleSharedStepList |-> Paginated("getSharedSteps", 1),
   handleSharedStepHistory |-> Paginated("getSharedStepHistory", 1)]

statusHandlers ==
  [handleStatusList |-> Fetch("getStatuses", 0)]

suiteWriteHandlers ==
  [handleSuiteAdd |-> Body("addSuite", 1),
   handleSuiteUpdate |-> Body("updateSuite", 1),
   handleSuiteDelete |-> Delete("deleteSuite", 1)]

suiteHandlers ==
  [handleSuiteGet |-> Fetch("getSuite", 1),
   handleSuiteList |-> Paginated("getSuites", 1)]

templateHandlers ==
  [handleTemplateList |-> Fetch("getTemplates", 1)]

testWriteHandlers ==
  [handleTestUpdate |-> Body("updateTest", 1),
   handleTestUpdateBulk |-> UnplacedBody("updateTests", 0)]

testHandlers ==
  [handleTestGet |-> Fetch("getTest", 1),
   handleTestList |-> Paginated("getTests", 1)]

userWriteHandlers ==
  [handleUserAdd |-> Body("addUser", 0),
   handleUserUpdate |-> Body("updateUser", 1)]

userHandlers ==
  [handleUserGet |-> Fetch("getUser", 1),
   handleUserList |-> Fetch("getUsers", 0),
   handleUserGetByEmail |-> Fetch("getUserByEmail", 0),
   handleUserGetCurrent |-> Fetch("getCurrentUser", 0)]

variableWriteHandlers ==
  [handleVariableAdd |-> Body("addVariable", 1),
   handleVariableUpdate |-> Body("updateVariable", 1),
   handleVariableDelete |-> Delete("deleteVariable", 1)]

variableHandlers ==
  [handleVariableList |-> Paginated("getVariables", 1)]

versionHandlers ==
  [handleVersionGet |-> Fetch("getVersion", 0)]

Handlers ==
     attachmentWriteHandlers @@ attachmentHandlers @@ bddHandlers
  @@ caseFieldWriteHandlers @@ caseFieldHandlers @@ caseStatusHandlers
  @@ caseTypeHandlers @@ caseWriteHandlers @@ caseHandlers
  @@ configurationWriteHandlers @@ configurationHandlers @@ datasetWriteHandlers
  @@ datasetHandlers @@ dynamicFilterFieldHandlers @@ groupWriteHandlers
  @@ groupHandlers @@ labelWriteHandlers @@ labelHandlers
  @@ milestoneWriteHandlers @@ milestoneHandlers @@ planWriteHandlers
  @@ planHandlers @@ priorityHandlers @@ projectWriteHandlers
  @@ projectHandlers @@ reportHandlers @@ resultFieldHandlers
  @@ resultWriteHandlers @@ resultHandlers @@ roleHandlers
  @@ runWriteHandlers @@ runHandlers @@ sectionWriteHandlers
  @@ sectionHandlers @@ sharedStepWriteHandlers @@ sharedStepHandlers
  @@ statusHandlers @@ suiteWriteHandlers @@ suiteHandlers
  @@ templateHandlers @@ testWriteHandlers @@ testHandlers
  @@ userWriteHandlers @@ userHandlers @@ variableWriteHandlers
  @@ variableHandlers @@ versionHandlers
  @@ runWatchHandler
=============================================================================
