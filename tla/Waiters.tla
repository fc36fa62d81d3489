------------------------------ MODULE Waiters ------------------------------
(***************************************************************************)
(* The waiters of the services (wait_get_..., wait_...): all are the same  *)
(* loop, generated for an object, the states that end the wait well, and   *)
(* those that end it with OperationFailed.  This is their table, with the  *)
(* enumerations of the states that the objects have.                       *)
(***************************************************************************)

ComputeState == {"ACTIVE", "DELETING", "ERROR", "STARTING", "STOPPED", "STOPPING", "UPDATING"}
AppDeploymentState == {"CANCELLED", "FAILED", "IN_PROGRESS", "SUCCEEDED"}
ProvisioningInfoState ==
    {"ACTIVE", "DEGRADED", "DELETING", "FAILED", "PROVISIONING", "UPDATING"}
ClusterState ==
    {"ERROR", "PENDING", "RESIZING", "RESTARTING", "RUNNING", "TERMINATED", "TERMINATING",
     "UNKNOWN"}
CommandStatus == {"CANCELLED", "CANCELLING", "ERROR", "FINISHED", "QUEUED", "RUNNING"}
ContextStatus == {"ERROR", "PENDING", "RUNNING"}
MessageStatus ==
    {"ASKING_AI", "CANCELLED", "COMPLETED", "EXECUTING_QUERY", "FAILED", "FETCHING_METADATA",
     "FILTERING_CONTEXT", "PENDING_WAREHOUSE", "QUERY_RESULT_EXPIRED", "SUBMITTED"}
RunLifeCycleState ==
    {"BLOCKED", "INTERNAL_ERROR", "PENDING", "QUEUED", "RUNNING", "SKIPPED", "TERMINATED",
     "TERMINATING", "WAITING_FOR_RETRY"}
ForecastingExperimentState == {"CANCELLED", "FAILED", "PENDING", "RUNNING", "SUCCEEDED"}
PipelineState ==
    {"DELETED", "DEPLOYING", "FAILED", "IDLE", "RECOVERING", "RESETTING", "RUNNING",
     "STARTING", "STOPPING"}
WorkspaceStatus ==
    {"BANNED", "CANCELLING", "FAILED", "NOT_PROVISIONED", "PROVISIONING", "RUNNING"}
EndpointStateConfigUpdate ==
    {"IN_PROGRESS", "NOT_UPDATING", "UPDATE_CANCELED", "UPDATE_FAILED"}
WarehouseState == {"DELETED", "DELETING", "RUNNING", "STARTING", "STOPPED", "STOPPING"}
EndpointStatusState == {"OFFLINE", "ONLINE", "PROVISIONING"}

\* A state that this version of the SDK has no name for: _enum() makes None of it.
Unnamed == "?"

\* target_states and failure_states of a waiter for an object with such states.
Wait(states, target, failure) == [states |-> states, target |-> target, failure |-> failure]

AppActive == Wait(ComputeState, {"ACTIVE"}, {"ERROR", "STOPPED"})
AppDeployed == Wait(AppDeploymentState, {"SUCCEEDED"}, {"FAILED"})
AppStopped == Wait(ComputeState, {"STOPPED"}, {"ERROR"})
OnlineTableActive == Wait(ProvisioningInfoState, {"ACTIVE"}, {"FAILED"})
ClusterRunning == Wait(ClusterState, {"RUNNING"}, {"ERROR", "TERMINATED"})
ClusterTerminated == Wait(ClusterState, {"TERMINATED"}, {"ERROR"})
CommandCancelled == Wait(CommandStatus, {"CANCELLED"}, {"ERROR"})
CommandFinished == Wait(CommandStatus, {"FINISHED", "ERROR"}, {"CANCELLED", "CANCELLING"})
ContextRunning == Wait(ContextStatus, {"RUNNING"}, {"ERROR"})
MessageCompleted == Wait(MessageStatus, {"COMPLETED"}, {"FAILED"})
RunEnded == Wait(RunLifeCycleState, {"TERMINATED", "SKIPPED"}, {"INTERNAL_ERROR"})
ExperimentSucceeded ==
    Wait(ForecastingExperimentState, {"SUCCEEDED"}, {"FAILED", "CANCELLED"})
PipelineIdle == Wait(PipelineState, {"IDLE"}, {"FAILED"})
WorkspaceRunning == Wait(WorkspaceStatus, {"RUNNING"}, {"BANNED", "FAILED"})
ServingEndpointUpdated ==
    Wait(EndpointStateConfigUpdate, {"NOT_UPDATING"}, {"UPDATE_FAILED", "UPDATE_CANCELED"})
WarehouseRunning == Wait(WarehouseState, {"RUNNING"}, {"STOPPED", "DELETED"})
WarehouseStopped == Wait(WarehouseState, {"STOPPED"}, {})
VectorSearchOnline == Wait(EndpointStatusState, {"ONLINE"}, {"OFFLINE"})

Waits ==
    {AppActive, AppDeployed, AppStopped, OnlineTableActive, ClusterRunning,
     ClusterTerminated, CommandCancelled, CommandFinished, ContextRunning,
     MessageCompleted, RunEnded, ExperimentSucceeded, PipelineIdle, WorkspaceRunning,
     ServingEndpointUpdated, WarehouseRunning, WarehouseStopped, VectorSearchOnline}
=============================================================================
