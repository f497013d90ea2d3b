----------------------------- MODULE MCAssistant ----------------------------
(* Instances for TLC of the parts of the assistant.  They share no state: a *)
(* behaviour is one of one component (focus), the other ones do not move,    *)
(* and one run explores them all.                                            *)
EXTENDS AssistantTasks, AssistantRuns, AssistantChannels, AssistantIssues, AssistantMCP,
        Sandbox, TLC

VARIABLE focus


\* Only the component in focus chooses its initial state.
AssistantInit ==
    /\ focus \in {"tasks", "runs", "channels", "issues", "servers", "sandbox"}
    /\ TasksInit /\ (focus # "tasks" => ticker.task = CHOOSE t \in Reservations : TRUE)
    /\ RunsInit /\ ChannelsInit
    /\ IssuesInit
    /\ (focus # "issues" => \A x \in Attempts : attempt[x].draft = CHOOSE d \in Drafts : TRUE)
    /\ McpInit
    /\ SandboxInit
    /\ (focus # "sandbox" => \A r \in Requests : session[r] = CHOOSE b \in BoxSessions : TRUE)

\* The component f moves, the other ones do not.
Only(f) ==
    /\ focus = f /\ UNCHANGED focus
    /\ IF f = "tasks" THEN TRUE ELSE UNCHANGED taskVars
    /\ IF f = "runs" THEN TRUE ELSE UNCHANGED runVars
    /\ IF f = "channels" THEN TRUE ELSE UNCHANGED channelVars
    /\ IF f = "issues" THEN TRUE ELSE UNCHANGED issuesVars
    /\ IF f = "servers" THEN TRUE ELSE UNCHANGED mcpVars
    /\ IF f = "sandbox" THEN TRUE ELSE UNCHANGED sandboxVars

AssistantNext ==
    \/ Only("tasks") /\ TasksNext
    \/ Only("runs") /\ RunsNext
    \/ Only("channels") /\ ChannelsNext
    \/ Only("issues") /\ IssuesNext
    \/ Only("servers") /\ McpNext
    \/ Only("sandbox") /\ SandboxNext

assistantVars ==
    <<focus, taskVars, runVars, channelVars, issuesVars, mcpVars, sandboxVars>>
AssistantSpec == AssistantInit /\ [][AssistantNext]_assistantVars
=============================================================================
