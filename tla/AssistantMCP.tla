---------------------------- MODULE AssistantMCP ----------------------------
(***************************************************************************)
(* One MCP server of the assistant (assistant_mcp.py): the record that the *)
(* administrator saves and replaces, the tool catalogue that is read from  *)
(* it, the protocol session, and calls of one tool: prepared, confirmed    *)
(* when the tool is not on the read-only list, and executed once.  The     *)
(* store is asked before and after every request, each time with an await. *)
(***************************************************************************)
EXTENDS Naturals, FiniteSets

CONSTANTS Calls,      \* prepared calls of the tool
          McpChanges  \* bound: changes of the server record

ASSUME McpAssumption == McpChanges \in Nat

VARIABLES server,   \* the record: generation, enabled and read-only list
          allowed,  \* allow_actions of the assistant
          catalog,  \* the generation and the tool it holds, and not expired
          link,     \* the generation of the session with the server
          line,     \* who holds the lock of the server
          reading,  \* discover: where it stands and the record it read
          call,     \* call[c]: stage, record it was prepared for, approval
          sent      \* sent[c]: requests that executed the tool

mcpVars == <<server, allowed, catalog, link, line, reading, call, sent>>

NoOneHolds == "nobody"
Discovery == "discover"
Generations == 0..McpChanges
Records == [gen: Generations, on: BOOLEAN, readOnly: BOOLEAN]
McpStages == {"idle", "prepared", "confirmed", "locked", "consumed", "sent", "answered", "passed", "over"}
McpTypeOK ==
    /\ server \in Records /\ allowed \in BOOLEAN
    /\ catalog \in [of: Records, fresh: BOOLEAN] /\ link \in Generations \cup {McpChanges + 1}
    /\ line \in Calls \cup {NoOneHolds, Discovery}
    /\ reading \in [stage: {"idle", "linking", "listing", "listed"}, of: Records]
    /\ call \in [Calls -> [stage: McpStages, of: Records, live: BOOLEAN]]
    /\ sent \in [Calls -> Nat]

NoLink == McpChanges + 1
McpInit ==
    /\ server = [gen |-> 0, on |-> TRUE, readOnly |-> FALSE]
    /\ allowed = TRUE /\ line = NoOneHolds /\ link = NoLink
    /\ catalog = [of |-> server, fresh |-> FALSE]
    /\ reading = [stage |-> "idle", of |-> server]
    /\ call = [c \in Calls |-> [stage |-> "idle", of |-> server, live |-> TRUE]]
    /\ sent = [c \in Calls |-> 0]

Step(c, s) == call' = [call EXCEPT ![c].stage = s]

-----------------------------------------------------------------------------
\* save_server: every save is a new generation; catalogue and session go.
SaveServer ==
    /\ server.gen < McpChanges
    /\ \E on, ro \in BOOLEAN :
         server' = [gen |-> server.gen + 1, on |-> on, readOnly |-> ro]
    /\ catalog' = [catalog EXCEPT !.fresh = FALSE] /\ link' = NoLink
    /\ UNCHANGED <<allowed, line, reading, call, sent>>

ToggleActions ==
    /\ allowed' = ~allowed
    /\ UNCHANGED <<server, catalog, link, line, reading, call, sent>>

CatalogExpires ==
    /\ catalog.fresh /\ catalog' = [catalog EXCEPT !.fresh = FALSE]
    /\ UNCHANGED <<server, allowed, link, line, reading, call, sent>>

-----------------------------------------------------------------------------
\* discover, with the lock: initialize unless the session is of this record.
Discover ==
    /\ reading.stage = "idle" /\ line = NoOneHolds /\ server.on
    /\ line' = Discovery
    /\ reading' = [stage |-> IF link = server.gen THEN "listing" ELSE "linking",
                   of |-> server]
    /\ UNCHANGED <<server, allowed, catalog, link, call, sent>>

\* _rpc: the record is compared before the request and after the answer.
Unchanged(r) == server = r /\ server.on
Link ==
    /\ reading.stage = "linking"
    /\ IF Unchanged(reading.of)
         THEN link' = server.gen /\ reading' = [reading EXCEPT !.stage = "listing"]
              /\ UNCHANGED line
         ELSE reading' = [reading EXCEPT !.stage = "idle"] /\ line' = NoOneHolds
              /\ UNCHANGED link
    /\ UNCHANGED <<server, allowed, catalog, call, sent>>

ListPages ==
    /\ reading.stage = "listing" /\ Unchanged(reading.of)
    /\ reading' = [reading EXCEPT !.stage = "listed"]
    /\ UNCHANGED <<server, allowed, catalog, link, line, call, sent>>

\* The catalogue counts only for the record it was read from.
StoreCatalog ==
    /\ reading.stage = "listed"
    /\ IF Unchanged(reading.of)
         THEN catalog' = [of |-> reading.of, fresh |-> TRUE] ELSE UNCHANGED catalog
    /\ reading' = [reading EXCEPT !.stage = "idle"] /\ line' = NoOneHolds
    /\ UNCHANGED <<server, allowed, link, call, sent>>

\* An error of the server, a page that is not a catalogue, 45 seconds.
DiscoverFails ==
    /\ reading.stage \in {"linking", "listing"}
    /\ reading' = [reading EXCEPT !.stage = "idle"] /\ line' = NoOneHolds
    /\ link' \in {link, NoLink}
    /\ UNCHANGED <<server, allowed, catalog, call, sent>>

-----------------------------------------------------------------------------
Current == catalog.fresh /\ catalog.of.gen = server.gen /\ server.on

\* prepare_call: the preview names the tool of a current catalogue.
PrepareCall(c) ==
    /\ call[c].stage = "idle" /\ Current /\ (server.readOnly \/ allowed)
    /\ call' = [call EXCEPT ![c] = [stage |-> "prepared", of |-> server, live |-> TRUE]]
    /\ UNCHANGED <<server, allowed, catalog, link, line, reading, sent>>

ConfirmCall(c) ==
    /\ call[c].stage = "prepared" /\ Step(c, "confirmed")
    /\ UNCHANGED <<server, allowed, catalog, link, line, reading, sent>>

\* The ticket or the approval runs out.
CallExpires(c) ==
    /\ call[c].stage \in {"prepared", "confirmed", "locked", "consumed"} /\ call[c].live
    /\ call' = [call EXCEPT ![c].live = FALSE]
    /\ UNCHANGED <<server, allowed, catalog, link, line, reading, sent>>

Executable(c) == \/ call[c].stage = "confirmed"
                 \/ call[c].stage = "prepared" /\ call[c].of.readOnly
WaitForLine(c) ==
    /\ Executable(c)
    /\ line = NoOneHolds
    /\ line' = c /\ Step(c, "locked")
    /\ UNCHANGED <<server, allowed, catalog, link, reading, sent>>

Permitted(c) == call[c].live /\ (call[c].of.readOnly \/ allowed)

\* execute: the same record and tool as in the preview; then the ticket is
\* taken away, before anything is sent.
ConsumeTicket(c) ==
    /\ call[c].stage = "locked"
    /\ IF Current /\ server = call[c].of /\ Permitted(c)
         THEN Step(c, "consumed") /\ UNCHANGED line
         ELSE Step(c, "over") /\ line' = NoOneHolds
    /\ UNCHANGED <<server, allowed, catalog, link, reading, sent>>

\* fault: the confirmation is not looked at after the name was resolved.
GoesAhead(c) == TRUE
\* request(): after the name was resolved, authorize() looks at it all again.
Authorized(c) == Unchanged(call[c].of) /\ Permitted(c)
SendCall(c) ==
    /\ call[c].stage = "consumed"
    /\ IF Authorized(c)
         THEN Step(c, "sent") /\ sent' = [sent EXCEPT ![c] = @ + 1] /\ UNCHANGED line
         ELSE Step(c, "over") /\ line' = NoOneHolds /\ UNCHANGED sent
    /\ UNCHANGED <<server, allowed, catalog, link, reading>>

Answered(c) ==
    /\ call[c].stage = "sent" /\ Step(c, "answered")
    /\ UNCHANGED <<server, allowed, catalog, link, line, reading, sent>>

\* A timeout, a cancellation or an answer that cannot be used ends the call:
\* what was sent is not sent again.
CallFails(c) ==
    /\ call[c].stage \in {"consumed", "sent"} /\ Step(c, "over") /\ line' = NoOneHolds
    /\ UNCHANGED <<server, allowed, catalog, link, reading, sent>>

\* The answer of a server that was replaced meanwhile is not passed on, and
\* its session is not kept.
PassOn(c) ==
    /\ call[c].stage = "answered"
    /\ IF Authorized(c) THEN link' = call[c].of.gen /\ Step(c, "passed")
                        ELSE UNCHANGED link /\ Step(c, "over")
    /\ line' = NoOneHolds
    /\ UNCHANGED <<server, allowed, catalog, reading, sent>>

McpNext ==
    \/ SaveServer \/ ToggleActions \/ CatalogExpires
    \/ Discover \/ Link \/ ListPages \/ StoreCatalog \/ DiscoverFails
    \/ \E c \in Calls : \/ PrepareCall(c) \/ ConfirmCall(c) \/ CallExpires(c)
                        \/ WaitForLine(c) \/ ConsumeTicket(c) \/ SendCall(c)
                        \/ Answered(c) \/ CallFails(c) \/ PassOn(c)
McpSpec == McpInit /\ [][McpNext]_mcpVars

-----------------------------------------------------------------------------
\* A prepared call reaches the server at most once, and only while the server
\* is the one it was prepared for and the call is still permitted; a timeout
\* does not repeat it, and the answer of another server is not its result.
CalledOnce ==
    \A c \in Calls :
        /\ sent'[c] # sent[c] =>
              /\ sent[c] = 0 /\ server = call[c].of /\ server.on
              /\ call[c].live /\ (call[c].of.readOnly \/ allowed)
        /\ call[c].stage = "answered" /\ call'[c].stage = "passed" =>
              sent[c] = 1 /\ server = call[c].of

\* After the server was replaced nothing of it counts any more: no session and
\* no catalogue.
ReplacedIsRevoked ==
    /\ link \in {server.gen, NoLink}
    /\ catalog.fresh => catalog.of = server

\* A tool call does what was shown when it was prepared, on the server it was
\* shown of, and counts only while that server is still the configured one.
CalledAsShown == [][CalledOnce /\ ReplacedIsRevoked' /\ McpTypeOK']_mcpVars
=============================================================================
