----------------------------- MODULE Terminals -----------------------------
(***************************************************************************)
(* Terminals as the phone sees them: the Kotlin repository of open tabs    *)
(* (TerminalsRepository.kt), the pollers the Rust client runs for it       *)
(* (gonomad-ffi, client.rs), and below them the daemon's PtyManager.  The  *)
(* daemon owns the terminals; the tabs are a view of them, brought up to   *)
(* date by the reattach that follows every connection.                     *)
(*                                                                         *)
(* A request is three steps: a coroutine issues it and suspends, the       *)
(* daemon executes it, the coroutine goes on with the reply.  If the       *)
(* connection is lost first, it goes on with an error, and whether the     *)
(* daemon had executed the request is open.  One request of the user is in *)
(* flight at a time, beside the reattach.                                  *)
(***************************************************************************)
EXTENDS PtyManager

CONSTANTS
    Faults      \* what the environment may do besides losing connections

ASSUME FaultsAssumption == Faults \subseteq {"overlap", "quick reconnect", "deaf child"}

VARIABLES
    online,     \* the client has a live connection (and so has its status)
    pollers,    \* the terminals with a running poller
    tabs,       \* _tabs: ids -> run state
    active,     \* _activeId
    op,         \* the user's operation in flight
    seen,       \* the last state the collector of the status flow was given
    restore,    \* restoreFromMachine, as the collector runs it
    excused,    \* history: terminals a request failed for since the last reattach
    crossed,    \* history: terminals that only the next list can settle: an open
                \* or a close of theirs crossed a reattach, or the daemon
                \* restarted, or the tabs were forgotten
    unpolled    \* history: tabs of a connection whose end the collector missed

histories == <<excused, crossed, unpolled>>
phoneVars == <<online, pollers, tabs, active, op, seen, restore, histories>>
tabsVars == <<ptyVars, phoneVars>>

Open == DOMAIN tabs
RunState == {"running", "exited"}

(* An operation: who it concerns and how far it is.  "failed" is every      *)
(* error but NotFound, which has a meaning of its own.                      *)
NoOp == [kind |-> "none", id |-> 0, at |-> "idle"]
Ops == [kind : {"none", "open", "close", "input"}, id : 0..MaxId,
        at : {"idle", "issued", "executing", "done", "not found", "failed"}]

(* The reattach: the list it was given, what is left of it, and the call it *)
(* waits for (0 stands for the list itself).                                *)
NoRestore == [at |-> "idle", live |-> {}, todo |-> {}, id |-> 0]
Restores == [at : {"idle", "issued", "done", "failed"}, live : SUBSET Ids,
             todo : SUBSET Ids, id : 0..MaxId]

(* The manager's and the app's variables (session.rs:134-146, 215-219,      *)
(* TerminalsRepository.kt:73-89).                                           *)
TabsTypeOK ==
    /\ PtyTypeOK
    /\ online \in BOOLEAN /\ seen \in BOOLEAN
    /\ pollers \subseteq Ids
    /\ excused \subseteq Ids /\ crossed \subseteq Ids /\ unpolled \subseteq Ids
    /\ Open \subseteq Ids /\ tabs \in [Open -> RunState]
    /\ active \in Ids \cup {None}
    /\ op \in Ops /\ restore \in Restores

TabsInit ==
    /\ PtyInit
    /\ online = FALSE /\ pollers = {} /\ tabs = <<>> /\ active = None
    /\ op = NoOp /\ seen = FALSE /\ restore = NoRestore
    /\ excused = {} /\ crossed = {} /\ unpolled = {}

Idle == op = NoOp
Restored == seen = online /\ restore = NoRestore

SetTab(id, state) == [i \in Open \cup {id} |-> IF i = id THEN state ELSE tabs[i]]
Without(id) == [i \in Open \ {id} |-> tabs[i]]
AnyOf(S) == IF S = {} THEN {None} ELSE S

(* The reattach has been given the list; what concerns a terminal now       *)
(* crosses it.                                                              *)
HasList == restore.id # 0 \/ restore.at = "done"

-----------------------------------------------------------------------------
(* The user's operations.                                                   *)

UserMayAct == Idle /\ ("overlap" \in Faults \/ Restored)

Issue(kind, id) ==
    /\ UserMayAct
    /\ op' = [kind |-> kind, id |-> id, at |-> IF online THEN "issued" ELSE "failed"]
    /\ UNCHANGED <<ptyVars, online, tabs, active, seen, restore>>

IssueOpen == Issue("open", 0) /\ UNCHANGED <<pollers, histories>>
IssueInput(id) == id \in Open /\ Issue("input", id) /\ UNCHANGED <<pollers, histories>>

(* close_terminal stops the poller before it calls the daemon.              *)
IssueClose(id) ==
    /\ id \in Open /\ Issue("close", id)
    /\ pollers' = pollers \ {id}
    /\ crossed' = IF HasList THEN crossed \cup {id} ELSE crossed
    /\ UNCHANGED <<excused, unpolled>>

Answer(kind, at) ==
    /\ op.kind = kind /\ op.at = "issued" /\ online
    /\ op' = [op EXCEPT !.at = at]
    /\ UNCHANGED <<online, pollers, tabs, active, seen, restore, histories>>

ExecuteOpen ==
    \/ /\ Spawn
       /\ op.kind = "open" /\ op.at = "issued" /\ online
       /\ op' = [kind |-> "open", id |-> nextId, at |-> "done"]
       /\ crossed' = IF HasList THEN crossed \cup {nextId} ELSE crossed \ {nextId}
       /\ UNCHANGED <<online, pollers, tabs, active, seen, restore, excused, unpolled>>
    \/ (SpawnRefused \/ SpawnHalfway) /\ Answer("open", "failed")

ExecuteInput ==
    \/ WriteTaken(op.id) /\ Answer("input", "done")
    \/ WriteRefused(op.id) /\ Answer("input", "not found")
    \/ WriteBlocks(op.id) /\ Answer("input", "executing")

ExecuteClose ==
    \/ Kill(op.id) /\ Answer("close", "executing")
    \/ KillRefused(op.id) /\ Answer("close", "not found")

(* The blocking call returned, and its reply with it.                       *)
CallReturns ==
    /\ \E id \in Ids : WriteResumes(id) \/ KillReturns(id)
    /\ op' = IF op.at = "executing"
             THEN [op EXCEPT !.at = IF op.kind = "input" /\ op.id \notin Running
                                    THEN "not found" ELSE "done"]
             ELSE op
    /\ UNCHANGED <<online, pollers, tabs, active, seen, restore, histories>>

(* open, close and sendInput go on.  A close drops the tab whatever came of *)
(* it; NotFound marks a tab exited.                                         *)
FinishOpen ==
    /\ op.kind = "open" /\ op.at = "done"
    /\ pollers' = pollers \cup {op.id}
    /\ tabs' = SetTab(op.id, "running")
    /\ active' = op.id
    /\ excused' = excused \ {op.id} /\ unpolled' = unpolled \ {op.id}
    /\ op' = NoOp
    /\ UNCHANGED <<ptyVars, online, seen, restore, crossed>>

\* A mutant that goes on showing the tab it dropped.
FinishClose_StillShown ==
    /\ op.kind = "close" /\ op.at \in {"done", "not found", "failed"}
    /\ tabs' = Without(op.id)
    /\ excused' = IF op.at = "failed" THEN excused \cup {op.id} ELSE excused
    /\ op' = NoOp
    /\ UNCHANGED <<ptyVars, online, pollers, active, seen, restore, crossed, unpolled>>

FinishClose ==
    /\ op.kind = "close" /\ op.at \in {"done", "not found", "failed"}
    /\ tabs' = Without(op.id)
    /\ IF active = op.id THEN active' \in AnyOf(Open \ {op.id}) ELSE UNCHANGED active
    /\ excused' = IF op.at = "failed" THEN excused \cup {op.id} ELSE excused
    /\ op' = NoOp
    /\ UNCHANGED <<ptyVars, online, pollers, seen, restore, crossed, unpolled>>

FinishInput ==
    /\ op.kind = "input" /\ op.at \in {"done", "not found", "failed"}
    /\ tabs' = IF op.at = "not found" /\ op.id \in Open THEN SetTab(op.id, "exited") ELSE tabs
    /\ op' = NoOp
    /\ UNCHANGED <<ptyVars, online, pollers, active, seen, restore, histories>>

FinishFailedOpen ==
    /\ op.kind = "open" /\ op.at = "failed"
    /\ op' = NoOp
    /\ UNCHANGED <<ptyVars, online, pollers, tabs, active, seen, restore, histories>>

Select(id) ==
    /\ UserMayAct /\ id \in Open /\ active # id
    /\ active' = id
    /\ UNCHANGED <<ptyVars, online, pollers, tabs, op, seen, restore, histories>>

-----------------------------------------------------------------------------
(* restoreFromMachine, which the collector of the status flow runs on every *)
(* change to CONNECTED it is given.  It is given none while it runs: the    *)
(* flow keeps only the newest state, and one equal to the last is dropped.  *)

Collect ==
    /\ restore = NoRestore /\ seen # online
    /\ seen' = online
    /\ restore' = IF online THEN [at |-> "issued", live |-> {}, todo |-> {}, id |-> 0]
                ELSE NoRestore
    /\ UNCHANGED <<ptyVars, online, pollers, tabs, active, op, histories>>

ExecuteList ==
    /\ restore.at = "issued" /\ restore.id = 0 /\ online /\ Free
    /\ restore' = [at |-> "done", live |-> Listed, todo |-> Listed, id |-> 0]
    /\ crossed' = {id \in Ids : op.kind \in {"open", "close"} /\ op.id = id}
    /\ unpolled' = {}
    /\ UNCHANGED <<ptyVars, online, pollers, tabs, active, op, seen, excused>>

(* Attach the next terminal of the list, or settle which tab is shown.      *)
Continue(todo, live, now) ==
    IF todo # {}
    THEN /\ \E id \in todo :
                restore' = [at |-> IF online THEN "issued" ELSE "failed",
                            live |-> live, todo |-> todo \ {id}, id |-> id]
         /\ UNCHANGED active
    ELSE /\ restore' = NoRestore
         /\ IF active \in live THEN UNCHANGED active ELSE active' \in AnyOf(DOMAIN now)

\* A mutant that only adds tabs and drops none.
FinishList_Adds ==
    /\ restore.id = 0 /\ restore.at = "done"
    /\ excused' = {}
    /\ Continue(restore.todo, restore.live, tabs)
    /\ UNCHANGED <<ptyVars, online, pollers, tabs, op, seen, crossed, unpolled>>

FinishList ==
    LET kept == [id \in Open \cap restore.live |-> tabs[id]]
    IN  /\ restore.id = 0 /\ restore.at = "done"
        /\ tabs' = kept
        /\ excused' = {}
        /\ Continue(restore.todo, restore.live, kept)
        /\ UNCHANGED <<ptyVars, online, pollers, op, seen, crossed, unpolled>>

ListFails ==
    /\ restore.id = 0 /\ restore.at = "failed"
    /\ restore' = NoRestore
    /\ UNCHANGED <<ptyVars, online, pollers, tabs, active, op, seen, histories>>

ExecuteAttach ==
    /\ restore.at = "issued" /\ restore.id # 0 /\ online /\ Free
    /\ restore' = [restore EXCEPT !.at = IF restore.id \in Listed THEN "done" ELSE "failed"]
    /\ UNCHANGED <<ptyVars, online, pollers, tabs, active, op, seen, histories>>

\* A mutant that fetches the screen and starts no poller.
FinishAttach_ScreenOnly ==
    /\ restore.id # 0 /\ restore.at = "done"
    /\ tabs' = SetTab(restore.id, "running")
    /\ Continue(restore.todo, restore.live, SetTab(restore.id, "running"))
    /\ UNCHANGED <<ptyVars, online, pollers, op, seen, histories>>

FinishAttach ==
    /\ restore.id # 0 /\ restore.at = "done"
    /\ pollers' = pollers \cup {restore.id}
    /\ tabs' = SetTab(restore.id, "running")
    /\ unpolled' = unpolled \ {restore.id}
    /\ Continue(restore.todo, restore.live, SetTab(restore.id, "running"))
    /\ UNCHANGED <<ptyVars, online, op, seen, excused, crossed>>

\* A mutant that abandons the rest when one attach fails.
AttachFails_Abandons ==
    /\ restore.id # 0 /\ restore.at = "failed"
    /\ restore' = NoRestore
    /\ UNCHANGED <<ptyVars, online, pollers, tabs, active, op, seen, histories>>

AttachFails ==
    /\ restore.id # 0 /\ restore.at = "failed"
    /\ Continue(restore.todo, restore.live, tabs)
    /\ excused' = excused \cup {restore.id}
    /\ UNCHANGED <<ptyVars, online, pollers, tabs, op, seen, crossed, unpolled>>

-----------------------------------------------------------------------------
(* A poller asks for the screen until the daemon says exited, or NotFound,  *)
(* or anything goes wrong.                                                  *)

PollEnds(id) ==
    /\ id \in pollers
    /\ online => Free /\ (id \in Listed => sessions[id].exited)
    /\ pollers' = pollers \ {id}
    /\ UNCHANGED <<ptyVars, online, tabs, active, op, seen, restore, histories>>

(* A request is not answered in time, though the connection stands: a       *)
(* poller's, which ends it; one of the reattach; or the user's.             *)
PollTimesOut(id) ==
    /\ online /\ id \in pollers
    /\ pollers' = pollers \ {id}
    /\ excused' = excused \cup {id}
    /\ UNCHANGED <<ptyVars, online, tabs, active, op, seen, restore, crossed, unpolled>>

RestoreTimesOut ==
    /\ online /\ restore.at = "issued"
    /\ restore' = [restore EXCEPT !.at = "failed"]
    /\ excused' = IF restore.id = 0 THEN Ids ELSE excused \cup {restore.id}
    /\ UNCHANGED <<ptyVars, online, pollers, tabs, active, op, seen, crossed, unpolled>>

OpTimesOut ==
    /\ online /\ op.at \in {"issued", "executing"}
    /\ op' = [op EXCEPT !.at = "failed"]
    /\ UNCHANGED <<ptyVars, online, pollers, tabs, active, seen, restore, histories>>

SpawnReplyTimesOut ==
    /\ online /\ op.kind = "open" /\ op.at = "done"
    /\ op' = [op EXCEPT !.at = "failed"]
    /\ excused' = excused \cup {op.id}
    /\ UNCHANGED <<ptyVars, online, pollers, tabs, active, seen, restore, crossed, unpolled>>

-----------------------------------------------------------------------------
(* The connection.  tear_down stops every poller; what was in flight fails. *)

Failed(at) == IF at \in {"issued", "executing"} THEN "failed" ELSE at

LoseConnection ==
    /\ online' = FALSE
    /\ pollers' = {}
    /\ op' = [op EXCEPT !.at = Failed(@)]
    /\ restore' = [restore EXCEPT !.at = Failed(@)]
    /\ UNCHANGED <<tabs, active, seen>>

Disconnect == online /\ LoseConnection /\ UNCHANGED <<ptyVars, histories>>

(* The reply of a spawn that was executed is lost with the connection.      *)
DisconnectBeforeReply ==
    /\ online /\ op.kind = "open" /\ op.at = "done"
    /\ online' = FALSE /\ pollers' = {}
    /\ op' = [op EXCEPT !.at = "failed"]
    /\ excused' = excused \cup {op.id}
    /\ restore' = [restore EXCEPT !.at = Failed(@)]
    /\ UNCHANGED <<ptyVars, tabs, active, seen, crossed, unpolled>>

Connect ==
    /\ ~online
    /\ "quick reconnect" \in Faults \/ Restored
    /\ "overlap" \in Faults \/ Idle
    /\ online' = TRUE
    /\ unpolled' = IF seen THEN Open ELSE unpolled
    /\ UNCHANGED <<ptyVars, pollers, tabs, active, op, seen, restore, excused, crossed>>

Restart ==
    /\ online /\ DaemonRestarts /\ LoseConnection
    /\ excused' = {} /\ crossed' = Ids
    /\ UNCHANGED unpolled

(* forgetAll, after an unpair dropped the connection.                       *)
ForgetAll ==
    /\ UserMayAct /\ ~online /\ Open # {}
    /\ tabs' = <<>> /\ active' = None
    /\ crossed' = Ids
    /\ UNCHANGED <<ptyVars, online, pollers, op, seen, restore, excused, unpolled>>

MachineActs ==
    /\ \E id \in Ids : ChildReads(id) \/ ChildExits(id) \/ Watch(id)
    /\ UNCHANGED phoneVars

TabsNext ==
    \/ MachineActs
    \/ IssueOpen \/ (\E id \in Ids : IssueInput(id) \/ IssueClose(id) \/ Select(id))
    \/ ExecuteOpen \/ ExecuteInput \/ ExecuteClose \/ CallReturns
    \/ FinishOpen \/ FinishClose \/ FinishInput \/ FinishFailedOpen
    \/ Collect \/ ExecuteList \/ FinishList \/ ListFails
    \/ ExecuteAttach \/ FinishAttach \/ AttachFails
    \/ (\E id \in Ids : PollEnds(id) \/ PollTimesOut(id))
    \/ RestoreTimesOut \/ OpTimesOut \/ SpawnReplyTimesOut
    \/ Disconnect \/ DisconnectBeforeReply \/ Connect \/ Restart \/ ForgetAll

(* The daemon executes what it is sent, coroutines resume, the watcher      *)
(* polls; and a child reads its input, unless it is a deaf one.  Nothing    *)
(* makes the user act, a child exit, or a connection come or go.            *)
Fairness ==
    /\ WF_tabsVars(ExecuteOpen) /\ WF_tabsVars(ExecuteInput) /\ WF_tabsVars(ExecuteClose)
    /\ WF_tabsVars(CallReturns)
    /\ WF_tabsVars(FinishOpen) /\ WF_tabsVars(FinishClose) /\ WF_tabsVars(FinishInput)
    /\ WF_tabsVars(FinishFailedOpen)
    /\ WF_tabsVars(Collect)
    /\ SF_tabsVars(ExecuteList) /\ WF_tabsVars(FinishList) /\ WF_tabsVars(ListFails)
    /\ SF_tabsVars(ExecuteAttach) /\ WF_tabsVars(FinishAttach) /\ WF_tabsVars(AttachFails)
    /\ \A id \in Ids : WF_tabsVars(Watch(id) /\ UNCHANGED phoneVars)
    /\ "deaf child" \in Faults \/
           \A id \in Ids : WF_tabsVars(ChildReads(id) /\ UNCHANGED phoneVars)

TabsSpec == TabsInit /\ [][TabsNext]_tabsVars /\ Fairness

-----------------------------------------------------------------------------
(* The tabs, but for some terminals, are those of the machine.              *)
MatchesBut(some) ==
    online /\ Idle /\ Restored =>
        /\ Listed \ some \subseteq Open
        /\ \A id \in Open \ some : tabs[id] = "running" => id \in Listed

(* Once the reattach is over and nothing is in flight, every terminal the   *)
(* machine holds has its tab, and no running tab stands for one it does not *)
(* hold, but for terminals a request has failed for since and those whose   *)
(* opening or closing crossed the reattach or the daemon's end.             *)
(* (TerminalsRepository.kt:138-151.)                                        *)
ViewMatches == MatchesBut(excused \cup crossed)

(* And every running tab of a terminal that is not over is polled: what the *)
(* terminal prints reaches the tab.                                         *)
PolledBut(some) ==
    online /\ Idle /\ Restored =>
        \A id \in (Open \cap Listed) \ some :
            tabs[id] = "running" /\ ~sessions[id].exited => id \in pollers

NoFrozenTab == PolledBut(excused \cup crossed \cup unpolled)

(* The tab shown is one of the tabs; with tabs open, between operations,    *)
(* one of them is shown.                                                    *)
ActiveIsTab ==
    Idle /\ restore = NoRestore =>
        IF Open = {} THEN active = None ELSE active \in Open

(* What the tab row shows is what the machine has.                          *)
(* (TerminalsRepository.kt:138-191.)                                        *)
TabsMatch == TabsTypeOK /\ ViewMatches /\ ActiveIsTab

(* Whatever happened before, a connection that stays brings the view back,  *)
(* again up to the terminals a request failed for.                          *)
ViewComesBack == (<>[]online) => []<>(Restored /\ Listed \ excused \subseteq Open)

(* A blocking call lets go of the manager: no terminal holds up the others  *)
(* for good, as long as children read.                                      *)
ManagerFreed == (holder # None) ~> (holder = None)

-----------------------------------------------------------------------------
(* Beside the runs. *)

(* Where the user's operations and a reattach take turns and the collector  *)
(* is given every loss, nothing crosses and nothing is missed: the tabs     *)
(* match and are polled but for terminals a request failed for.  Elsewhere  *)
(* a list read before several awaits drops or revives what crossed it, and  *)
(* an unseen loss leaves tabs without pollers                               *)
(* (TerminalsRepository.kt:152-190, ClientProvider.kt:80).                  *)
MatchesInTurn == TabsTypeOK /\ MatchesBut(excused) /\ ActiveIsTab
PolledInTurn == PolledBut(excused)

(* "ids the machine no longer reports are dropped, because the shell has    *)
(* exited and been reaped" (TerminalsRepository.kt:148-149): a tab that was *)
(* marked exited does not come back as running.                             *)
ExitedStaysExited ==
    [][\A id \in Open \cap DOMAIN tabs' :
           tabs[id] = "exited" /\ id < nextId => tabs'[id] = "exited"]_tabsVars

(* Polled without an excuse: a poller that one request failed for is not    *)
(* started again while the connection stands.                               *)
PolledAnyway == PolledBut({})

(* "Terminals must not outlive the daemon" (session.rs:509).                *)
NoOrphans == orphans = 0
=============================================================================
