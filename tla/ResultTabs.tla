----------------------------- MODULE ResultTabs -----------------------------
(***************************************************************************)
(* The window of the GTK interface (window.rs): one grid, which shows the  *)
(* result of the tab in front, while those of other tabs are parked with   *)
(* what is staged on them (result.rs, editing.rs).                         *)
(*                                                                         *)
(* All of it runs on one thread, but a run asks the safety gate first, a   *)
(* commit and a re-read ask the engine, and dialogs wait for the user; the *)
(* user may bring another tab to the front before the answer comes.        *)
(*                                                                         *)
(* A statement is known by the number of the request that resolved for it, a  *)
(* query by the number of its run.  The clauses that headers and filters   *)
(* add to a statement are left out, and so are the values of an edit.  The *)
(* gate and the engine answer as they like.                                *)
(***************************************************************************)
EXTENDS Naturals, Sequences, FiniteSets

CONSTANTS
    Tabs,           \* editor tabs
    Connections,    \* saved profiles
    Nobody,         \* the empty name of a tab or a profile
    Gated,          \* profiles whose safety level gates
    Writable,       \* profiles that are not read_only
    Documents,      \* what rows are identified by, whatever the connection
    MaxAsked,       \* bound: statements resolved for
    MaxRan,         \* bound: statements run
    MaxOpen         \* bound: commits, or ceremonies of runs, open at a time

ASSUME TabsAssumption ==
    /\ Nobody \notin Tabs \cup Connections
    /\ Gated \subseteq Connections /\ Writable \subseteq Connections
    /\ MaxAsked \in Nat /\ MaxRan \in Nat /\ MaxOpen \in Nat

VARIABLES
    activeTab,          \* Window.active_tab
    activeConnection,   \* Window.active_connection
    resultTab,          \* Window.result_tab
    screen,             \* what is in the grid, with its ran_profile and derived
    results,            \* Window.results: parked results, by tab
    runProfile,         \* Window.run_profile
    gating,             \* Window.gating: the gate evaluates a run
    ceremonies,         \* ceremonies under way that will launch
    commits,            \* batches confirmed, sent or refused, with their profile
    committing,         \* Window.committing
    reread,             \* documents being read back, and from where
    review,             \* Window.review, less what is resolved: where each version is from
    resolved,              \* history: the profile each statement resolved to
    ran                 \* history: each run's tab, profile and statement

runVars == <<runProfile, gating, ceremonies, resolved, ran>>
frontVars == <<activeTab, activeConnection, resultTab, results>>
editVars == <<commits, committing, reread, review>>
tabsVars == <<frontVars, screen, runVars, editVars>>
-----------------------------------------------------------------------------
Names == Tabs \cup {Nobody}
Profiled == Connections \cup {Nobody}
Queries == 1 .. MaxRan

\* StagedDocument: the query whose row it was staged on, its StagedState (a document
\* that was not attempted is one that failed) and whose version it expects.
Staged == [from : Queries, state : {"pending", "applied", "conflicted", "failed"},
           expect : Connections]
Unstaged == [from |-> 0, state |-> "", expect |-> Nobody]
NoEdits == [d \in Documents |-> Unstaged]

\* A result: its query, where it ran, what it derives from, whether its connection lets
\* it be edited, and PendingEdits.
NoResult == [query |-> 0, profile |-> Nobody, base |-> 0, editing |-> FALSE, edits |-> NoEdits]

StagedDocs(edits) == {d \in Documents : edits[d] # Unstaged}
Pending(edits) == [d \in Documents |-> IF edits[d].state = "applied" THEN Unstaged ELSE edits[d]]
Conflicted(edits) == {d \in Documents : edits[d].state = "conflicted"}
Editable == screen.query # 0 /\ screen.editing

TabsInit ==
    /\ activeTab = Nobody /\ activeConnection = Nobody /\ resultTab = Nobody
    /\ screen = NoResult
    /\ results = [t \in Tabs |-> NoResult]
    /\ runProfile = Nobody /\ gating = FALSE /\ ceremonies = 0
    /\ commits = {} /\ committing = FALSE
    /\ reread = [docs |-> {}, from |-> Nobody]
    /\ review = [d \in Documents |-> Nobody]
    /\ resolved = <<>> /\ ran = <<>>
-----------------------------------------------------------------------------
(* Running *)

\* launch: what is derived now goes to run_profile.  The engine takes it or refuses;
\* what was in the grid goes either way, with its edits.
Launch(base, to) ==
    /\ Len(ran) < MaxRan
    /\ \/ /\ to \in Connections
          /\ screen' = [query |-> Len(ran) + 1, profile |-> to, base |-> base,
                        editing |-> to \in Writable, edits |-> NoEdits]
          /\ resultTab' = activeTab /\ activeConnection' = to
          /\ ran' = Append(ran, [tab |-> activeTab, to |-> to, base |-> base])
       \/ /\ screen' = [NoResult EXCEPT !.base = base]
          /\ resultTab' = Nobody
          /\ UNCHANGED <<activeConnection, ran>>

\* execute: straight on where nothing is gated, and after one evaluation at a time
\* otherwise.
ExecuteOn(base, to) ==
    \/ /\ to \in Connections \ Gated /\ Launch(base, to)
       /\ UNCHANGED gating
    \/ /\ to \notin Connections \ Gated
       /\ gating' = (gating \/ to \in Gated)
       /\ screen' = [screen EXCEPT !.base = base]
       /\ UNCHANGED <<resultTab, activeConnection, ran>>

\* run_on: the tab's target, or what a directive or the sidebar says.
RunOn(to) ==
    /\ Len(resolved) < MaxAsked
    /\ resolved' = Append(resolved, to)
    /\ runProfile' = to
    /\ ExecuteOn(Len(resolved) + 1, to)
    /\ UNCHANGED <<activeTab, results, ceremonies, editVars>>

\* A header is clicked, a filter applied or cleared, Reload pressed.
Rerun ==
    /\ screen.base # 0
    /\ ExecuteOn(screen.base, runProfile)
    /\ UNCHANGED <<activeTab, results, runProfile, ceremonies, resolved, editVars>>

\* The evaluation comes back: nothing is required, or a ceremony.
Evaluated ==
    /\ gating /\ gating' = FALSE
    /\ \/ Launch(screen.base, runProfile) /\ UNCHANGED ceremonies
       \/ /\ ceremonies < MaxOpen /\ ceremonies' = ceremonies + 1
          /\ UNCHANGED <<screen, resultTab, activeConnection, ran>>
    /\ UNCHANGED <<activeTab, results, runProfile, resolved, editVars>>

\* clear_challenge: granted, or not.
Ceremony ==
    /\ ceremonies > 0 /\ ceremonies' = ceremonies - 1
    /\ \/ Launch(screen.base, runProfile)
       \/ UNCHANGED <<screen, resultTab, activeConnection, ran>>
    /\ UNCHANGED <<activeTab, results, runProfile, gating, resolved, editVars>>
-----------------------------------------------------------------------------
(* Tabs *)

\* park_visible, with the tabs that are still open.
Park(saved) ==
    IF resultTab # Nobody /\ screen.query # 0
      THEN [saved EXCEPT ![resultTab] = screen]
      ELSE saved

\* Fault: a parked result comes back on whatever connection is in front.
RestorableAnywhere(t, connection, saved) ==
    t # Nobody /\ saved[t].query # 0

\* ... and only if this connection produced it.
Restorable(t, connection, saved) ==
    t # Nobody /\ saved[t].query # 0 /\ saved[t].profile = connection

\* sync_visible: park what is in the grid, clear it, and restore what belongs there.
Sync(t, connection, open) ==
    \/ /\ resultTab = t /\ screen.profile = connection
       /\ results' = [u \in Tabs |-> IF u \in open THEN results[u] ELSE NoResult]
       /\ UNCHANGED <<resultTab, screen>>
    \/ /\ ~(resultTab = t /\ screen.profile = connection)
       /\ LET saved == [u \in Tabs |-> IF u \in open THEN Park(results)[u] ELSE NoResult]
          IN  IF Restorable(t, connection, saved)
                THEN /\ screen' = saved[t] /\ resultTab' = t
                     /\ results' = [saved EXCEPT ![t] = NoResult]
                ELSE /\ screen' = NoResult /\ resultTab' = Nobody
                     /\ results' = saved

\* set_active_tab: another tab comes to the front, or another connection under the
\* same one.
SetActiveTab(t, connection) ==
    /\ t = Nobody => connection = Nobody
    /\ activeTab' = t /\ activeConnection' = connection
    /\ Sync(t, connection, Tabs)
    /\ UNCHANGED <<runVars, editVars>>

\* A tab is closed: the one that comes to the front is announced first, then
\* forget_results drops what is not open any more.
CloseTab(closed, t, connection) ==
    /\ closed # t /\ (t = Nobody => connection = Nobody)
    /\ activeTab' = t /\ activeConnection' = connection
    /\ Sync(t, connection, Tabs \ {closed})
    /\ UNCHANGED <<runVars, editVars>>
-----------------------------------------------------------------------------
(* Staging, all of it on what is in the grid *)

Edits(f) == screen' = [screen EXCEPT !.edits = f]

\* stage_edit, stage_delete: what was staged before keeps its guard.
Stage(d) ==
    /\ Editable
    /\ Edits([screen.edits EXCEPT ![d] =
                IF @ = Unstaged
                  THEN [from |-> screen.query, state |-> "pending", expect |-> screen.profile]
                  ELSE [@ EXCEPT !.state = "pending"]])
    /\ UNCHANGED <<frontVars, runVars, editVars>>

\* unstage, discard_row, discard_by_id.
Unstage(d) ==
    /\ screen.edits[d] # Unstaged
    /\ Edits([screen.edits EXCEPT ![d] = Unstaged])
    /\ UNCHANGED <<frontVars, runVars, editVars>>

DiscardAll ==
    /\ StagedDocs(screen.edits) # {}
    /\ Edits(NoEdits)
    /\ UNCHANGED <<frontVars, runVars, editVars>>

\* commit_staged_edits: what is pending, and where, is kept while the user confirms.
CommitStagedEdits ==
    /\ ~committing /\ Editable /\ Cardinality(commits) < MaxOpen
    /\ StagedDocs(Pending(screen.edits)) # {}
    /\ commits' = commits \cup {[docs |-> Pending(screen.edits), to |-> screen.profile,
                                 at |-> "confirm"]}
    /\ UNCHANGED <<frontVars, screen, runVars, committing, reread, review>>

\* The user does not confirm, or the ceremony is not granted.
DeclineCommit(b) ==
    /\ b.at # "sent"
    /\ commits' = commits \ {b}
    /\ UNCHANGED <<frontVars, screen, runVars, committing, reread, review>>

SendMutations(b) ==
    /\ b.at # "sent"
    /\ commits' = (commits \ {b}) \cup {[b EXCEPT !.at = "sent"]}
    /\ committing' = TRUE
    /\ UNCHANGED <<frontVars, screen, runVars, reread, review>>

\* finish_commit: a report, or a refusal that a ceremony may clear, or an error.
FinishCommit(b) ==
    /\ b.at = "sent" /\ committing' = FALSE
    /\ \/ /\ commits' = commits \ {b}
          /\ \E s \in [StagedDocs(b.docs) \cap StagedDocs(screen.edits) ->
                          {"applied", "conflicted", "failed"}] :
                Edits([d \in Documents |-> IF d \in DOMAIN s
                                             THEN [screen.edits[d] EXCEPT !.state = s[d]]
                                             ELSE screen.edits[d]])
       \/ commits' = (commits \ {b}) \cup {[b EXCEPT !.at = "refused"]} /\ UNCHANGED screen
       \/ commits' = commits \ {b} /\ UNCHANGED screen
    /\ UNCHANGED <<frontVars, runVars, reread, review>>

\* review_conflicts: one re-read at a time.
ReviewConflicts ==
    /\ ~committing /\ reread.docs = {} /\ Editable
    /\ Conflicted(screen.edits) # {}
    /\ reread' = [docs |-> Conflicted(screen.edits), from |-> screen.profile]
    /\ UNCHANGED <<frontVars, screen, runVars, commits, committing, review>>

\* finish_reread: the review is of the documents resolved about, those the server gave a
\* version of.
FinishReread ==
    /\ reread.docs # {} /\ reread' = [docs |-> {}, from |-> Nobody]
    /\ \/ /\ Editable
          /\ \E found \in SUBSET reread.docs :
                review' = [d \in Documents |-> IF d \in found THEN reread.from ELSE Nobody]
       \/ UNCHANGED review
    /\ UNCHANGED <<frontVars, screen, runVars, commits, committing>>

\* resolve_conflict, to apply the edit again; to discard it is Unstage.
Rebase(d) ==
    /\ review[d] # Nobody /\ review' = [review EXCEPT ![d] = Nobody]
    /\ \/ /\ screen.edits[d] # Unstaged
          /\ Edits([screen.edits EXCEPT ![d].expect = review[d], ![d].state = "pending"])
       \/ screen.edits[d] = Unstaged /\ UNCHANGED screen
    /\ UNCHANGED <<frontVars, runVars, commits, committing, reread>>

RunNext == (\E to \in Profiled : RunOn(to)) \/ Rerun \/ Evaluated \/ Ceremony

FrontNext ==
    \E t \in Names, c \in Profiled :
        SetActiveTab(t, c) \/ \E closed \in Tabs : CloseTab(closed, t, c)

EditNext ==
    \/ \E d \in Documents : Stage(d) \/ Unstage(d) \/ Rebase(d)
    \/ DiscardAll \/ CommitStagedEdits \/ ReviewConflicts \/ FinishReread
    \/ \E b \in commits : DeclineCommit(b) \/ SendMutations(b) \/ FinishCommit(b)

TabsNext == RunNext \/ FrontNext \/ EditNext

TabsSpec == TabsInit /\ [][TabsNext]_tabsVars
-----------------------------------------------------------------------------
Results == [query : Queries \cup {0}, profile : Profiled, base : 0 .. MaxAsked,
            editing : BOOLEAN, edits : [Documents -> Staged \cup {Unstaged}]]

TabsTypeOK ==
    /\ activeTab \in Names /\ activeConnection \in Profiled /\ resultTab \in Names
    /\ screen \in Results /\ results \in [Tabs -> Results]
    /\ runProfile \in Profiled /\ gating \in BOOLEAN /\ ceremonies \in 0 .. MaxOpen
    /\ commits \subseteq [docs : [Documents -> Staged \cup {Unstaged}], to : Connections,
                          at : {"confirm", "sent", "refused"}]
    /\ committing \in BOOLEAN
    /\ reread \in [docs : SUBSET Documents, from : Profiled]
    /\ review \in [Documents -> Profiled]
    /\ resolved \in Seq(Profiled)
    /\ ran \in Seq([tab : Names, to : Connections, base : 0 .. MaxAsked])

\* A result belongs to the tab that ran it and to the connection it ran on (mod.rs:88):
\* it is in the grid only while both are in front, it is parked nowhere but under its
\* tab, and no query is in two places.
TabKeepsItsOwn ==
    LET ranAs(r, t) == ran[r.query].tab = t /\ ran[r.query].to = r.profile
    IN  /\ screen.query # 0 =>
              /\ ranAs(screen, resultTab)
              /\ resultTab # Nobody => resultTab = activeTab /\ screen.profile = activeConnection
              /\ screen.editing => screen.profile \in Writable
        /\ \A t \in Tabs : results[t].query # 0 =>
              /\ ranAs(results[t], t)
              /\ results[t].query # screen.query

\* An edit stays with the result it was typed into, through any change of tabs, and a
\* batch goes to the connection its documents were read from.
EditsGoHome ==
    /\ \A r \in {screen} \cup {results[t] : t \in Tabs} :
          \A d \in StagedDocs(r.edits) : r.edits[d].from = r.query
    /\ \A b \in commits :
          \A d \in StagedDocs(b.docs) : ran[b.docs[d].from].to = b.to

\* What the grid shows and what is written from it are the tab's own.
TabsAreHonest == TabKeepsItsOwn /\ EditsGoHome

\* A statement runs on the profile it resolved to (window.rs:952, 1328), whatever
\* happens between.
StatementRunsWhereItResolved ==
    \A q \in DOMAIN ran : ran[q].base # 0 => ran[q].to = resolved[ran[q].base]
=============================================================================
