-------------------------- MODULE DesktopActivation --------------------------
(***************************************************************************)
(* The per-user installer of the desktop app                               *)
(* (tongs/desktop/installer/activation.py, menu.py, commands.py).  Its     *)
(* commands take one exclusive file lock, so one command runs at a time,   *)
(* but each changes four things on disk with no common transaction: the    *)
(* version directories, the menu entry, the state document and the journal *)
(* of an activation.  A command may be killed between any two of these     *)
(* steps, and a step may fail before or after its effect (an fsync that    *)
(* fails after the replace).  The kernel drops the lock of a killed        *)
(* command, and the next command finds whatever is on disk.                *)
(*                                                                         *)
(* A payload stands for one version directory; its name holds a random     *)
(* stage token, so a new one is a payload nothing on disk names.  A menu   *)
(* entry is determined by the console script of an environment and the     *)
(* icon inside a payload: the pair of them, and its digest is itself.      *)
(***************************************************************************)
EXTENDS Naturals

CONSTANTS Payload,        \* the version directories there is room for
          Env,            \* the persistent Python environments of the user
          None,           \* no target, entry or journal
          Foreign,        \* a menu entry of another installation or the user
          MaxGeneration   \* bound: no command starts in a later generation

VARIABLES disk,       \* of each payload: see Condition
          state,      \* the state document; generation 0 when there is none
          journal,    \* the activation journal, or None
          menu,       \* the menu entry on disk, or None
          cmd,        \* the command that holds the lock
          fallback,   \* the environment of a repair about to re-download
          result,     \* how the last command ended
          edited      \* somebody else changed the menu entry since the last command began

vars == <<disk, state, journal, menu, cmd, fallback, result, edited>>

Entry == Env \X Payload
Target == [payload : Payload, env : Env]
\* What the documents on disk hold.
Document == [generation : Nat, active : Target \cup {None}, previous : Payload \cup {None},
             menu : Entry \cup {None}, cleanup : SUBSET Payload,
             recovery : {"none", "healthy", "cleanup", "uninstalled"}]
Journal == [expected : Nat, target : Target, prior : Entry \cup {None}]

ASSUME ActivationAssumption ==
  /\ None \notin Payload \cup Env \cup Entry \cup Target \cup Journal
  /\ Foreign \notin Entry \cup {None}
  /\ MaxGeneration \in Nat \ {0}

\* A stage is not yet a version directory; somebody else changes a whole payload.
Condition == {"absent", "staged", "complete", "partial", "changed"}
Outcome == {"done", "failed", "failed late"}

NoState == [generation |-> 0, active |-> None, previous |-> None,
            menu |-> None, recovery |-> "none", cleanup |-> {}]
Idle == [op |-> "none", at |-> "idle", target |-> None, drop |-> None]
NoResult == [op |-> "none", ok |-> FALSE, target |-> None]

EntryOf(target) == <<target.env, target.payload>>

ActivePayload == IF state.active = None THEN None ELSE state.active.payload
\* The payloads the state document names.
Referenced == {p \in Payload : \/ p = ActivePayload \/ p = state.previous
                               \/ p \in state.cleanup}
Known == Referenced \cup {p \in Payload : journal # None /\ journal.target.payload = p}

Init == /\ disk = [p \in Payload |-> "absent"]
        /\ state = NoState /\ journal = None
        /\ menu \in {None, Foreign}
        /\ cmd = Idle /\ fallback = None /\ result = NoResult
        /\ edited = FALSE

(***************************************************************************)
(* How a command goes on and ends.                                         *)
(***************************************************************************)
At(op, step) == cmd.at = step /\ cmd.op \in op
Goto(step) == cmd' = [cmd EXCEPT !.at = step, !.drop = None]
              /\ UNCHANGED <<fallback, result, edited>>

Succeed == /\ cmd' = Idle
           /\ result' = [op |-> cmd.op, ok |-> TRUE, target |-> cmd.target]
           /\ UNCHANGED <<fallback, edited>>

\* The command raises.  A repair that was asked to re-download goes on in a second
\* transaction, also when the error came from the recovery it starts with.  (One such
\* repair at a time is remembered.)
Raise == /\ cmd' = Idle
         /\ result' = [op |-> cmd.op, ok |-> FALSE, target |-> cmd.target]
         /\ \/ fallback' = fallback
            \/ cmd.op \in {"repair", "recover"} /\ fallback' = cmd.target.env
         /\ UNCHANGED edited

\* One step on disk with an effect: done and on to the next, or an error
\* before or after the effect that ends the command.
Or(o, step) == IF o = "done" THEN Goto(step) ELSE Raise

(***************************************************************************)
(* The documents, the menu entry and the version directories.              *)
(***************************************************************************)
WriteState(next, o) ==
  state' = IF o = "failed" THEN state
           ELSE [next EXCEPT !.generation = state.generation + 1]

RemoveJournal(o) == journal' = IF o = "failed" THEN journal ELSE None

\* install_user_menu never replaces content other than the digest it is given.
MayInstall(entry, replace) == menu \in {None, entry, replace}

\* rmtree may stop half way; a directory that is already gone is no error.
RemovePayload(p, o) ==
  \/ o # "failed" /\ disk' = [disk EXCEPT ![p] = "absent"]
  \/ o = "failed" /\ disk' = disk
  \/ o = "failed" /\ disk[p] \in {"complete", "partial", "changed"}
     /\ disk' = [disk EXCEPT ![p] = "partial"]

Swept == [p \in Payload |-> IF disk[p] = "staged" THEN "absent" ELSE disk[p]]

\* The versions before the previous one go (_cleanup_targets, _unique_targets).
Published(target) ==
  LET old == (state.cleanup \cup {state.previous}) \ {None, target.payload, ActivePayload}
  IN [state EXCEPT !.active = target, !.previous = ActivePayload,
                   !.menu = EntryOf(target), !.cleanup = old,
                   !.recovery = IF old = {} THEN "healthy" ELSE "cleanup"]

(***************************************************************************)
(* install, update and the second half of repair --redownload: stage a     *)
(* verified release, then activate_staged_artifact.                        *)
(***************************************************************************)
\* Every command first sweeps the stages a killed one left behind.
Begin(op, step, env) ==
  /\ cmd = Idle /\ state.generation < MaxGeneration
  /\ disk' = Swept
  /\ cmd' = [op |-> op, at |-> step, target |-> [payload |-> None, env |-> env],
             drop |-> None]
  /\ result' = NoResult /\ edited' = FALSE
  /\ UNCHANGED <<state, journal, menu>>

\* require_activation_environment.
MayActivateFrom(env) ==
  state.cleanup = {} /\ (state.active # None => state.active.env = env)

BeginInstall(env) == /\ MayActivateFrom(env)
                     /\ Begin("install", "stage", env) /\ UNCHANGED fallback

BeginRedownload(env) == /\ fallback = env /\ MayActivateFrom(env)
                        /\ Begin("redownload", "discard", env) /\ fallback' = None

Activating == {"install", "redownload"}

\* A mutant: does not ask whether the state refers to the candidate.
DiscardCandidateUnchecked ==
  /\ At({"redownload"}, "discard")
  /\ \/ journal = None /\ disk' = disk /\ Goto("stage")
     \/ /\ journal # None
        /\ \E o \in Outcome : RemovePayload(journal.target.payload, o)
                              /\ Or(o, "forget")
  /\ UNCHANGED <<state, journal, menu>>

\* discard_interrupted_activation gives up a candidate nothing refers to.
DiscardCandidate ==
  /\ At({"redownload"}, "discard")
  /\ \/ journal = None /\ disk' = disk /\ Goto("stage")
     \/ /\ journal # None /\ journal.target.payload \in Referenced
        /\ disk' = disk /\ Raise
     \/ /\ journal # None /\ journal.target.payload \notin Referenced
        /\ \E o \in Outcome : RemovePayload(journal.target.payload, o)
                              /\ Or(o, "forget")
  /\ UNCHANGED <<state, journal, menu>>

ForgetCandidate ==
  /\ At({"redownload"}, "forget")
  /\ \E o \in Outcome : RemoveJournal(o) /\ Or(o, "stage")
  /\ UNCHANGED <<disk, state, menu>>

StageRelease ==
  /\ At(Activating, "stage")
  /\ \/ \E p \in Payload \ Known :
          /\ disk[p] = "absent" /\ menu \notin Env \X {p}
          /\ disk' = [disk EXCEPT ![p] = "staged"]
          /\ cmd' = [cmd EXCEPT !.at = "journal", !.target.payload = p]
          /\ UNCHANGED <<fallback, result, edited>>
     \/ disk' = disk /\ Raise
  /\ UNCHANGED <<state, journal, menu>>

\* A journal that is already there is left for repair.
WriteJournal ==
  /\ At(Activating, "journal")
  /\ \E o \in Outcome :
       /\ journal' = IF journal # None \/ o = "failed" THEN journal
                     ELSE [expected |-> state.generation, target |-> cmd.target,
                           prior |-> state.menu]
       /\ IF journal = None /\ o = "done"
          THEN disk' = disk /\ Goto("rename")
          ELSE disk' = [disk EXCEPT ![cmd.target.payload] = "absent"] /\ Raise
  /\ UNCHANGED <<state, menu>>

\* A mutant: takes its journal back after any error.
RenameForgetsJournal ==
  LET p == cmd.target.payload
  IN /\ At(Activating, "rename")
     /\ \E o \in Outcome :
          /\ disk' = [disk EXCEPT ![p] = IF o = "failed" THEN "absent" ELSE "complete"]
          /\ journal' \in IF o # "done" THEN {journal, None} ELSE {journal}
          /\ Or(o, "menu")
     /\ UNCHANGED <<state, menu>>

\* A rename that is known to have failed takes its journal back, if it can.
RenamePayload ==
  LET p == cmd.target.payload
  IN /\ At(Activating, "rename")
     /\ \E o \in Outcome :
          /\ disk' = [disk EXCEPT ![p] = IF o = "failed" THEN "absent" ELSE "complete"]
          /\ journal' \in IF o = "failed" THEN {journal, None} ELSE {journal}
          /\ Or(o, "menu")
     /\ UNCHANGED <<state, menu>>

\* _restore_previous_menu puts back what the current state recorded, if it can;
\* entry is the candidate it may replace and shown what is on disk by then.
Restored(entry, shown) ==
  IF state.active = None
  THEN {shown} \cup (IF shown = entry THEN {None} ELSE {})
  ELSE {shown} \cup (IF shown \in {None, entry} THEN {state.menu} ELSE {})

InstallCandidateMenu ==
  LET e == EntryOf(cmd.target)
  IN /\ At(Activating, "menu")
     /\ \/ MayInstall(e, state.menu) /\ menu' = e /\ Goto("publish")
        \/ \E shown \in {menu} \cup (IF MayInstall(e, state.menu) THEN {e} ELSE {}) :
             menu' \in Restored(e, shown) /\ Raise
     /\ UNCHANGED <<disk, state, journal>>

PublishCandidate ==
  /\ At(Activating, "publish")
  /\ \E o \in Outcome :
       /\ WriteState(Published(cmd.target), o)
       /\ IF o = "done" THEN menu' = menu ELSE menu' \in Restored(EntryOf(cmd.target), menu)
       /\ Or(o, "unjournal")
  /\ UNCHANGED <<disk, journal>>

\* Published already: a journal that cannot be removed is left.
CloseJournal == /\ At(Activating, "unjournal")
                /\ journal' \in {journal, None} /\ Goto("drain")
                /\ UNCHANGED <<disk, state, menu>>
(***************************************************************************)
(* _drain_cleanup and _complete_cleanup: one payload and one generation at *)
(* a time, then the final state.  The cleanup of the state document is a   *)
(* list that is worked off from its head; which of them is next makes no   *)
(* difference here, so it is a set.                                        *)
(***************************************************************************)
Draining == \/ At({"install", "redownload", "recover", "uninstall"}, "drain")
            \/ At({"repair"}, "check") /\ state.active # None

DrainOne ==
  /\ Draining
  /\ \E p \in state.cleanup, o \in Outcome :
       /\ RemovePayload(p, o)
       /\ \/ /\ o = "done" /\ cmd' = [cmd EXCEPT !.at = "drop", !.drop = p]
             /\ UNCHANGED <<fallback, result, edited>>
          \/ o # "done" /\ Raise
  /\ UNCHANGED <<state, journal, menu>>

DropOne ==
  /\ cmd.at = "drop"
  /\ \E o \in Outcome :
       /\ WriteState([state EXCEPT !.cleanup = @ \ {cmd.drop}], o)
       /\ Or(o, IF cmd.op = "repair" THEN "check" ELSE "drain")
  /\ UNCHANGED <<disk, journal, menu>>

\* A mutant: an update leaves its cleanup mark.
FinalKeepsMark == IF cmd.op = "uninstall"
                  THEN [state EXCEPT !.recovery = "uninstalled", !.menu = None]
                  ELSE state

Final == IF cmd.op = "uninstall"
         THEN [state EXCEPT !.recovery = "uninstalled", !.menu = None]
         ELSE [state EXCEPT !.recovery = "healthy"]

\* repair_activation goes on where its recovery ends.
Finish == IF cmd.op = "recover"
          THEN cmd' = [cmd EXCEPT !.op = "repair", !.at = "check"]
               /\ UNCHANGED <<fallback, result, edited>>
          ELSE Succeed

Settle ==
  /\ cmd.at = "drain" /\ state.cleanup = {}
  /\ \/ Final = state /\ state' = state /\ Finish
     \/ Final # state /\ \E o \in Outcome : /\ WriteState(Final, o)
                                            /\ IF o = "done" THEN Finish ELSE Raise
  /\ UNCHANGED <<disk, journal, menu>>

(***************************************************************************)
(* repair: recover_interrupted_activation, then repair_activation.         *)
(***************************************************************************)
\* A mutant: looks at the active version only.
BeginRepairUnrecovered(env) == Begin("repair", "check", env) /\ UNCHANGED fallback

BeginRepair(env) == /\ Begin(IF journal = None THEN "repair" ELSE "recover", "check", env)
                    /\ UNCHANGED fallback

\* Only a candidate that is whole is recovered, and only if its activation is
\* the one the state expects or the one it already shows.
CheckJournal ==
  /\ At({"recover"}, "check")
  /\ \/ /\ disk[journal.target.payload] = "complete"
        /\ \/ journal.expected = state.generation /\ Goto("menu")
           \/ /\ journal.expected # state.generation
              /\ state.active = journal.target /\ Goto("fix menu")
     \/ /\ \/ disk[journal.target.payload] # "complete"
           \/ journal.expected # state.generation /\ state.active # journal.target
        /\ Raise
  /\ UNCHANGED <<disk, state, journal, menu>>

\* An entry of a target, where the entry on disk may be replaced.
PutEntry(target, replace, step) ==
  /\ \/ MayInstall(EntryOf(target), replace) /\ menu' = EntryOf(target) /\ Goto(step)
     \/ /\ menu' \in {menu} \cup (IF MayInstall(EntryOf(target), replace)
                                  THEN {EntryOf(target)} ELSE {})
        /\ Raise
  /\ UNCHANGED <<disk, state, journal>>

RecoverMenu == At({"recover"}, "menu")
               /\ PutEntry(journal.target,
                           IF menu \in {state.menu, journal.prior} THEN menu ELSE None,
                           "publish")

\* _repair_journal_menu
RepairJournalMenu == At({"recover", "uninstall"}, "fix menu")
                     /\ PutEntry(journal.target,
                                 IF menu = journal.prior THEN menu ELSE state.menu,
                                 "unjournal")

PublishRecovered == /\ At({"recover"}, "publish")
                    /\ \E o \in Outcome : WriteState(Published(journal.target), o)
                                          /\ Or(o, "unjournal")
                    /\ UNCHANGED <<disk, journal, menu>>

RemoveOldJournal ==
  /\ At({"recover", "uninstall"}, "unjournal")
  /\ \E o \in Outcome : /\ RemoveJournal(o)
                        /\ Or(o, IF cmd.op = "recover" THEN "drain" ELSE "retire")
  /\ UNCHANGED <<disk, state, menu>>

CheckActive ==
  /\ At({"repair"}, "check")
  /\ \/ /\ state.active # None /\ state.cleanup = {}
        /\ IF disk[ActivePayload] = "complete" THEN Goto("menu") ELSE Raise
     \/ state.active = None /\ Raise
  /\ UNCHANGED <<disk, state, journal, menu>>

Rebound == [payload |-> ActivePayload, env |-> cmd.target.env]

RebindMenu == At({"repair"}, "menu") /\ PutEntry(Rebound, state.menu, "publish")

\* The entry is put back when the new state cannot be read after the error.
PublishRebound ==
  /\ At({"repair"}, "publish")
  /\ \E o \in Outcome :
       /\ WriteState([state EXCEPT !.active = Rebound, !.menu = EntryOf(Rebound),
                                   !.recovery = "healthy"], o)
       /\ IF o = "done" THEN menu' = menu /\ Succeed
          ELSE menu' \in Restored(EntryOf(Rebound), menu) /\ Raise
  /\ UNCHANGED <<disk, journal>>

(***************************************************************************)
(* uninstall: uninstall_user_activation.                                   *)
(***************************************************************************)
BeginUninstall == /\ Begin("uninstall", "check", None) /\ UNCHANGED fallback

\* _discard_journal_for_uninstall
CheckUninstall ==
  /\ At({"uninstall"}, "check")
  /\ \/ journal = None /\ disk' = disk /\ Goto("retire")
     \/ /\ journal # None /\ journal.target.payload = ActivePayload
        /\ disk' = disk /\ Goto("fix menu")
     \/ /\ journal # None /\ journal.target.payload # ActivePayload
        /\ \E o \in Outcome : RemovePayload(journal.target.payload, o)
                              /\ Or(o, "unjournal")
  /\ UNCHANGED <<state, journal, menu>>

Retired == [state EXCEPT
  !.active = None, !.previous = None, !.recovery = "cleanup",
  !.cleanup = (@ \cup {ActivePayload, state.previous}) \ {None}]

Retire ==
  /\ At({"uninstall"}, "retire")
  /\ \/ state.recovery \in {"none", "uninstalled"} /\ state' = state /\ Succeed
     \/ /\ state.active = None /\ state.recovery = "cleanup"
        /\ state' = state /\ Goto("remove menu")
     \/ /\ state.active # None
        /\ \E o \in Outcome : WriteState(Retired, o) /\ Or(o, "remove menu")
  /\ UNCHANGED <<disk, journal, menu>>

\* remove_user_menu removes only the exact content the state recorded.
RemoveEntry ==
  /\ At({"uninstall"}, "remove menu")
  /\ \/ menu \in {None, state.menu} /\ menu' = None /\ Goto("drain")
     \/ menu' \in (IF menu = state.menu THEN {menu, None} ELSE {menu}) /\ Raise
  /\ UNCHANGED <<disk, state, journal>>
(***************************************************************************)
(* A command killed at any point, and somebody else's changes.             *)
(***************************************************************************)
Kill == /\ cmd # Idle \/ fallback # None
        /\ cmd' = Idle /\ result' = NoResult
        /\ fallback' \in IF cmd = Idle THEN {None} ELSE {fallback}
        /\ UNCHANGED <<disk, state, journal, menu, edited>>

Tamper(p) == /\ disk[p] = "complete" /\ disk' = [disk EXCEPT ![p] = "changed"]
             /\ UNCHANGED <<state, journal, menu, cmd, fallback, result, edited>>

EditMenu == /\ menu' \in {None, Foreign} \ {menu} /\ edited' = TRUE
            /\ UNCHANGED <<disk, state, journal, cmd, fallback, result>>

Install == \/ \E env \in Env : BeginInstall(env) \/ BeginRedownload(env)
           \/ DiscardCandidate \/ ForgetCandidate \/ StageRelease \/ WriteJournal
           \/ RenamePayload \/ InstallCandidateMenu \/ PublishCandidate \/ CloseJournal

Cleanup == DrainOne \/ DropOne \/ Settle

Repair == \/ \E env \in Env : BeginRepair(env)
          \/ CheckJournal \/ RecoverMenu \/ PublishRecovered
          \/ CheckActive \/ RebindMenu \/ PublishRebound

Uninstall == BeginUninstall \/ CheckUninstall \/ Retire \/ RemoveEntry

Next == \/ Install \/ Cleanup \/ Repair \/ Uninstall
        \/ RepairJournalMenu \/ RemoveOldJournal
        \/ Kill \/ EditMenu \/ (\E p \in Payload : Tamper(p))

Spec == Init /\ [][Next]_vars

(***************************************************************************)
(* Properties.                                                             *)
(***************************************************************************)
OnDisk == {p \in Payload : disk[p] \in {"complete", "partial", "changed"}}

\* _validate_state_shape: what the next command can read at all.
WellFormed ==
  /\ {ActivePayload, state.previous} \cap state.cleanup = {}
  /\ state.active # None => ActivePayload # state.previous
  /\ IF state.active = None
     THEN /\ state.recovery \in {"none", "uninstalled", "cleanup"} /\ state.previous = None
          /\ IF state.recovery = "cleanup" THEN state.cleanup # {} \/ state.menu # None
             ELSE state.cleanup = {} /\ state.menu = None
     ELSE /\ state.recovery \in {"healthy", "cleanup"}
          /\ state.menu = EntryOf(state.active)
          /\ state.cleanup # {} => state.recovery = "cleanup"

\* Every document on disk is one the decoder accepts: no sequence of commands,
\* errors and kills leaves a state that stops the next command from reading it.
TypeOK ==
  /\ disk \in [Payload -> Condition]
  /\ state \in Document /\ WellFormed
  /\ state.generation = 0 <=> state = NoState
  /\ journal \in Journal \cup {None}
  /\ menu \in Entry \cup {None, Foreign}
  /\ fallback \in Env \cup {None} /\ edited \in BOOLEAN

\* No version directory is lost track of: whatever a killed or failed command
\* left under versions is named by the state or by the journal, the only things
\* recovery and cleanup look at.
NothingOrphaned == OnDisk \subseteq Known

\* A journal never outlives the activation it describes: either the state is
\* still the one it expects or the state already shows its target, so recovery
\* never ends in "no longer matches current state".
JournalIsCurrent ==
  journal # None => \/ journal.expected = state.generation
                    \/ state.active = journal.target

\* What reports success has delivered.  After an install or a repair the version it
\* reports is active and whole, with its entry in the menu and nothing left to clean
\* up; after an uninstall there is no version directory, no journal and nothing to
\* recover.
Delivers ==
  result.ok =>
    IF result.op = "uninstall"
    THEN OnDisk = {} /\ journal = None /\ state.recovery \in {"none", "uninstalled"}
    ELSE /\ state.active # None /\ state.active.env = result.target.env
         /\ result.op = "repair" \/ state.active = result.target
         /\ state.recovery = "healthy" /\ state.cleanup = {}
         /\ result.op = "repair" => journal = None
         /\ disk[ActivePayload] \in {"complete", "changed"}
         /\ menu = state.menu \/ edited

whole == {p \in Payload : disk[p] = "complete"}
spoiled == {p \in Payload : disk[p] = "changed"}

Pointer == INSTANCE ActivationPointer WITH active <- ActivePayload, whole <- whole,
                                           spoiled <- spoiled

\* What a launch sees implements the pointer it is promised.
ImplementsPointer == Pointer!Spec
===============================================================================
