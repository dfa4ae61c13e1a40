----------------------- MODULE DesktopActivationProofs -----------------------
(***************************************************************************)
(* Theorems about DesktopActivation, for any number of version             *)
(* directories and environments, any length of history and a kill or an    *)
(* error between any two steps: the documents stay readable, nothing on    *)
(* disk is lost track of, a journal never outlives its activation, a       *)
(* reported success has delivered, and what a launch sees implements       *)
(* ActivationPointer.                                                      *)
(*                                                                         *)
(* The inductive invariant Inv has three parts.  Books is about the        *)
(* documents alone and holds whichever step a kill comes after.  Course    *)
(* says, for each command, what its earlier checks and effects guarantee   *)
(* at the step it has reached; nobody else writes the documents while it   *)
(* holds the lock, which is why it still holds there.  Delivered is about  *)
(* the report of the last command.                                         *)
(***************************************************************************)
EXTENDS DesktopActivation, TLAPS

\* A version directory as an activation left it, or as somebody else changed it.
Live(p) == disk[p] \in {"complete", "changed"}

\* A journal that waits for its activation names a payload the state does not
\* know, and nothing is being cleaned up; any other is of the active target.
JournalOK ==
  journal # None =>
    /\ journal.expected <= state.generation
    /\ IF journal.expected = state.generation
       THEN journal.target.payload \notin Referenced /\ state.cleanup = {}
       ELSE state.active = journal.target

\* A retired installation still records its menu entry until that is removed.
MarkOK == state.active = None /\ state.recovery = "cleanup" => state.menu # None

Books == TypeOK /\ NothingOrphaned /\ JournalOK /\ MarkOK

(***************************************************************************)
(* What a command may rely on at the step it has reached.                  *)
(***************************************************************************)
Preparing == {"discard", "forget", "stage", "journal", "rename", "menu", "publish"}
Finishing == {"unjournal", "drain", "drop"}

CmdRow == [op : {"none", "install", "redownload", "repair", "recover", "uninstall"},
           at : {"idle", "check", "fix menu", "retire", "remove menu"}
                \cup Preparing \cup Finishing,
           target : [payload : Payload \cup {None}, env : Env \cup {None}] \cup {None},
           drop : Payload \cup {None}]

\* Which steps belong to which command, and with which target.
OnCourse ==
  /\ cmd \in CmdRow
  /\ \/ cmd = Idle
     \/ /\ cmd.op \in Activating /\ cmd.at \in Preparing \cup Finishing
        /\ cmd.at \in {"discard", "forget"} => cmd.op = "redownload"
        /\ cmd.target \in [payload : Payload \cup {None}, env : Env]
        /\ cmd.at \notin {"discard", "forget", "stage"} => cmd.target \in Target
     \/ /\ cmd.op = "recover" /\ cmd.target \in [payload : {None}, env : Env]
        /\ cmd.at \in {"check", "menu", "fix menu", "publish"} \cup Finishing
     \/ /\ cmd.op = "repair" /\ cmd.target \in [payload : {None}, env : Env]
        /\ cmd.at \in {"check", "menu", "publish", "drop"}
     \/ /\ cmd.op = "uninstall"
        /\ cmd.at \in {"check", "fix menu", "retire", "remove menu"} \cup Finishing
  /\ cmd.at = "drop" => cmd.drop \in state.cleanup /\ disk[cmd.drop] = "absent"

ActivationOK ==
  cmd.op \in Activating =>
    LET p == cmd.target.payload
    IN  /\ cmd.at \in Preparing => state.cleanup = {}
        /\ cmd.at = "forget" => /\ journal # None
                                /\ disk[journal.target.payload] = "absent"
        /\ cmd.at = "journal" => disk[p] = "staged" /\ p \notin Known
        /\ cmd.at \in {"rename", "menu", "publish"} =>
             /\ journal # None
             /\ journal.target = cmd.target /\ journal.expected = state.generation
        /\ cmd.at = "rename" => disk[p] = "staged"
        /\ cmd.at \in {"menu", "publish"} => Live(p)
        /\ cmd.at = "publish" => menu = EntryOf(cmd.target) \/ edited
        /\ cmd.at \in Finishing =>
             /\ state.active = cmd.target /\ Live(p)
             /\ menu = state.menu \/ edited
             /\ journal = None \/ journal.target = state.active

RecoveryOK ==
  cmd.op = "recover" =>
    /\ cmd.at \in {"check", "menu", "fix menu", "publish", "unjournal"} => journal # None
    /\ cmd.at \in {"menu", "publish"} =>
         journal.expected = state.generation /\ Live(journal.target.payload)
    /\ cmd.at \in {"fix menu", "unjournal"} => state.active = journal.target
    /\ cmd.at \in {"drain", "drop"} => journal = None /\ state.active # None

RepairOK ==
  cmd.op = "repair" =>
    /\ journal = None
    /\ cmd.at \in {"menu", "publish", "drop"} => state.active # None
    /\ cmd.at \in {"menu", "publish"} => state.cleanup = {} /\ Live(ActivePayload)
    /\ cmd.at = "publish" => menu = EntryOf(Rebound) \/ edited

UninstallOK ==
  cmd.op = "uninstall" =>
    /\ cmd.at = "fix menu" => journal # None /\ journal.target.payload = ActivePayload
    /\ cmd.at = "unjournal" => /\ journal # None
                               /\ \/ journal.target.payload = ActivePayload
                                  \/ disk[journal.target.payload] = "absent"
    /\ cmd.at \in {"retire", "remove menu", "drain", "drop"} => journal = None
    /\ cmd.at \in {"remove menu", "drain", "drop"} =>
         state.active = None /\ state.recovery = "cleanup"

Course == OnCourse /\ ActivationOK /\ RecoveryOK /\ RepairOK /\ UninstallOK

\* A report of success stands until the next command takes the lock.
Delivered == result.ok \in BOOLEAN /\ (result.ok => cmd = Idle) /\ Delivers

Inv == Books /\ Course /\ Delivered

(***************************************************************************)
(* What a step does to the three parts.                                    *)
(***************************************************************************)
\* What is not a document: the menu entry and what a command keeps in memory.
SidesOK == /\ menu \in Entry \cup {None, Foreign}
           /\ fallback \in Env \cup {None} /\ edited \in BOOLEAN

\* Nothing new on disk, the state untouched, and a journal only forgotten when
\* its payload is known anyhow or gone.
LEMMA BooksKept ==
  ASSUME Books, state' = state, journal' \in {journal, None}, SidesOK',
         disk' \in [Payload -> Condition], OnDisk' \subseteq OnDisk,
         journal' # journal => \/ journal.target.payload \in Referenced
                               \/ journal.target.payload \notin OnDisk'
  PROVE Books'
<1>1. Referenced' = Referenced
  BY DEF Referenced, ActivePayload
<1>2. Known \subseteq Referenced \cup {journal.target.payload}
  BY DEF Known
<1>3. TypeOK'
  BY DEF Books, TypeOK, SidesOK, WellFormed, ActivePayload
<1>4. NothingOrphaned'
  <2>1. CASE journal' = journal
    BY <1>1, <2>1 DEF Books, NothingOrphaned, Known
  <2>2. CASE journal' # journal
    BY <1>1, <1>2, <2>2 DEF Books, NothingOrphaned, Known
  <2>q. QED BY <2>1, <2>2
<1>5. JournalOK'
  BY <1>1 DEF Books, JournalOK
<1>6. MarkOK'
  BY DEF Books, MarkOK
<1>q. QED BY <1>3, <1>4, <1>5, <1>6 DEF Books

\* A new state document that still names all that is on disk, and the target of
\* a journal as its active one.
LEMMA BooksWritten ==
  ASSUME Books, disk' = disk, journal' = journal, SidesOK',
         state' \in Document, state'.generation = state.generation + 1,
         WellFormed', MarkOK',
         Known \subseteq Known' \cup {p \in Payload : disk[p] = "absent"},
         journal # None => state'.active = journal.target
  PROVE Books'
<1>1. TypeOK'
  <2>1. state.generation \in Nat
    BY DEF Books, TypeOK, Document
  <2>2. state'.generation # 0 /\ NoState.generation = 0
    BY <2>1 DEF NoState
  <2>3. state' # NoState'
    BY <2>2 DEF NoState
  <2>q. QED BY <2>2, <2>3 DEF Books, TypeOK, SidesOK
<1>2. NothingOrphaned'
  BY DEF Books, NothingOrphaned, OnDisk
<1>3. JournalOK'
  <2>1. state.generation \in Nat /\ (journal # None => journal.expected \in Nat)
    BY DEF Books, TypeOK, Document, Journal
  <2>q. QED BY <2>1 DEF Books, JournalOK
<1>q. QED BY <1>1, <1>2, <1>3 DEF Books

\* A command that ended without a report of success.
LEMMA Ended ==
  ASSUME Books', cmd' = Idle, result'.ok = FALSE
  PROVE Inv'
<1>1. Course'
  BY DEF Course, OnCourse, ActivationOK, RecoveryOK, RepairOK, UninstallOK, Activating,
         Idle, CmdRow
<1>2. Delivered'
  BY DEF Delivered, Delivers
<1>q. QED BY <1>1, <1>2 DEF Inv

\* A command that goes on reports nothing.
LEMMA GoesOn ==
  ASSUME Inv, cmd # Idle, Books', Course', result' = result
  PROVE Inv'
<1>1. ~result.ok
  BY DEF Inv, Delivered
<1>2. Delivered'
  BY <1>1 DEF Delivered, Delivers, Inv
<1>q. QED BY <1>2 DEF Inv

\* An error leaves an environment to re-download from, or what was there.
LEMMA RaiseEnds ==
  ASSUME Inv, cmd # Idle, Raise
  PROVE cmd' = Idle /\ result'.ok = FALSE /\ fallback' \in Env \cup {None} /\ edited' = edited
<1>1. cmd.op \in {"repair", "recover"} => cmd.target.env \in Env
  BY DEF Inv, Course, OnCourse, Activating, Target, Idle
<1>q. QED BY <1>1 DEF Raise, Inv, Books, TypeOK

\* What holds of the first states.
LEMMA InitInv == Init => Inv
<1> SUFFICES ASSUME Init PROVE Inv
  OBVIOUS
<1>1. TypeOK
  BY ActivationAssumption DEF Init, TypeOK, NoState, Document, WellFormed, Condition,
     ActivePayload
<1>2. Books
  BY <1>1 DEF Init, Books, NothingOrphaned, OnDisk, JournalOK, MarkOK, NoState
<1>3. Course
  BY DEF Init, Course, OnCourse, ActivationOK, RecoveryOK, RepairOK, UninstallOK,
     Activating, Idle, CmdRow
<1>4. Delivered
  BY DEF Init, Delivered, Delivers, NoResult
<1>q. QED BY <1>2, <1>3, <1>4 DEF Inv

(***************************************************************************)
(* The start of a command, its death, and somebody else's changes.         *)
(***************************************************************************)
\* A command that takes the lock sweeps stages only.
LEMMA BooksBegun ==
  ASSUME Inv, disk' = Swept, UNCHANGED <<state, journal, menu>>, edited' = FALSE,
         fallback' \in Env \cup {None}
  PROVE Books'
<1>1. disk' \in [Payload -> Condition] /\ OnDisk' \subseteq OnDisk
  BY DEF Inv, Books, TypeOK, Swept, Condition, OnDisk
<1>2. SidesOK'
  BY DEF SidesOK, Inv, Books, TypeOK
<1>q. QED BY <1>1, <1>2, BooksKept DEF Inv

\* A command that has just taken the lock reports nothing.
LEMMA Began ==
  ASSUME Books', Course', result' = NoResult
  PROVE Inv'
BY DEF Inv, Delivered, Delivers, NoResult

\* An install or update starts with nothing to clean up.
LEMMA BeginInstallInv ==
  ASSUME Inv, NEW env \in Env, BeginInstall(env)
  PROVE Inv'
<1>1. Books'
  BY BooksBegun DEF BeginInstall, Begin, Inv, Books, TypeOK
<1>2. Course'
  BY DEF BeginInstall, Begin, MayActivateFrom, Course, OnCourse, ActivationOK, RecoveryOK,
         RepairOK, UninstallOK, Activating, Preparing, Finishing, CmdRow
<1>q. QED BY <1>1, <1>2, Began DEF BeginInstall, Begin

\* So does the second half of a repair, which may find a journal.
LEMMA BeginRedownloadInv ==
  ASSUME Inv, NEW env \in Env, BeginRedownload(env)
  PROVE Inv'
<1>1. Books'
  BY BooksBegun DEF BeginRedownload, Begin
<1>2. Course'
  BY DEF BeginRedownload, Begin, MayActivateFrom, Course, OnCourse, ActivationOK,
         RecoveryOK, RepairOK, UninstallOK, Activating, Preparing, Finishing, CmdRow
<1>q. QED BY <1>1, <1>2, Began DEF BeginRedownload, Begin

\* A repair with a journal recovers first.
LEMMA BeginRepairInv ==
  ASSUME Inv, NEW env \in Env, BeginRepair(env)
  PROVE Inv'
<1>1. Books'
  BY BooksBegun DEF BeginRepair, Begin, Inv, Books, TypeOK
<1>2. Course'
  BY DEF BeginRepair, Begin, Course, OnCourse, ActivationOK, RecoveryOK, RepairOK,
         UninstallOK, Activating, Preparing, Finishing, CmdRow
<1>q. QED BY <1>1, <1>2, Began DEF BeginRepair, Begin

\* An uninstall starts from whatever is there.
LEMMA BeginUninstallInv ==
  ASSUME Inv, BeginUninstall
  PROVE Inv'
<1>1. Books'
  BY BooksBegun DEF BeginUninstall, Begin, Inv, Books, TypeOK
<1>2. Course'
  BY DEF BeginUninstall, Begin, Course, OnCourse, ActivationOK, RecoveryOK, RepairOK,
         UninstallOK, Activating, Preparing, Finishing, CmdRow
<1>q. QED BY <1>1, <1>2, Began DEF BeginUninstall, Begin

\* A kill leaves the documents of the step it came after.
LEMMA KillInv ==
  ASSUME Inv, Kill
  PROVE Inv'
<1>1. Books'
  BY BooksKept DEF Kill, Inv, Books, TypeOK, SidesOK, OnDisk
<1>q. QED BY <1>1, Ended DEF Kill, NoResult

\* A payload somebody else changed is still there, for whoever relies on it.
LEMMA TamperInv ==
  ASSUME Inv, NEW p \in Payload, Tamper(p)
  PROVE Inv'
<1>1. /\ disk' = [disk EXCEPT ![p] = "changed"] /\ disk[p] = "complete"
      /\ disk' \in [Payload -> Condition] /\ disk \in [Payload -> Condition]
  BY DEF Tamper, Inv, Books, TypeOK, Condition
<1>2. \A q \in Payload : /\ q # p => disk'[q] = disk[q]
                         /\ q = p => disk'[q] = "changed" /\ disk[q] = "complete"
  BY <1>1
<1>3. OnDisk' = OnDisk
  BY <1>2 DEF OnDisk
<1>4. Books'
  BY <1>1, <1>3, BooksKept DEF Tamper, Inv, Books, TypeOK, SidesOK
<1>5. UNCHANGED <<state, journal, menu, cmd, result, edited>>
  BY DEF Tamper
<1>6. ActivePayload' = ActivePayload /\ Known' = Known /\ Rebound' = Rebound
  BY <1>5 DEF ActivePayload, Known, Referenced, Rebound
<1>7. \A q \in Payload : /\ Live(q) => Live(q)'
                         /\ disk[q] \in {"staged", "absent"} => disk'[q] = disk[q]
  BY <1>2 DEF Live
<1>8. /\ journal # None => journal.target.payload \in Payload
      /\ state.active # None => ActivePayload \in Payload
      /\ state.cleanup \subseteq Payload
  BY DEF Inv, Books, TypeOK, Journal, Document, Target, ActivePayload
<1>9. Course'
  <2>1. OnCourse'
    BY <1>5, <1>7, <1>8 DEF Inv, Course, OnCourse
  <2>2. cmd.op \in Activating /\ cmd.at \notin {"discard", "forget", "stage"}
        => cmd.target.payload \in Payload
    <3>1. Idle.op = "none"
      BY DEF Idle
    <3>q. QED BY <3>1 DEF Inv, Course, OnCourse, Target, Activating
  <2>3. ActivationOK'
    BY <1>5, <1>6, <1>7, <1>8, <2>2 DEF Inv, Course, ActivationOK, Finishing
  <2>4. RecoveryOK'
    BY <1>5, <1>7, <1>8 DEF Inv, Course, RecoveryOK
  <2>5. RepairOK'
    BY <1>5, <1>6, <1>7, <1>8 DEF Inv, Course, RepairOK
  <2>6. UninstallOK'
    BY <1>5, <1>6, <1>7, <1>8 DEF Inv, Course, UninstallOK
  <2>q. QED BY <2>1, <2>3, <2>4, <2>5, <2>6 DEF Course
<1>10. Delivered'
  BY <1>3, <1>5, <1>6, <1>7, <1>8 DEF Inv, Delivered, Delivers, Live
<1>q. QED BY <1>4, <1>9, <1>10 DEF Inv

\* Every promise about the menu entry allows for a change of somebody else's.
LEMMA EditMenuInv ==
  ASSUME Inv, EditMenu
  PROVE Inv'
<1>1. /\ UNCHANGED <<disk, state, journal, cmd, fallback, result>>
      /\ edited' = TRUE /\ menu' \in {None, Foreign}
  BY DEF EditMenu
<1>2. Books'
  BY <1>1, BooksKept DEF Inv, Books, TypeOK, SidesOK, OnDisk
<1>3. ActivePayload' = ActivePayload /\ Known' = Known /\ OnDisk' = OnDisk
  BY <1>1 DEF ActivePayload, Known, Referenced, OnDisk
<1>4. Course'
  <2>1. OnCourse'
    BY <1>1 DEF Inv, Course, OnCourse
  <2>2. ActivationOK'
    BY <1>1, <1>3 DEF Inv, Course, ActivationOK, Live
  <2>3. RecoveryOK' /\ UninstallOK'
    BY <1>1, <1>3 DEF Inv, Course, RecoveryOK, UninstallOK, Live
  <2>4. RepairOK'
    BY <1>1, <1>3 DEF Inv, Course, RepairOK, Live
  <2>q. QED BY <2>1, <2>2, <2>3, <2>4 DEF Course
<1>5. Delivered'
  BY <1>1, <1>3 DEF Inv, Delivered, Delivers
<1>q. QED BY <1>2, <1>4, <1>5 DEF Inv

(***************************************************************************)
(* install, update and the second half of repair --redownload.             *)
(***************************************************************************)
\* rmtree only ever takes something away.
LEMMA Removed ==
  ASSUME Inv, NEW p \in Payload, NEW o,
         \/ o # "failed" /\ disk' = [disk EXCEPT ![p] = "absent"]
         \/ o = "failed" /\ disk' = disk
         \/ o = "failed" /\ disk[p] \in {"complete", "partial", "changed"}
            /\ disk' = [disk EXCEPT ![p] = "partial"]
  PROVE /\ disk' \in [Payload -> Condition] /\ OnDisk' \subseteq OnDisk
        /\ o # "failed" => disk'[p] = "absent"
        /\ \A q \in Payload \ {p} : disk'[q] = disk[q]
<1>1. disk \in [Payload -> Condition]
  BY DEF Inv, Books, TypeOK
<1>q. QED BY <1>1 DEF Condition, OnDisk

\* What is known of a command that activates.
LEMMA ActivatingRow ==
  ASSUME Inv, cmd.op \in Activating
  PROVE /\ cmd # Idle /\ cmd \in CmdRow
        /\ cmd.target \in [payload : Payload \cup {None}, env : Env]
        /\ cmd.at \notin {"discard", "forget", "stage"} => cmd.target \in Target
<1>1. Idle.op = "none"
  BY DEF Idle
<1>q. QED BY <1>1 DEF Inv, Course, OnCourse, Activating

\* An activation that goes on needs only its own part of Course.
LEMMA ActivationGoesOn ==
  ASSUME Inv, cmd.op \in Activating, Books', result' = result,
         cmd'.op = cmd.op, OnCourse', ActivationOK'
  PROVE Inv'
<1>1. RecoveryOK' /\ RepairOK' /\ UninstallOK'
  BY DEF Activating, RecoveryOK, RepairOK, UninstallOK
<1>q. QED BY <1>1, GoesOn, ActivatingRow DEF Course

\* A candidate the state does not refer to may go, its journal still names it.
LEMMA DiscardCandidateInv ==
  ASSUME Inv, DiscardCandidate
  PROVE Inv'
<1>1. /\ cmd.op = "redownload" /\ cmd.at = "discard" /\ cmd.op \in Activating
      /\ UNCHANGED <<state, journal, menu>>
  BY DEF DiscardCandidate, At, Activating
<1>2. state.cleanup = {} /\ (journal # None => journal.target.payload \in Payload)
  BY <1>1 DEF Inv, Course, ActivationOK, Preparing, Books, TypeOK, Journal, Target
<1>3. /\ disk' \in [Payload -> Condition] /\ OnDisk' \subseteq OnDisk
      /\ \/ Raise
         \/ Goto("stage")
         \/ journal # None /\ disk'[journal.target.payload] = "absent" /\ Goto("forget")
  <2>1. CASE journal # None /\ journal.target.payload \notin Referenced
    <3>1. PICK o \in Outcome : /\ RemovePayload(journal.target.payload, o)
                               /\ Or(o, "forget")
      BY <2>1 DEF DiscardCandidate
    <3>2. /\ disk' \in [Payload -> Condition] /\ OnDisk' \subseteq OnDisk
          /\ o # "failed" => disk'[journal.target.payload] = "absent"
      BY <1>2, <2>1, <3>1, Removed DEF RemovePayload
    <3>q. QED BY <2>1, <3>1, <3>2 DEF Or
  <2>2. CASE ~(journal # None /\ journal.target.payload \notin Referenced)
    BY <2>2 DEF DiscardCandidate, Inv, Books, TypeOK, OnDisk
  <2>q. QED BY <2>1, <2>2
<1>4. fallback' \in Env \cup {None} /\ edited' = edited
  BY <1>1, <1>3, RaiseEnds, ActivatingRow DEF Goto, Inv, Books, TypeOK
<1>5. Books'
  BY <1>1, <1>3, <1>4, BooksKept DEF SidesOK, Inv, Books, TypeOK
<1>6. CASE Raise
  BY <1>1, <1>5, <1>6, RaiseEnds, Ended, ActivatingRow
<1>7. CASE Goto("stage")
  <2>1. OnCourse' /\ ActivationOK'
    BY <1>1, <1>2, <1>7, ActivatingRow
       DEF Goto, OnCourse, ActivationOK, Activating, Preparing, Finishing, CmdRow
  <2>q. QED BY <1>1, <1>5, <1>7, <2>1, ActivationGoesOn, ActivatingRow DEF Goto, CmdRow
<1>8. CASE journal # None /\ disk'[journal.target.payload] = "absent" /\ Goto("forget")
  <2>1. OnCourse' /\ ActivationOK'
    BY <1>1, <1>2, <1>8, ActivatingRow
       DEF Goto, OnCourse, ActivationOK, Activating, Preparing, Finishing, CmdRow
  <2>q. QED BY <1>1, <1>5, <1>8, <2>1, ActivationGoesOn, ActivatingRow DEF Goto, CmdRow
<1>q. QED BY <1>3, <1>6, <1>7, <1>8

\* The candidate is gone by the time its journal is forgotten.
LEMMA ForgetCandidateInv ==
  ASSUME Inv, ForgetCandidate
  PROVE Inv'
<1>1. /\ cmd.op = "redownload" /\ cmd.at = "forget" /\ cmd.op \in Activating
      /\ UNCHANGED <<disk, state, menu>>
  BY DEF ForgetCandidate, At, Activating
<1>2. /\ state.cleanup = {} /\ journal # None /\ journal.target.payload \in Payload
      /\ disk[journal.target.payload] = "absent"
  BY <1>1 DEF Inv, Course, ActivationOK, Preparing, Books, TypeOK, Journal, Target
<1>3. journal' \in {journal, None} /\ (Raise \/ Goto("stage"))
  BY DEF ForgetCandidate, Or, RemoveJournal
<1>4. fallback' \in Env \cup {None} /\ edited' = edited
  BY <1>1, <1>3, RaiseEnds, ActivatingRow DEF Goto, Inv, Books, TypeOK
<1>5. Books'
  <2>1. OnDisk' = OnDisk /\ journal.target.payload \notin OnDisk
    BY <1>1, <1>2 DEF OnDisk
  <2>q. QED BY <1>1, <1>3, <1>4, <2>1, BooksKept DEF SidesOK, Inv, Books, TypeOK
<1>6. CASE Raise
  BY <1>1, <1>5, <1>6, RaiseEnds, Ended, ActivatingRow
<1>7. CASE Goto("stage")
  <2>1. OnCourse' /\ ActivationOK'
    BY <1>1, <1>2, <1>7, ActivatingRow
       DEF Goto, OnCourse, ActivationOK, Activating, Preparing, Finishing, CmdRow
  <2>q. QED BY <1>1, <1>5, <1>7, <2>1, ActivationGoesOn, ActivatingRow DEF Goto, CmdRow
<1>q. QED BY <1>3, <1>6, <1>7

\* A stage is a payload nothing names.
LEMMA StageReleaseInv ==
  ASSUME Inv, StageRelease
  PROVE Inv'
<1>1. /\ cmd.op \in Activating /\ cmd.at = "stage"
      /\ UNCHANGED <<state, journal, menu>>
  BY DEF StageRelease, At
<1>2. state.cleanup = {} /\ disk \in [Payload -> Condition]
  BY <1>1 DEF Inv, Course, ActivationOK, Preparing, Books, TypeOK
<1>3. CASE disk' = disk /\ Raise
  <2>1. fallback' \in Env \cup {None} /\ edited' = edited
    BY <1>1, <1>3, RaiseEnds, ActivatingRow
  <2>2. Books'
    BY <1>1, <1>2, <1>3, <2>1, BooksKept DEF SidesOK, Inv, Books, TypeOK, OnDisk
  <2>q. QED BY <1>1, <1>3, <2>2, RaiseEnds, Ended, ActivatingRow
<1>4. ASSUME NEW p \in Payload \ Known, disk[p] = "absent",
             disk' = [disk EXCEPT ![p] = "staged"],
             cmd' = [cmd EXCEPT !.at = "journal", !.target.payload = p],
             UNCHANGED <<fallback, result, edited>>
      PROVE Inv'
  <2>1. /\ disk' \in [Payload -> Condition] /\ OnDisk' = OnDisk /\ disk'[p] = "staged"
        /\ Known' = Known
    BY <1>1, <1>2, <1>4 DEF OnDisk, Condition, Known, Referenced, ActivePayload
  <2>2. Books'
    BY <1>1, <1>4, <2>1, BooksKept DEF SidesOK, Inv, Books, TypeOK
  <2>3. /\ cmd'.op = cmd.op /\ cmd'.at = "journal" /\ cmd'.target.payload = p
        /\ cmd'.target \in Target /\ cmd' \in CmdRow
    BY <1>1, <1>4, ActivatingRow DEF CmdRow, Target, Preparing
  <2>4. OnCourse'
    BY <1>1, <2>3 DEF OnCourse, Target, Preparing, Activating
  <2>5. ActivationOK'
    BY <1>1, <1>2, <1>4, <2>1, <2>3 DEF ActivationOK, Finishing
  <2>q. QED BY <1>1, <1>4, <2>2, <2>3, <2>4, <2>5, ActivationGoesOn
<1>q. QED BY <1>3, <1>4 DEF StageRelease

\* A journal that is written names a payload nothing names yet.
LEMMA WriteJournalInv ==
  ASSUME Inv, WriteJournal
  PROVE Inv'
<1> DEFINE p == cmd.target.payload
           new == [expected |-> state.generation, target |-> cmd.target,
                   prior |-> state.menu]
<1>1. /\ cmd.op \in Activating /\ cmd.at = "journal" /\ UNCHANGED <<state, menu>>
  BY DEF WriteJournal, At
<1>2. /\ state.cleanup = {} /\ disk \in [Payload -> Condition] /\ disk[p] = "staged"
      /\ p \in Payload /\ p \notin Known /\ cmd.target \in Target
  BY <1>1, ActivatingRow
     DEF Inv, Course, ActivationOK, Preparing, Books, TypeOK, Target
<1>3. new \in Journal /\ new # None /\ state.generation \in Nat
  BY <1>2, ActivationAssumption DEF Journal, Inv, Books, TypeOK, Document
<1>4. /\ \/ journal' = journal
         \/ journal = None /\ journal' = new
      /\ \/ disk' = disk /\ journal' = new /\ Goto("rename")
         \/ disk' = [disk EXCEPT ![p] = "absent"] /\ Raise
  <2>1. PICK o \in Outcome :
          /\ journal' = IF journal # None \/ o = "failed" THEN journal ELSE new
          /\ IF journal = None /\ o = "done"
             THEN disk' = disk /\ Goto("rename")
             ELSE disk' = [disk EXCEPT ![p] = "absent"] /\ Raise
    BY Zenon DEF WriteJournal
  <2>q. QED BY <2>1
<1>5. disk' \in [Payload -> Condition] /\ OnDisk' = OnDisk
  BY <1>2, <1>4 DEF OnDisk, Condition
<1>6. fallback' \in Env \cup {None} /\ edited' = edited
  BY <1>1, <1>4, RaiseEnds, ActivatingRow DEF Goto, Inv, Books, TypeOK
<1>7. Referenced' = Referenced
  BY <1>1 DEF Referenced, ActivePayload
<1>8. Books'
  <2>1. CASE journal' = journal
    BY <1>1, <1>5, <1>6, <2>1, BooksKept DEF SidesOK, Inv, Books, TypeOK
  <2>2. CASE journal = None /\ journal' = new
    <3>1. TypeOK'
      BY <1>1, <1>3, <1>5, <1>6, <2>2 DEF Inv, Books, TypeOK, WellFormed, ActivePayload
    <3>2. NothingOrphaned'
      BY <1>5, <1>7, <2>2 DEF Inv, Books, NothingOrphaned, Known
    <3>3. JournalOK'
      BY <1>1, <1>2, <1>3, <1>7, <2>2 DEF JournalOK, Known
    <3>4. MarkOK'
      BY <1>1 DEF Inv, Books, MarkOK
    <3>q. QED BY <3>1, <3>2, <3>3, <3>4 DEF Books
  <2>q. QED BY <1>4, <2>1, <2>2
<1>9. CASE disk' = disk /\ journal' = new /\ Goto("rename")
  <2>1. cmd'.op = cmd.op /\ cmd'.at = "rename" /\ cmd'.target = cmd.target /\ cmd' \in CmdRow
    BY <1>1, <1>9, ActivatingRow DEF Goto, CmdRow, Preparing
  <2>2. OnCourse'
    BY <1>1, <1>2, <2>1, ActivatingRow DEF OnCourse, Preparing
  <2>3. ActivationOK'
    BY <1>1, <1>2, <1>3, <1>9, <2>1 DEF ActivationOK, Finishing
  <2>q. QED BY <1>1, <1>8, <1>9, <2>1, <2>2, <2>3, ActivationGoesOn DEF Goto
<1>10. CASE Raise
  BY <1>1, <1>8, <1>10, RaiseEnds, Ended, ActivatingRow
<1>q. QED BY <1>4, <1>9, <1>10

\* The journal names the payload before the rename makes it a version directory.
LEMMA RenamePayloadInv ==
  ASSUME Inv, RenamePayload
  PROVE Inv'
<1> DEFINE p == cmd.target.payload
<1>1. cmd.op \in Activating /\ cmd.at = "rename" /\ UNCHANGED <<state, menu>>
  BY DEF RenamePayload, At
<1>2. /\ state.cleanup = {} /\ disk \in [Payload -> Condition] /\ disk[p] = "staged"
      /\ p \in Payload /\ cmd.target \in Target
      /\ journal # None /\ journal.target = cmd.target
      /\ journal.expected = state.generation
  BY <1>1, ActivatingRow
     DEF Inv, Course, ActivationOK, Preparing, Books, TypeOK, Target
<1>3. PICK o \in Outcome :
        /\ disk' = [disk EXCEPT ![p] = IF o = "failed" THEN "absent" ELSE "complete"]
        /\ journal' \in IF o = "failed" THEN {journal, None} ELSE {journal}
        /\ Or(o, "menu")
  BY DEF RenamePayload
<1>4. /\ disk' \in [Payload -> Condition]
      /\ o = "failed" => OnDisk' = OnDisk /\ p \notin OnDisk'
      /\ o # "failed" => OnDisk' = OnDisk \cup {p} /\ journal' = journal
                         /\ disk'[p] = "complete"
  BY <1>2, <1>3 DEF OnDisk, Condition
<1>5. fallback' \in Env \cup {None} /\ edited' = edited
  BY <1>1, <1>3, RaiseEnds, ActivatingRow DEF Or, Goto, Inv, Books, TypeOK
<1>6. Books'
  <2>1. CASE o = "failed"
    BY <1>1, <1>2, <1>3, <1>4, <1>5, <2>1, BooksKept DEF SidesOK, Inv, Books, TypeOK
  <2>2. CASE o # "failed"
    <3>1. Known' = Known /\ p \in Known /\ Referenced' = Referenced
      BY <1>1, <1>2, <1>4, <2>2 DEF Known, Referenced, ActivePayload
    <3>2. TypeOK'
      BY <1>1, <1>4, <1>5, <2>2 DEF Inv, Books, TypeOK, WellFormed, ActivePayload
    <3>3. NothingOrphaned'
      BY <1>4, <2>2, <3>1 DEF Inv, Books, NothingOrphaned
    <3>4. JournalOK' /\ MarkOK'
      BY <1>1, <1>4, <2>2, <3>1 DEF Inv, Books, JournalOK, MarkOK
    <3>q. QED BY <3>2, <3>3, <3>4 DEF Books
  <2>q. QED BY <2>1, <2>2
<1>7. CASE o = "done" /\ Goto("menu")
  <2>1. cmd'.op = cmd.op /\ cmd'.at = "menu" /\ cmd'.target = cmd.target /\ cmd' \in CmdRow
    BY <1>1, <1>7, ActivatingRow DEF Goto, CmdRow, Preparing
  <2>2. OnCourse'
    BY <1>1, <1>2, <2>1, ActivatingRow DEF OnCourse, Preparing
  <2>3. ActivationOK'
    BY <1>1, <1>2, <1>4, <1>7, <2>1 DEF ActivationOK, Finishing, Live
  <2>q. QED BY <1>1, <1>6, <1>7, <2>1, <2>2, <2>3, ActivationGoesOn DEF Goto
<1>8. CASE Raise
  BY <1>1, <1>6, <1>8, RaiseEnds, Ended, ActivatingRow
<1>q. QED BY <1>3, <1>7, <1>8 DEF Or

\* What may be in the menu once a command put back the entry it found.
LEMMA RestoredType ==
  ASSUME Inv, NEW e \in Entry, NEW shown \in Entry \cup {None, Foreign},
         NEW m \in Restored(e, shown)
  PROVE m \in Entry \cup {None, Foreign}
<1>1. state.menu \in Entry \cup {None}
  BY DEF Inv, Books, TypeOK, Document
<1>q. QED BY <1>1 DEF Restored

\* The entry of the candidate, or what a failed try left in the menu.
LEMMA InstallCandidateMenuInv ==
  ASSUME Inv, InstallCandidateMenu
  PROVE Inv'
<1> DEFINE e == EntryOf(cmd.target)
<1>1. cmd.op \in Activating /\ cmd.at = "menu" /\ UNCHANGED <<disk, state, journal>>
  BY DEF InstallCandidateMenu, At
<1>2. /\ state.cleanup = {} /\ cmd.target \in Target /\ Live(cmd.target.payload)
      /\ journal # None /\ journal.target = cmd.target
      /\ journal.expected = state.generation
  BY <1>1, ActivatingRow DEF Inv, Course, ActivationOK, Preparing
<1>3. e \in Entry /\ menu \in Entry \cup {None, Foreign}
  BY <1>2 DEF EntryOf, Entry, Target, Inv, Books, TypeOK
<1>4. /\ menu' \in Entry \cup {None, Foreign}
      /\ \/ Raise
         \/ menu' = e /\ Goto("publish")
  <2>1. CASE menu' = e /\ Goto("publish")
    BY <1>3, <2>1
  <2>2. ASSUME NEW shown \in {menu, e}, menu' \in Restored(e, shown), Raise
        PROVE menu' \in Entry \cup {None, Foreign} /\ Raise
    BY <1>3, <2>2, RestoredType
  <2>3. ASSUME ~(menu' = e /\ Goto("publish"))
        PROVE  menu' \in Entry \cup {None, Foreign} /\ Raise
    <3>1. PICK shown \in {menu} \cup (IF MayInstall(e, state.menu) THEN {e} ELSE {}) :
            menu' \in Restored(e, shown) /\ Raise
      BY <2>3 DEF InstallCandidateMenu
    <3>2. shown \in {menu, e}
      OBVIOUS
    <3>q. QED BY <2>2, <3>1, <3>2
  <2>q. QED BY <2>1, <2>3
<1>5. fallback' \in Env \cup {None} /\ edited' = edited
  BY <1>1, <1>4, RaiseEnds, ActivatingRow DEF Goto, Inv, Books, TypeOK
<1>6. Books'
  BY <1>1, <1>4, <1>5, BooksKept DEF SidesOK, Inv, Books, TypeOK, OnDisk
<1>7. CASE menu' = e /\ Goto("publish")
  <2>1. cmd'.op = cmd.op /\ cmd'.at = "publish" /\ cmd'.target = cmd.target
        /\ cmd' \in CmdRow
    BY <1>1, <1>7, ActivatingRow DEF Goto, CmdRow, Preparing
  <2>2. OnCourse'
    BY <1>1, <1>2, <2>1, ActivatingRow DEF OnCourse, Preparing
  <2>3. ActivationOK'
    BY <1>1, <1>2, <1>7, <2>1 DEF ActivationOK, Finishing, Live, EntryOf
  <2>q. QED BY <1>1, <1>6, <1>7, <2>1, <2>2, <2>3, ActivationGoesOn DEF Goto
<1>8. CASE Raise
  BY <1>1, <1>6, <1>8, RaiseEnds, Ended, ActivatingRow
<1>q. QED BY <1>4, <1>7, <1>8

\* A published candidate: it and what was active stay, all that is older goes.
LEMMA PublishedRow ==
  ASSUME Inv, NEW target \in Target, target.payload \notin Referenced, state.cleanup = {}
  PROVE /\ Published(target) \in Document
        /\ Published(target).active = target
        /\ Published(target).previous = ActivePayload
        /\ Published(target).menu = EntryOf(target)
        /\ Published(target).cleanup = {state.previous} \ {None}
        /\ Published(target).recovery
             = IF state.previous = None THEN "healthy" ELSE "cleanup"
        /\ target.payload \in Payload /\ target.payload # ActivePayload
        /\ target.payload # state.previous
        /\ state.previous # None => state.previous # ActivePayload
<1>1. /\ state \in Document /\ WellFormed /\ target.payload \in Payload
      /\ ActivePayload \in Payload \cup {None} /\ EntryOf(target) \in Entry
  BY DEF Inv, Books, TypeOK, Document, ActivePayload, Target, EntryOf, Entry
<1>2. target.payload # ActivePayload /\ target.payload # state.previous
  BY <1>1 DEF Referenced
<1>3. state.previous # None => state.previous # ActivePayload
  BY <1>1 DEF WellFormed
<1>4. (state.cleanup \cup {state.previous}) \ {None, target.payload, ActivePayload}
      = {state.previous} \ {None}
  BY <1>2, <1>3
<1>5. {state.previous} \ {None} \in SUBSET Payload
  BY <1>1 DEF Document
<1>q. QED BY <1>1, <1>2, <1>3, <1>4, <1>5 DEF Published, Document

\* Both activation and recovery publish this way.
LEMMA BooksPublished ==
  ASSUME Inv, NEW target \in Target, target.payload \notin Referenced, state.cleanup = {},
         state' = [Published(target) EXCEPT !.generation = state.generation + 1],
         disk' = disk, journal' = journal, journal # None => journal.target = target,
         SidesOK'
  PROVE /\ Books' /\ state'.active = target /\ state'.menu = EntryOf(target)
        /\ state'.generation = state.generation + 1
<1>1. /\ state'.generation = state.generation + 1 /\ state'.active = target
      /\ state'.previous = ActivePayload /\ state'.menu = EntryOf(target)
      /\ state'.cleanup = {state.previous} \ {None}
      /\ state'.recovery = IF state.previous = None THEN "healthy" ELSE "cleanup"
      /\ state' \in Document
  BY PublishedRow DEF Document, Inv, Books, TypeOK
<1>2. /\ target # None /\ ActivePayload' = target.payload
      /\ target.payload # None
  BY <1>1, ActivationAssumption DEF ActivePayload, Target
<1>3. WellFormed'
  BY <1>1, <1>2, PublishedRow DEF WellFormed, EntryOf
<1>4. MarkOK'
  BY <1>1, <1>2 DEF MarkOK
<1>5. Known \subseteq Known'
  <2>1. Referenced \subseteq Referenced'
    BY <1>1, <1>2, ActivationAssumption DEF Referenced
  <2>q. QED BY <2>1 DEF Known
<1>q. QED BY <1>1, <1>3, <1>4, <1>5, BooksWritten DEF Inv

\* The state document shows the candidate from here on.
LEMMA PublishCandidateInv ==
  ASSUME Inv, PublishCandidate
  PROVE Inv'
<1> DEFINE e == EntryOf(cmd.target)
<1>1. cmd.op \in Activating /\ cmd.at = "publish" /\ UNCHANGED <<disk, journal>>
  BY DEF PublishCandidate, At
<1>2. /\ state.cleanup = {} /\ cmd.target \in Target /\ Live(cmd.target.payload)
      /\ journal # None /\ journal.target = cmd.target
      /\ journal.expected = state.generation
      /\ menu = e \/ edited
  BY <1>1, ActivatingRow DEF Inv, Course, ActivationOK, Preparing
<1>3. e \in Entry /\ cmd.target.payload \notin Referenced
  <2>1. e \in Entry
    BY <1>2 DEF EntryOf, Entry, Target
  <2>2. journal.target.payload \notin Referenced
    BY <1>2 DEF Inv, Books, JournalOK
  <2>q. QED BY <1>2, <2>1, <2>2
<1>4. PICK o \in Outcome :
        /\ WriteState(Published(cmd.target), o)
        /\ IF o = "done" THEN menu' = menu ELSE menu' \in Restored(e, menu)
        /\ Or(o, "unjournal")
  BY DEF PublishCandidate
<1>5. menu' \in Entry \cup {None, Foreign}
  BY <1>3, <1>4, RestoredType DEF Inv, Books, TypeOK
<1>6. fallback' \in Env \cup {None} /\ edited' = edited
  BY <1>1, <1>4, RaiseEnds, ActivatingRow DEF Or, Goto, Inv, Books, TypeOK
<1>7. SidesOK'
  BY <1>5, <1>6 DEF SidesOK, Inv, Books, TypeOK
<1>8. Books' /\ (o # "failed" => state'.active = cmd.target /\ state'.menu = e)
  <2>1. CASE o = "failed"
    BY <1>1, <1>4, <1>7, <2>1, BooksKept DEF WriteState, Inv, Books, TypeOK, OnDisk
  <2>2. CASE o # "failed"
    BY <1>1, <1>2, <1>3, <1>4, <1>7, <2>2, BooksPublished DEF WriteState
  <2>q. QED BY <2>1, <2>2
<1>9. CASE o = "done" /\ Goto("unjournal")
  <2>1. cmd'.op = cmd.op /\ cmd'.at = "unjournal" /\ cmd'.target = cmd.target
        /\ cmd' \in CmdRow
    BY <1>1, <1>9, ActivatingRow DEF Goto, CmdRow, Finishing
  <2>2. OnCourse'
    BY <1>1, <1>2, <2>1, ActivatingRow DEF OnCourse, Finishing
  <2>3. ActivationOK'
    BY <1>1, <1>2, <1>4, <1>6, <1>8, <1>9, <2>1
       DEF ActivationOK, Finishing, Preparing, Live
  <2>q. QED BY <1>1, <1>8, <1>9, <2>1, <2>2, <2>3, ActivationGoesOn DEF Goto
<1>10. CASE Raise
  BY <1>1, <1>8, <1>10, RaiseEnds, Ended, ActivatingRow
<1>q. QED BY <1>4, <1>9, <1>10 DEF Or

\* The journal is of the active target now, and may stay.
LEMMA CloseJournalInv ==
  ASSUME Inv, CloseJournal
  PROVE Inv'
<1>1. /\ cmd.op \in Activating /\ cmd.at = "unjournal" /\ UNCHANGED <<disk, state, menu>>
      /\ journal' \in {journal, None} /\ Goto("drain")
  BY DEF CloseJournal, At
<1>2. /\ state.active = cmd.target /\ Live(cmd.target.payload) /\ cmd.target \in Target
      /\ menu = state.menu \/ edited
      /\ journal = None \/ journal.target = state.active
  BY <1>1, ActivatingRow DEF Inv, Course, ActivationOK, Finishing
<1>3. journal # None => journal.target.payload \in Referenced
  BY <1>2, ActivationAssumption DEF Referenced, ActivePayload, Target
<1>4. Books'
  BY <1>1, <1>3, BooksKept DEF Goto, SidesOK, Inv, Books, TypeOK, OnDisk
<1>5. cmd'.op = cmd.op /\ cmd'.at = "drain" /\ cmd'.target = cmd.target /\ cmd' \in CmdRow
  BY <1>1, ActivatingRow DEF Goto, CmdRow, Finishing
<1>6. OnCourse'
  BY <1>1, <1>2, <1>5, ActivatingRow DEF OnCourse, Finishing
<1>7. ActivationOK'
  BY <1>1, <1>2, <1>5 DEF Goto, ActivationOK, Finishing, Preparing, Live
<1>q. QED BY <1>1, <1>4, <1>5, <1>6, <1>7, ActivationGoesOn DEF Goto

(***************************************************************************)
(* The cleanup, which every command may come to.                           *)
(***************************************************************************)
\* No payload of the cleanup is the active one.
LEMMA CleanupApart ==
  ASSUME Inv, NEW p \in state.cleanup
  PROVE p \in Payload /\ p # ActivePayload /\ p # state.previous
BY DEF Inv, Books, TypeOK, Document, WellFormed

\* Where a command drains, what it goes on with is decided already.
LEMMA DrainingRow ==
  ASSUME Inv, Draining \/ cmd.at = "drop"
  PROVE /\ cmd # Idle /\ cmd \in CmdRow
        /\ cmd.op \in {"install", "redownload", "recover", "repair", "uninstall"}
<1>1. Idle.op = "none" /\ Idle.at = "idle"
  BY DEF Idle
<1>2. cmd.at # "idle" /\ OnCourse
  BY DEF Draining, At, Inv, Course
<1>q. QED BY <1>1, <1>2 DEF OnCourse, Activating, Draining, At

\* Only a payload of the cleanup is taken away.
LEMMA DrainOneInv ==
  ASSUME Inv, DrainOne
  PROVE Inv'
<1>1. PICK p \in state.cleanup, o \in Outcome :
        /\ RemovePayload(p, o)
        /\ \/ /\ o = "done" /\ cmd' = [cmd EXCEPT !.at = "drop", !.drop = p]
              /\ UNCHANGED <<fallback, result, edited>>
           \/ o # "done" /\ Raise
  BY DEF DrainOne
<1>2. /\ Draining /\ UNCHANGED <<state, journal, menu>>
      /\ p \in Payload /\ p # ActivePayload
  BY CleanupApart DEF DrainOne
<1>3. /\ disk' \in [Payload -> Condition] /\ OnDisk' \subseteq OnDisk
      /\ o # "failed" => disk'[p] = "absent"
      /\ \A q \in Payload \ {p} : disk'[q] = disk[q]
  BY <1>1, <1>2, Removed DEF RemovePayload
<1>4. fallback' \in Env \cup {None} /\ edited' = edited
  BY <1>1, <1>2, RaiseEnds, DrainingRow DEF Inv, Books, TypeOK
<1>5. Books'
  BY <1>2, <1>3, <1>4, BooksKept DEF SidesOK, Inv, Books, TypeOK
<1>6. CASE Raise
  BY <1>2, <1>5, <1>6, DrainingRow, RaiseEnds, Ended
<1>7. ASSUME o = "done", cmd' = [cmd EXCEPT !.at = "drop", !.drop = p],
             UNCHANGED <<fallback, result, edited>>
      PROVE Inv'
  <2>1. /\ cmd'.op = cmd.op /\ cmd'.at = "drop" /\ cmd'.target = cmd.target
        /\ cmd'.drop = p /\ cmd' \in CmdRow
    BY <1>2, <1>7, DrainingRow DEF CmdRow, Finishing
  <2>2. OnCourse'
    BY <1>1, <1>2, <1>3, <1>7, <2>1, DrainingRow
       DEF Inv, Course, OnCourse, Finishing, Draining, At, Activating, Idle
  <2>3. ActivationOK'
    <3>1. SUFFICES ASSUME cmd.op \in Activating
                   PROVE ActivationOK'
      BY <2>1 DEF ActivationOK
    <3>2. cmd.at = "drain"
      BY <1>2, <3>1 DEF Draining, At, Activating
    <3>3. /\ state.active = cmd.target /\ Live(cmd.target.payload)
          /\ menu = state.menu \/ edited
          /\ journal = None \/ journal.target = state.active
          /\ cmd.target \in Target
      BY <3>1, <3>2, ActivatingRow DEF Inv, Course, ActivationOK, Finishing
    <3>4. cmd.target.payload \in Payload /\ cmd.target.payload = ActivePayload
      BY <3>3, ActivationAssumption DEF Target, ActivePayload
    <3>5. Live(cmd.target.payload)'
      BY <1>2, <1>3, <2>1, <3>3, <3>4 DEF Live
    <3>q. QED BY <1>2, <1>7, <2>1, <3>3, <3>5 DEF ActivationOK, Finishing, Preparing
  <2>4. RecoveryOK' /\ RepairOK' /\ UninstallOK'
    BY <1>2, <2>1, DrainingRow
       DEF Inv, Course, RecoveryOK, RepairOK, UninstallOK, Draining, At
  <2>5. Course'
    BY <2>2, <2>3, <2>4 DEF Course
  <2>q. QED BY <1>2, <1>5, <1>7, <2>5, DrainingRow, GoesOn
<1>q. QED BY <1>1, <1>6, <1>7

\* A payload that is gone leaves the cleanup.
LEMMA DropOneInv ==
  ASSUME Inv, DropOne
  PROVE Inv'
<1>1. PICK o \in Outcome :
        /\ WriteState([state EXCEPT !.cleanup = @ \ {cmd.drop}], o)
        /\ Or(o, IF cmd.op = "repair" THEN "check" ELSE "drain")
  BY DEF DropOne
<1>2. /\ cmd.at = "drop" /\ UNCHANGED <<disk, journal, menu>>
      /\ cmd.drop \in state.cleanup /\ disk[cmd.drop] = "absent"
      /\ cmd.drop \in Payload
  BY CleanupApart DEF DropOne, Inv, Course, OnCourse
<1>3. fallback' \in Env \cup {None} /\ edited' = edited
  BY <1>1, <1>2, RaiseEnds, DrainingRow DEF Or, Goto, Inv, Books, TypeOK
<1>4. SidesOK'
  BY <1>2, <1>3 DEF SidesOK, Inv, Books, TypeOK
<1>5. /\ state'.active = state.active /\ state'.menu = state.menu
      /\ state'.recovery = state.recovery /\ state'.previous = state.previous
      /\ o # "failed" => /\ state' \in Document
                         /\ state'.cleanup = state.cleanup \ {cmd.drop}
                         /\ state'.generation = state.generation + 1
      /\ o = "failed" => state' = state
  <2>1. state \in Document
    BY DEF Inv, Books, TypeOK
  <2>2. CASE o = "failed"
    BY <1>1, <2>2 DEF WriteState
  <2>3. CASE o # "failed"
    <3>1. state' = [state EXCEPT !.cleanup = @ \ {cmd.drop},
                                 !.generation = state.generation + 1]
      BY <1>1, <2>1, <2>3 DEF WriteState, Document
    <3>2. state.cleanup \ {cmd.drop} \in SUBSET Payload /\ state.generation + 1 \in Nat
      BY <2>1 DEF Document
    <3>3. state' \in Document
      BY <2>1, <3>1, <3>2 DEF Document
    <3>q. QED BY <2>1, <2>3, <3>1, <3>3 DEF Document
  <2>q. QED BY <2>2, <2>3
<1>6. journal # None => state.active = journal.target
  BY <1>2 DEF Inv, Books, JournalOK
<1>7. Books'
  <2>1. CASE o = "failed"
    BY <1>2, <1>4, <1>5, <2>1, BooksKept DEF Inv, Books, TypeOK, OnDisk
  <2>2. CASE o # "failed"
    <3>1. WellFormed'
      BY <1>5, <2>2 DEF Inv, Books, TypeOK, MarkOK, WellFormed, ActivePayload, EntryOf
    <3>2. MarkOK'
      BY <1>5 DEF Inv, Books, MarkOK
    <3>3. Known \subseteq Known' \cup {p \in Payload : disk[p] = "absent"}
      BY <1>2, <1>5, <2>2 DEF Known, Referenced, ActivePayload
    <3>q. QED BY <1>2, <1>4, <1>5, <1>6, <2>2, <3>1, <3>2, <3>3, BooksWritten DEF Inv
  <2>q. QED BY <2>1, <2>2
<1>8. CASE Raise
  BY <1>2, <1>7, <1>8, DrainingRow, RaiseEnds, Ended
<1>9. ASSUME Goto(IF cmd.op = "repair" THEN "check" ELSE "drain")
      PROVE Inv'
  <2>1. /\ cmd'.op = cmd.op /\ cmd'.target = cmd.target /\ cmd' \in CmdRow
        /\ cmd'.at = IF cmd.op = "repair" THEN "check" ELSE "drain"
        /\ UNCHANGED <<result, edited>>
    BY <1>2, <1>9, DrainingRow DEF Goto, CmdRow, Finishing
  <2>2. OnCourse'
    BY <1>2, <2>1, DrainingRow DEF Inv, Course, OnCourse, Finishing, Activating, Idle
  <2>3. ActivationOK'
    BY <1>2, <1>5, <2>1 DEF Inv, Course, ActivationOK, Finishing, Preparing, Live
  <2>4. RecoveryOK' /\ RepairOK' /\ UninstallOK'
    BY <1>2, <1>5, <2>1 DEF Inv, Course, RecoveryOK, RepairOK, UninstallOK
  <2>5. Course'
    BY <2>2, <2>3, <2>4 DEF Course
  <2>q. QED BY <1>2, <1>7, <2>1, <2>5, DrainingRow, GoesOn
<1>q. QED BY <1>1, <1>8, <1>9 DEF Or

\* The final state of a cleanup, with nothing left to take away.
LEMMA FinalRow ==
  ASSUME Inv, cmd.at = "drain", state.cleanup = {}
  PROVE /\ Final \in Document /\ Final.active = state.active
        /\ Final.previous = state.previous /\ Final.cleanup = {}
        /\ Final.menu = IF cmd.op = "uninstall" THEN None ELSE state.menu
        /\ Final.recovery = IF cmd.op = "uninstall" THEN "uninstalled" ELSE "healthy"
        /\ cmd.op \in {"install", "redownload", "recover", "uninstall"}
        /\ IF cmd.op = "uninstall"
           THEN state.active = None /\ state.previous = None /\ journal = None
           ELSE state.active # None
        /\ journal # None => state.active = journal.target
<1>1. cmd.op \in {"install", "redownload", "recover", "uninstall"}
  BY DEF Inv, Course, OnCourse, Activating, Idle
<1>2. CASE cmd.op = "uninstall"
  <2>1. state.active = None /\ journal = None
    BY <1>2 DEF Inv, Course, UninstallOK
  <2>2. state.previous = None
    BY <2>1 DEF Inv, Books, TypeOK, WellFormed
  <2>q. QED BY <1>1, <1>2, <2>1, <2>2 DEF Final, Inv, Books, TypeOK, Document
<1>3. CASE cmd.op = "recover"
  <2>1. state.active # None /\ journal = None
    BY <1>3 DEF Inv, Course, RecoveryOK
  <2>q. QED BY <1>3, <2>1 DEF Final, Inv, Books, TypeOK, Document
<1>4. CASE cmd.op \in Activating
  <2>1. state.active = cmd.target /\ cmd.target \in Target
        /\ (journal # None => state.active = journal.target)
    BY <1>4, ActivatingRow DEF Inv, Course, ActivationOK, Finishing
  <2>2. state.active # None
    BY <2>1, ActivationAssumption
  <2>q. QED BY <1>1, <1>4, <2>1, <2>2 DEF Final, Activating, Inv, Books, TypeOK, Document
<1>q. QED BY <1>1, <1>2, <1>3, <1>4 DEF Activating

\* The last state of a cleanup, where an install or uninstall reports success.
LEMMA SettleInv ==
  ASSUME Inv, Settle
  PROVE Inv'
<1>1. /\ cmd.at = "drain" /\ state.cleanup = {} /\ UNCHANGED <<disk, journal, menu>>
      /\ cmd # Idle
  BY DEF Settle, Idle
<1>2. PICK o \in Outcome :
        /\ \/ Final = state /\ state' = state
           \/ WriteState(Final, o)
        /\ \/ o = "done" /\ Finish
           \/ Raise
  BY DEF Settle, Outcome
<1>3. /\ cmd.op \in {"install", "redownload", "recover", "uninstall"}
      /\ journal # None => state.active = journal.target
      /\ IF cmd.op = "uninstall"
         THEN state.active = None /\ state.previous = None /\ journal = None
         ELSE state.active # None
  BY <1>1, FinalRow
<1>4. /\ state' \in Document /\ state'.active = state.active
      /\ state'.previous = state.previous /\ state'.cleanup = {}
      /\ \/ state' = state
         \/ state'.generation = state.generation + 1 /\ state'.recovery = Final.recovery
            /\ state'.menu = Final.menu
      /\ o = "done" => state'.recovery = Final.recovery /\ state'.menu = Final.menu
  BY <1>1, <1>2, FinalRow DEF WriteState, Inv, Books, TypeOK, Document
<1>5. fallback' \in Env \cup {None} /\ edited' = edited
  BY <1>1, <1>2, RaiseEnds DEF Finish, Succeed, Inv, Books, TypeOK
<1>6. SidesOK'
  BY <1>1, <1>5 DEF SidesOK, Inv, Books, TypeOK
<1>7. Known' = Known
  BY <1>1, <1>4 DEF Known, Referenced, ActivePayload
<1>8. Books'
  <2>1. CASE state' = state
    BY <1>1, <1>6, <2>1, BooksKept DEF Inv, Books, TypeOK, OnDisk
  <2>2. CASE state'.generation = state.generation + 1 /\ state'.recovery = Final.recovery
             /\ state'.menu = Final.menu
    <3>1. WellFormed' /\ MarkOK'
      BY <1>1, <1>3, <1>4, <2>2, FinalRow
         DEF Inv, Books, TypeOK, WellFormed, MarkOK, ActivePayload, EntryOf
    <3>q. QED BY <1>1, <1>3, <1>4, <1>6, <1>7, <2>2, <3>1, BooksWritten DEF Inv
  <2>q. QED BY <1>4, <2>1, <2>2
<1>9. CASE Raise
  BY <1>1, <1>8, <1>9, RaiseEnds, Ended
<1>10. ASSUME o = "done", Finish, cmd.op = "recover"
       PROVE Inv'
  <2>1. /\ cmd' = [cmd EXCEPT !.op = "repair", !.at = "check"]
        /\ UNCHANGED <<fallback, result, edited>>
    BY <1>10 DEF Finish
  <2>2. Course'
    BY <1>1, <1>10, <2>1
       DEF Inv, Course, OnCourse, ActivationOK, RecoveryOK, RepairOK, UninstallOK,
           CmdRow, Activating, Idle
  <2>q. QED BY <1>1, <1>8, <2>1, <2>2, GoesOn
<1>11. ASSUME o = "done", Finish, cmd.op # "recover"
       PROVE Inv'
  <2>1. /\ cmd' = Idle /\ UNCHANGED edited
        /\ result' = [op |-> cmd.op, ok |-> TRUE, target |-> cmd.target]
    BY <1>11 DEF Finish, Succeed
  <2>2. Course'
    BY <2>1 DEF Course, OnCourse, ActivationOK, RecoveryOK, RepairOK, UninstallOK,
                Activating, Idle, CmdRow
  <2>3. CASE cmd.op = "uninstall"
    <3>1. Known = {} /\ journal' = None /\ state'.recovery = "uninstalled"
      BY <1>1, <1>3, <1>4, <1>11, <2>3, FinalRow, ActivationAssumption
         DEF Known, Referenced, ActivePayload
    <3>2. OnDisk' = {}
      BY <1>1, <3>1 DEF Inv, Books, NothingOrphaned, OnDisk
    <3>q. QED BY <1>8, <2>1, <2>2, <2>3, <3>1, <3>2 DEF Inv, Delivered, Delivers
  <2>4. CASE cmd.op \in Activating
    <3>1. /\ state.active = cmd.target /\ Live(cmd.target.payload)
          /\ menu = state.menu \/ edited
          /\ cmd.target # None
      BY <1>1, <2>4, ActivatingRow, ActivationAssumption
         DEF Inv, Course, ActivationOK, Finishing
    <3>2. /\ state'.active = cmd.target /\ state'.recovery = "healthy"
          /\ state'.menu = state.menu /\ state'.cleanup = {}
      BY <1>1, <1>4, <1>11, <2>4, <3>1, FinalRow DEF Activating
    <3>3. disk'[ActivePayload'] \in {"complete", "changed"}
      BY <1>1, <3>1, <3>2 DEF ActivePayload, Live
    <3>4. Delivered'
      BY <1>1, <2>1, <2>4, <3>1, <3>2, <3>3 DEF Delivered, Delivers, Activating
    <3>q. QED BY <1>8, <2>2, <3>4 DEF Inv
  <2>q. QED BY <1>3, <1>11, <2>3, <2>4 DEF Activating
<1>q. QED BY <1>2, <1>9, <1>10, <1>11

(***************************************************************************)
(* repair: the recovery of an interrupted activation, then the active      *)
(* version.                                                                *)
(***************************************************************************)
\* A step that changes no document, or no more than the menu entry.
LEMMA Quiet ==
  ASSUME Inv, cmd # Idle, UNCHANGED <<disk, state, journal>>,
         menu' \in Entry \cup {None, Foreign},
         Raise \/ UNCHANGED <<fallback, edited>>
  PROVE Books' /\ (Raise => Inv')
<1>1. SidesOK'
  BY RaiseEnds DEF SidesOK, Inv, Books, TypeOK
<1>2. Books'
  BY <1>1, BooksKept DEF Inv, Books, TypeOK, OnDisk
<1>q. QED BY <1>2, RaiseEnds, Ended

\* What is known of a recovery.
LEMMA RecoveringRow ==
  ASSUME Inv, cmd.op = "recover"
  PROVE /\ cmd # Idle /\ cmd \in CmdRow /\ cmd.target \in [payload : {None}, env : Env]
        /\ cmd.at \in {"check", "menu", "fix menu", "publish", "unjournal"} =>
             /\ journal # None /\ journal \in Journal /\ journal.target \in Target
             /\ EntryOf(journal.target) \in Entry
<1>1. Idle.op = "none"
  BY DEF Idle
<1>2. /\ cmd # Idle /\ cmd \in CmdRow /\ cmd.target \in [payload : {None}, env : Env]
  BY <1>1 DEF Inv, Course, OnCourse, Activating
<1>3. cmd.at \in {"check", "menu", "fix menu", "publish", "unjournal"} =>
        journal # None /\ journal \in Journal
  BY DEF Inv, Books, TypeOK, Course, RecoveryOK
<1>4. journal \in Journal =>
        journal.target \in Target /\ EntryOf(journal.target) \in Entry
  BY DEF Journal, Target, Entry, EntryOf
<1>q. QED BY <1>2, <1>3, <1>4

\* A recovery that goes on needs only its own part of Course.
LEMMA RecoveryGoesOn ==
  ASSUME Inv, cmd.op = "recover", Books', result' = result,
         cmd'.op = "recover", OnCourse', RecoveryOK'
  PROVE Inv'
<1>1. ActivationOK' /\ RepairOK' /\ UninstallOK'
  BY DEF Activating, ActivationOK, RepairOK, UninstallOK
<1>q. QED BY <1>1, GoesOn, RecoveringRow DEF Course

\* A journal is recovered by its generation or by the active target.
LEMMA CheckJournalInv ==
  ASSUME Inv, CheckJournal
  PROVE Inv'
<1>1. /\ cmd.op = "recover" /\ cmd.at = "check"
      /\ UNCHANGED <<disk, state, journal, menu>>
      /\ \/ /\ disk[journal.target.payload] = "complete"
            /\ journal.expected = state.generation /\ Goto("menu")
         \/ state.active = journal.target /\ Goto("fix menu")
         \/ Raise
  BY DEF CheckJournal, At
<1>2. Books' /\ (Raise => Inv')
  BY <1>1, Quiet, RecoveringRow DEF Goto, Inv, Books, TypeOK
<1>3. ASSUME disk[journal.target.payload] = "complete",
             journal.expected = state.generation, Goto("menu")
      PROVE Inv'
  <2>1. OnCourse' /\ RecoveryOK'
    BY <1>1, <1>3, RecoveringRow DEF Goto, OnCourse, RecoveryOK, CmdRow, Preparing, Live
  <2>q. QED BY <1>1, <1>2, <1>3, <2>1, RecoveryGoesOn, RecoveringRow DEF Goto, CmdRow
<1>4. ASSUME state.active = journal.target, Goto("fix menu")
      PROVE Inv'
  <2>1. OnCourse' /\ RecoveryOK'
    BY <1>1, <1>4, RecoveringRow DEF Goto, OnCourse, RecoveryOK, CmdRow
  <2>q. QED BY <1>1, <1>2, <1>4, <2>1, RecoveryGoesOn, RecoveringRow DEF Goto, CmdRow
<1>q. QED BY <1>1, <1>2, <1>3, <1>4

\* The entry of the recovered candidate.
LEMMA RecoverMenuInv ==
  ASSUME Inv, RecoverMenu
  PROVE Inv'
<1>1. /\ cmd.op = "recover" /\ cmd.at = "menu" /\ UNCHANGED <<disk, state, journal>>
      /\ menu' \in {menu, EntryOf(journal.target)}
      /\ Raise \/ Goto("publish")
  BY DEF RecoverMenu, PutEntry, At
<1>2. /\ journal.expected = state.generation /\ Live(journal.target.payload)
      /\ journal # None /\ EntryOf(journal.target) \in Entry
  BY <1>1, RecoveringRow DEF Inv, Course, RecoveryOK
<1>3. Books' /\ (Raise => Inv')
  BY <1>1, <1>2, Quiet, RecoveringRow DEF Goto, Inv, Books, TypeOK
<1>4. ASSUME Goto("publish")
      PROVE Inv'
  <2>1. OnCourse' /\ RecoveryOK'
    BY <1>1, <1>2, <1>4, RecoveringRow
       DEF Goto, OnCourse, RecoveryOK, CmdRow, Preparing, Live
  <2>q. QED BY <1>1, <1>3, <1>4, <2>1, RecoveryGoesOn, RecoveringRow DEF Goto, CmdRow
<1>q. QED BY <1>1, <1>3, <1>4

\* Recovery publishes what the journal waits for.
LEMMA PublishRecoveredInv ==
  ASSUME Inv, PublishRecovered
  PROVE Inv'
<1>1. PICK o \in Outcome : WriteState(Published(journal.target), o) /\ Or(o, "unjournal")
  BY DEF PublishRecovered
<1>2. /\ cmd.op = "recover" /\ cmd.at = "publish" /\ UNCHANGED <<disk, journal, menu>>
  BY DEF PublishRecovered, At
<1>3. /\ journal # None /\ journal.target \in Target /\ journal.expected = state.generation
      /\ journal.target.payload \notin Referenced /\ state.cleanup = {}
  BY <1>2, RecoveringRow DEF Inv, Course, RecoveryOK, Books, JournalOK
<1>4. SidesOK'
  BY <1>1, <1>2, RaiseEnds, RecoveringRow DEF Or, Goto, SidesOK, Inv, Books, TypeOK
<1>5. Books' /\ (o # "failed" => state'.active = journal.target)
  <2>1. CASE o = "failed"
    BY <1>1, <1>2, <1>4, <2>1, BooksKept DEF WriteState, Inv, Books, TypeOK, OnDisk
  <2>2. CASE o # "failed"
    BY <1>1, <1>2, <1>3, <1>4, <2>2, BooksPublished DEF WriteState
  <2>q. QED BY <2>1, <2>2
<1>6. CASE Raise
  BY <1>2, <1>5, <1>6, RaiseEnds, Ended, RecoveringRow
<1>7. ASSUME o = "done", Goto("unjournal")
      PROVE Inv'
  <2>1. OnCourse' /\ RecoveryOK'
    BY <1>2, <1>3, <1>5, <1>7, RecoveringRow
       DEF Goto, OnCourse, RecoveryOK, CmdRow, Finishing
  <2>q. QED BY <1>2, <1>5, <1>7, <2>1, RecoveryGoesOn, RecoveringRow DEF Goto, CmdRow
<1>q. QED BY <1>1, <1>6, <1>7 DEF Or

\* What is known of a repair of the active version.
LEMMA RepairingRow ==
  ASSUME Inv, cmd.op = "repair"
  PROVE /\ cmd # Idle /\ cmd \in CmdRow /\ cmd.target \in [payload : {None}, env : Env]
        /\ journal = None
        /\ state.active # None => /\ ActivePayload \in Payload /\ Rebound \in Target
                                  /\ EntryOf(Rebound) \in Entry
<1>1. Idle.op = "none"
  BY DEF Idle
<1>2. cmd # Idle /\ cmd \in CmdRow /\ cmd.target \in [payload : {None}, env : Env]
  BY <1>1 DEF Inv, Course, OnCourse, Activating
<1>3. journal = None
  BY DEF Inv, Course, RepairOK
<1>4. state.active # None => ActivePayload \in Payload
  BY DEF Inv, Books, TypeOK, Document, ActivePayload, Target
<1>q. QED BY <1>2, <1>3, <1>4 DEF Rebound, Target, Entry, EntryOf

\* A repair that goes on needs only its own part of Course.
LEMMA RepairGoesOn ==
  ASSUME Inv, cmd.op = "repair", Books', result' = result,
         cmd'.op = "repair", OnCourse', RepairOK'
  PROVE Inv'
<1>1. ActivationOK' /\ RecoveryOK' /\ UninstallOK'
  BY DEF Activating, ActivationOK, RecoveryOK, UninstallOK
<1>q. QED BY <1>1, GoesOn, RepairingRow DEF Course

\* A repair goes on with an active payload that is whole.
LEMMA CheckActiveInv ==
  ASSUME Inv, CheckActive
  PROVE Inv'
<1>1. /\ cmd.op = "repair" /\ cmd.at = "check" /\ UNCHANGED <<disk, state, journal, menu>>
      /\ \/ /\ state.active # None /\ state.cleanup = {}
            /\ disk[ActivePayload] = "complete" /\ Goto("menu")
         \/ Raise
  BY DEF CheckActive, At
<1>2. Books' /\ (Raise => Inv')
  BY <1>1, Quiet, RepairingRow DEF Goto, Inv, Books, TypeOK
<1>3. ASSUME state.active # None, state.cleanup = {}, disk[ActivePayload] = "complete",
             Goto("menu")
      PROVE Inv'
  <2>1. OnCourse' /\ RepairOK'
    BY <1>1, <1>3, RepairingRow
       DEF Goto, OnCourse, RepairOK, CmdRow, Preparing, Live, ActivePayload
  <2>q. QED BY <1>1, <1>2, <1>3, <2>1, RepairGoesOn, RepairingRow DEF Goto, CmdRow
<1>q. QED BY <1>1, <1>2, <1>3

\* The entry of the active payload for the environment that repairs it.
LEMMA RebindMenuInv ==
  ASSUME Inv, RebindMenu
  PROVE Inv'
<1>1. /\ cmd.op = "repair" /\ cmd.at = "menu" /\ UNCHANGED <<disk, state, journal>>
      /\ menu' \in {menu, EntryOf(Rebound)}
      /\ \/ Raise
         \/ menu' = EntryOf(Rebound) /\ Goto("publish")
  BY DEF RebindMenu, PutEntry, At
<1>2. /\ state.active # None /\ state.cleanup = {} /\ Live(ActivePayload)
      /\ EntryOf(Rebound) \in Entry
  BY <1>1, RepairingRow DEF Inv, Course, RepairOK
<1>3. Books' /\ (Raise => Inv')
  BY <1>1, <1>2, Quiet, RepairingRow DEF Goto, Inv, Books, TypeOK
<1>4. ASSUME menu' = EntryOf(Rebound), Goto("publish")
      PROVE Inv'
  <2>1. /\ cmd'.op = "repair" /\ cmd'.at = "publish" /\ cmd'.target = cmd.target
        /\ cmd' \in CmdRow
    BY <1>1, <1>4, RepairingRow DEF Goto, CmdRow, Preparing
  <2>2. Rebound' = Rebound /\ ActivePayload' = ActivePayload
    BY <1>1, <2>1 DEF Rebound, ActivePayload
  <2>3. OnCourse'
    BY <2>1, RepairingRow, <1>1 DEF OnCourse
  <2>4. RepairOK'
    BY <1>1, <1>2, <1>4, <2>1, <2>2, RepairingRow DEF RepairOK, Live, EntryOf
  <2>q. QED BY <1>1, <1>3, <1>4, <2>1, <2>3, <2>4, RepairGoesOn DEF Goto
<1>q. QED BY <1>1, <1>3, <1>4

\* A repair binds the active payload to the environment that runs it.
LEMMA PublishReboundInv ==
  ASSUME Inv, PublishRebound
  PROVE Inv'
<1> DEFINE e == EntryOf(Rebound)
<1>1. PICK o \in Outcome :
        /\ WriteState([state EXCEPT !.active = Rebound, !.menu = e,
                                    !.recovery = "healthy"], o)
        /\ IF o = "done" THEN menu' = menu /\ Succeed
           ELSE menu' \in Restored(e, menu) /\ Raise
  BY DEF PublishRebound
<1>2. cmd.op = "repair" /\ cmd.at = "publish" /\ UNCHANGED <<disk, journal>>
  BY DEF PublishRebound, At
<1>3. /\ state.active # None /\ state.cleanup = {} /\ Live(ActivePayload)
      /\ menu = e \/ edited
  BY <1>2 DEF Inv, Course, RepairOK
<1>4. /\ cmd # Idle /\ Rebound \in Target /\ e \in Entry /\ journal = None
      /\ Rebound # None /\ cmd.target.env \in Env
      /\ Rebound.payload = ActivePayload /\ Rebound.env = cmd.target.env
  BY <1>2, <1>3, RepairingRow, ActivationAssumption DEF Rebound
<1>5. menu' \in Entry \cup {None, Foreign}
  BY <1>1, <1>4, RestoredType DEF Inv, Books, TypeOK
<1>6. SidesOK'
  BY <1>1, <1>4, <1>5, RaiseEnds DEF Succeed, SidesOK, Inv, Books, TypeOK
<1>7. o # "failed" => /\ state' \in Document /\ state'.active = Rebound /\ state'.menu = e
                      /\ state'.previous = state.previous /\ state'.cleanup = {}
                      /\ state'.recovery = "healthy"
                      /\ state'.generation = state.generation + 1
                      /\ ActivePayload' = ActivePayload
  <2>1. SUFFICES ASSUME o # "failed"
                 PROVE  /\ state' \in Document /\ state'.active = Rebound /\ state'.menu = e
                        /\ state'.previous = state.previous /\ state'.cleanup = {}
                        /\ state'.recovery = "healthy"
                        /\ state'.generation = state.generation + 1
                        /\ ActivePayload' = ActivePayload
    OBVIOUS
  <2>2. state \in Document /\ state.generation + 1 \in Nat
    BY DEF Inv, Books, TypeOK, Document
  <2>3. state' = [state EXCEPT !.active = Rebound, !.menu = e, !.recovery = "healthy",
                               !.generation = state.generation + 1]
    BY <1>1, <2>1, <2>2 DEF WriteState, Document
  <2>4. state' \in Document
    BY <1>4, <2>2, <2>3 DEF Document
  <2>5. state'.active = Rebound /\ ActivePayload' = ActivePayload
    BY <1>3, <1>4, <2>2, <2>3 DEF Document, ActivePayload
  <2>q. QED BY <1>3, <2>2, <2>3, <2>4, <2>5 DEF Document
<1>8. Books'
  <2>1. CASE o = "failed"
    BY <1>1, <1>2, <1>6, <2>1, BooksKept DEF WriteState, Inv, Books, TypeOK, OnDisk
  <2>2. CASE o # "failed"
    <3>1. WellFormed' /\ MarkOK'
      BY <1>3, <1>4, <1>7, <2>2
         DEF Inv, Books, TypeOK, WellFormed, MarkOK, ActivePayload, EntryOf
    <3>2. Known' = Known
      BY <1>2, <1>3, <1>7, <2>2 DEF Known, Referenced
    <3>q. QED BY <1>2, <1>4, <1>6, <1>7, <2>2, <3>1, <3>2, BooksWritten DEF Inv
  <2>q. QED BY <2>1, <2>2
<1>9. CASE Raise
  BY <1>4, <1>8, <1>9, RaiseEnds, Ended
<1>10. ASSUME o = "done", menu' = menu, Succeed
       PROVE Inv'
  <2>1. /\ cmd' = Idle /\ UNCHANGED edited
        /\ result' = [op |-> "repair", ok |-> TRUE, target |-> cmd.target]
    BY <1>2, <1>10 DEF Succeed
  <2>2. Course'
    BY <2>1 DEF Course, OnCourse, ActivationOK, RecoveryOK, RepairOK, UninstallOK,
                Activating, Idle, CmdRow
  <2>3. disk'[ActivePayload'] \in {"complete", "changed"}
    BY <1>2, <1>3, <1>7, <1>10 DEF Live
  <2>4. Delivered'
    BY <1>2, <1>3, <1>4, <1>7, <1>10, <2>1, <2>3 DEF Delivered, Delivers
  <2>q. QED BY <1>8, <2>2, <2>4 DEF Inv
<1>q. QED BY <1>1, <1>9, <1>10

(***************************************************************************)
(* uninstall, and the two steps it shares with recovery.                   *)
(***************************************************************************)
\* What is known of an uninstall.
LEMMA UninstallingRow ==
  ASSUME Inv, cmd.op = "uninstall"
  PROVE /\ cmd # Idle /\ cmd \in CmdRow
        /\ cmd.at \in {"check", "fix menu", "retire", "remove menu"} \cup Finishing
<1>1. Idle.op = "none"
  BY DEF Idle
<1>q. QED BY <1>1 DEF Inv, Course, OnCourse, Activating

\* An uninstall that goes on needs only its own part of Course.
LEMMA UninstallGoesOn ==
  ASSUME Inv, cmd.op = "uninstall", Books', result' = result,
         cmd'.op = "uninstall", OnCourse', UninstallOK'
  PROVE Inv'
<1>1. ActivationOK' /\ RecoveryOK' /\ RepairOK'
  BY DEF Activating, ActivationOK, RecoveryOK, RepairOK
<1>q. QED BY <1>1, GoesOn, UninstallingRow DEF Course

\* The entry of an activation that was published already.
LEMMA RepairJournalMenuInv ==
  ASSUME Inv, RepairJournalMenu
  PROVE Inv'
<1>1. /\ cmd.op \in {"recover", "uninstall"} /\ cmd.at = "fix menu"
      /\ UNCHANGED <<disk, state, journal>>
      /\ menu' \in {menu, EntryOf(journal.target)}
      /\ Raise \/ Goto("unjournal")
  BY DEF RepairJournalMenu, PutEntry, At
<1>2. journal # None /\ EntryOf(journal.target) \in Entry
  BY <1>1 DEF Inv, Course, RecoveryOK, UninstallOK, Books, TypeOK, Journal, Target,
              Entry, EntryOf
<1>3. Books' /\ (Raise => Inv')
  BY <1>1, <1>2, Quiet, RecoveringRow, UninstallingRow DEF Goto, Inv, Books, TypeOK
<1>4. ASSUME Goto("unjournal"), cmd.op = "recover"
      PROVE Inv'
  <2>1. OnCourse' /\ RecoveryOK'
    BY <1>1, <1>2, <1>4, RecoveringRow
       DEF Goto, OnCourse, Inv, Course, RecoveryOK, CmdRow, Finishing
  <2>q. QED BY <1>1, <1>3, <1>4, <2>1, RecoveryGoesOn, RecoveringRow DEF Goto, CmdRow
<1>5. ASSUME Goto("unjournal"), cmd.op = "uninstall"
      PROVE Inv'
  <2>1. /\ cmd'.op = "uninstall" /\ cmd'.at = "unjournal" /\ cmd' \in CmdRow
        /\ ActivePayload' = ActivePayload
    BY <1>1, <1>5, UninstallingRow DEF Goto, CmdRow, Finishing, ActivePayload
  <2>2. OnCourse' /\ UninstallOK'
    BY <1>1, <1>2, <1>5, <2>1 DEF OnCourse, Inv, Course, UninstallOK, Finishing
  <2>q. QED BY <1>1, <1>3, <1>5, <2>1, <2>2, UninstallGoesOn DEF Goto
<1>q. QED BY <1>1, <1>3, <1>4, <1>5

\* By now the payload of the journal is the active one or gone.
LEMMA RemoveOldJournalInv ==
  ASSUME Inv, RemoveOldJournal
  PROVE Inv'
<1>1. PICK o \in Outcome :
        RemoveJournal(o) /\ Or(o, IF cmd.op = "recover" THEN "drain" ELSE "retire")
  BY DEF RemoveOldJournal
<1>2. /\ cmd.op \in {"recover", "uninstall"} /\ cmd.at = "unjournal"
      /\ UNCHANGED <<disk, state, menu>> /\ cmd # Idle
      /\ journal' \in {journal, None} /\ (o # "failed" => journal' = None)
  BY <1>1, RecoveringRow, UninstallingRow DEF RemoveOldJournal, RemoveJournal, At
<1>3. journal # None /\ journal.target \in Target /\ journal.target # None
  BY <1>2, ActivationAssumption
     DEF Inv, Course, RecoveryOK, UninstallOK, Books, TypeOK, Journal
<1>4. \/ journal.target.payload \in Referenced
      \/ journal.target.payload \notin OnDisk
  <2>1. CASE cmd.op = "recover"
    BY <1>2, <1>3, <2>1 DEF Inv, Course, RecoveryOK, Referenced, ActivePayload, Target
  <2>2. CASE cmd.op = "uninstall"
    BY <1>2, <1>3, <2>2 DEF Inv, Course, UninstallOK, Referenced, OnDisk, Target
  <2>q. QED BY <1>2, <2>1, <2>2
<1>5. SidesOK'
  BY <1>1, <1>2, RaiseEnds DEF Or, Goto, SidesOK, Inv, Books, TypeOK
<1>6. Books'
  BY <1>2, <1>4, <1>5, BooksKept DEF Inv, Books, TypeOK, OnDisk
<1>7. CASE Raise
  BY <1>2, <1>6, <1>7, RaiseEnds, Ended
<1>8. ASSUME o = "done", Goto("drain"), cmd.op = "recover"
      PROVE Inv'
  <2>1. OnCourse' /\ RecoveryOK'
    BY <1>2, <1>3, <1>8, RecoveringRow
       DEF Goto, OnCourse, Inv, Course, RecoveryOK, CmdRow, Finishing
  <2>q. QED BY <1>6, <1>8, <2>1, RecoveryGoesOn, RecoveringRow DEF Goto, CmdRow
<1>9. ASSUME o = "done", Goto("retire"), cmd.op = "uninstall"
      PROVE Inv'
  <2>1. cmd'.op = "uninstall" /\ cmd'.at = "retire" /\ cmd' \in CmdRow
    BY <1>9, UninstallingRow DEF Goto, CmdRow
  <2>2. OnCourse' /\ UninstallOK'
    BY <1>2, <1>9, <2>1 DEF OnCourse, UninstallOK
  <2>q. QED BY <1>6, <1>9, <2>1, <2>2, UninstallGoesOn DEF Goto
<1>q. QED BY <1>1, <1>2, <1>7, <1>8, <1>9 DEF Or

\* An uninstall gives up a candidate that is not the active payload.
LEMMA CheckUninstallInv ==
  ASSUME Inv, CheckUninstall
  PROVE Inv'
<1>1. cmd.op = "uninstall" /\ cmd.at = "check" /\ UNCHANGED <<state, journal, menu>>
  BY DEF CheckUninstall, At
<1>2. journal # None => journal.target.payload \in Payload
  BY DEF Inv, Books, TypeOK, Journal, Target
<1>3. /\ disk' \in [Payload -> Condition] /\ OnDisk' \subseteq OnDisk
      /\ \/ Raise
         \/ journal = None /\ Goto("retire")
         \/ journal # None /\ journal.target.payload = ActivePayload /\ Goto("fix menu")
         \/ journal # None /\ disk'[journal.target.payload] = "absent" /\ Goto("unjournal")
  <2>1. CASE journal # None /\ journal.target.payload # ActivePayload
    <3>1. PICK o \in Outcome : /\ RemovePayload(journal.target.payload, o)
                               /\ Or(o, "unjournal")
      BY <2>1 DEF CheckUninstall
    <3>2. /\ disk' \in [Payload -> Condition] /\ OnDisk' \subseteq OnDisk
          /\ o # "failed" => disk'[journal.target.payload] = "absent"
      BY <1>2, <2>1, <3>1, Removed DEF RemovePayload
    <3>q. QED BY <2>1, <3>1, <3>2 DEF Or
  <2>2. CASE ~(journal # None /\ journal.target.payload # ActivePayload)
    BY <2>2 DEF CheckUninstall, Inv, Books, TypeOK, OnDisk
  <2>q. QED BY <2>1, <2>2
<1>4. fallback' \in Env \cup {None} /\ edited' = edited
  BY <1>1, <1>3, RaiseEnds, UninstallingRow DEF Goto, Inv, Books, TypeOK
<1>5. Books'
  BY <1>1, <1>3, <1>4, BooksKept DEF SidesOK, Inv, Books, TypeOK
<1>6. CASE Raise
  BY <1>1, <1>5, <1>6, RaiseEnds, Ended, UninstallingRow
<1>7. ActivePayload' = ActivePayload
  BY <1>1 DEF ActivePayload
<1>8. ASSUME NEW step \in {"retire", "fix menu", "unjournal"}, Goto(step),
             step = "retire" => journal = None,
             step = "fix menu" => journal # None /\ journal.target.payload = ActivePayload,
             step = "unjournal" => journal # None
                                   /\ disk'[journal.target.payload] = "absent"
      PROVE Inv'
  <2>1. cmd'.op = "uninstall" /\ cmd'.at = step /\ cmd' \in CmdRow
    BY <1>1, <1>8, UninstallingRow DEF Goto, CmdRow, Finishing
  <2>2. OnCourse' /\ UninstallOK'
    BY <1>1, <1>7, <1>8, <2>1 DEF OnCourse, UninstallOK, Finishing
  <2>q. QED BY <1>1, <1>5, <1>8, <2>1, <2>2, UninstallGoesOn DEF Goto
<1>q. QED BY <1>3, <1>6, <1>8

\* Nothing is active any more; all that was goes into the cleanup.
LEMMA RetireInv ==
  ASSUME Inv, Retire
  PROVE Inv'
<1>1. /\ cmd.op = "uninstall" /\ cmd.at = "retire" /\ UNCHANGED <<disk, journal, menu>>
      /\ \/ state.recovery \in {"none", "uninstalled"} /\ state' = state /\ Succeed
         \/ /\ state.active = None /\ state.recovery = "cleanup"
            /\ state' = state /\ Goto("remove menu")
         \/ /\ state.active # None
            /\ \E o \in Outcome : WriteState(Retired, o) /\ Or(o, "remove menu")
  BY DEF Retire, At
<1>2. journal = None /\ cmd # Idle
  BY <1>1, UninstallingRow DEF Inv, Course, UninstallOK
<1>3. ASSUME Books', Goto("remove menu"), state'.active = None,
             state'.recovery = "cleanup"
      PROVE Inv'
  <2>1. cmd'.op = "uninstall" /\ cmd'.at = "remove menu" /\ cmd' \in CmdRow
    BY <1>1, <1>3, UninstallingRow DEF Goto, CmdRow
  <2>2. OnCourse' /\ UninstallOK'
    BY <1>1, <1>2, <1>3, <2>1 DEF OnCourse, UninstallOK
  <2>q. QED BY <1>1, <1>3, <2>1, <2>2, UninstallGoesOn DEF Goto
<1>4. ASSUME state.recovery \in {"none", "uninstalled"}, state' = state, Succeed
      PROVE Inv'
  <2>1. /\ cmd' = Idle /\ UNCHANGED <<fallback, edited>>
        /\ result' = [op |-> "uninstall", ok |-> TRUE, target |-> cmd.target]
    BY <1>1, <1>4 DEF Succeed
  <2>2. Books'
    BY <1>1, <1>4, <2>1, BooksKept DEF SidesOK, Inv, Books, TypeOK, OnDisk
  <2>3. Course'
    BY <2>1 DEF Course, OnCourse, ActivationOK, RecoveryOK, RepairOK, UninstallOK,
                Activating, Idle, CmdRow
  <2>4. state.active = None /\ state.previous = None /\ state.cleanup = {}
    BY <1>4 DEF Inv, Books, TypeOK, WellFormed
  <2>5. Known = {}
    BY <1>2, <2>4, ActivationAssumption DEF Known, Referenced, ActivePayload
  <2>6. OnDisk' = {}
    BY <1>1, <2>5 DEF Inv, Books, NothingOrphaned, OnDisk
  <2>7. Delivered'
    BY <1>1, <1>2, <1>4, <2>1, <2>6 DEF Delivered, Delivers
  <2>q. QED BY <2>2, <2>3, <2>7 DEF Inv
<1>5. ASSUME state.active = None, state.recovery = "cleanup", state' = state,
             Goto("remove menu")
      PROVE Inv'
  <2>1. Books'
    BY <1>1, <1>2, <1>5, Quiet DEF Goto, Inv, Books, TypeOK
  <2>q. QED BY <1>3, <1>5, <2>1
<1>6. ASSUME state.active # None, NEW o \in Outcome, WriteState(Retired, o),
             Or(o, "remove menu")
      PROVE Inv'
  <2>1. SidesOK'
    BY <1>1, <1>2, <1>6, RaiseEnds DEF Or, Goto, SidesOK, Inv, Books, TypeOK
  <2>2. /\ state \in Document /\ state.generation + 1 \in Nat
        /\ (state.cleanup \cup {ActivePayload, state.previous}) \ {None} \in SUBSET Payload
        /\ state.menu # None
    <3>1. state \in Document /\ WellFormed
      BY DEF Inv, Books, TypeOK
    <3>2. state.generation + 1 \in Nat
      BY <3>1 DEF Document
    <3>3. /\ ActivePayload \in Payload /\ state.previous \in Payload \cup {None}
          /\ state.cleanup \in SUBSET Payload
      BY <1>6, <3>1 DEF Document, ActivePayload, Target
    <3>4. EntryOf(state.active) \in Entry
      BY <1>6, <3>1 DEF EntryOf, Entry, Document, Target
    <3>5. state.menu # None
      BY <1>6, <3>1, <3>4, ActivationAssumption DEF WellFormed
    <3>q. QED BY <3>1, <3>2, <3>3, <3>5
  <2>3. CASE o = "failed"
    <3>1. Books'
      BY <1>1, <1>6, <2>1, <2>3, BooksKept DEF WriteState, Inv, Books, TypeOK, OnDisk
    <3>q. QED BY <1>2, <1>6, <2>3, <3>1, RaiseEnds, Ended DEF Or
  <2>4. CASE o # "failed"
    <3>1. /\ state'.active = None /\ state'.previous = None /\ state'.recovery = "cleanup"
          /\ state'.cleanup = (state.cleanup \cup {ActivePayload, state.previous}) \ {None}
          /\ state'.menu = state.menu /\ state'.generation = state.generation + 1
      BY <1>6, <2>2, <2>4 DEF WriteState, Retired, Document
    <3>2. state' \in Document
      BY <1>6, <2>2, <2>4 DEF WriteState, Retired, Document
    <3>3. ActivePayload' = None
      BY <3>1 DEF ActivePayload
    <3>4. WellFormed' /\ MarkOK'
      BY <2>2, <3>1, <3>3 DEF WellFormed, MarkOK
    <3>5. Known \subseteq Known'
      BY <1>1, <1>2, <3>1, <3>3, ActivationAssumption DEF Known, Referenced
    <3>6. Books'
      BY <1>1, <1>2, <2>1, <3>1, <3>2, <3>4, <3>5, BooksWritten DEF Inv
    <3>7. CASE Raise
      BY <1>2, <3>6, <3>7, RaiseEnds, Ended
    <3>q. QED BY <1>3, <1>6, <3>1, <3>6, <3>7 DEF Or
  <2>q. QED BY <2>3, <2>4
<1>q. QED BY <1>1, <1>4, <1>5, <1>6

\* The entry goes before the payloads do.
LEMMA RemoveEntryInv ==
  ASSUME Inv, RemoveEntry
  PROVE Inv'
<1>1. /\ cmd.op = "uninstall" /\ cmd.at = "remove menu" /\ UNCHANGED <<disk, state, journal>>
      /\ menu' \in {menu, None} /\ (Raise \/ Goto("drain"))
  BY DEF RemoveEntry, At
<1>2. journal = None /\ state.active = None /\ state.recovery = "cleanup" /\ cmd # Idle
  BY <1>1, UninstallingRow DEF Inv, Course, UninstallOK
<1>3. Books' /\ (Raise => Inv')
  BY <1>1, <1>2, Quiet DEF Goto, Inv, Books, TypeOK
<1>4. ASSUME Goto("drain")
      PROVE Inv'
  <2>1. cmd'.op = "uninstall" /\ cmd'.at = "drain" /\ cmd' \in CmdRow
    BY <1>1, <1>4, UninstallingRow DEF Goto, CmdRow, Finishing
  <2>2. OnCourse' /\ UninstallOK'
    BY <1>1, <1>2, <2>1 DEF OnCourse, UninstallOK, Finishing
  <2>q. QED BY <1>1, <1>3, <1>4, <2>1, <2>2, UninstallGoesOn DEF Goto
<1>q. QED BY <1>1, <1>3, <1>4

(***************************************************************************)
(* The invariant and what follows from it.                                 *)
(***************************************************************************)
\* Every step of every command, a kill and a change of somebody else's keep Inv.
LEMMA InvInductive == Inv /\ [Next]_vars => Inv'
<1> SUFFICES ASSUME Inv, [Next]_vars PROVE Inv'
  OBVIOUS
<1>1. CASE Install
  BY <1>1, BeginInstallInv, BeginRedownloadInv, DiscardCandidateInv, ForgetCandidateInv,
     StageReleaseInv, WriteJournalInv, RenamePayloadInv, InstallCandidateMenuInv,
     PublishCandidateInv, CloseJournalInv DEF Install
<1>2. CASE Cleanup
  BY <1>2, DrainOneInv, DropOneInv, SettleInv DEF Cleanup
<1>3. CASE Repair
  BY <1>3, BeginRepairInv, CheckJournalInv, RecoverMenuInv, PublishRecoveredInv,
     CheckActiveInv, RebindMenuInv, PublishReboundInv DEF Repair
<1>4. CASE Uninstall
  BY <1>4, BeginUninstallInv, CheckUninstallInv, RetireInv, RemoveEntryInv DEF Uninstall
<1>5. CASE RepairJournalMenu \/ RemoveOldJournal
  BY <1>5, RepairJournalMenuInv, RemoveOldJournalInv
<1>6. CASE Kill \/ EditMenu \/ \E p \in Payload : Tamper(p)
  BY <1>6, KillInv, EditMenuInv, TamperInv
<1>7. CASE UNCHANGED vars
  <2>1. UNCHANGED <<disk, state, journal, menu, cmd, fallback, result, edited>>
    BY <1>7 DEF vars
  <2>2. Books'
    BY <2>1, BooksKept DEF SidesOK, Inv, Books, TypeOK, OnDisk
  <2>3. /\ ActivePayload' = ActivePayload /\ Known' = Known /\ Rebound' = Rebound
        /\ OnDisk' = OnDisk
    BY <2>1 DEF ActivePayload, Known, Referenced, Rebound, OnDisk
  <2>4. OnCourse'
    BY <2>1 DEF Inv, Course, OnCourse
  <2>a. ActivationOK'
    BY <2>1, <2>3 DEF Inv, Course, ActivationOK, Live
  <2>5. RecoveryOK' /\ RepairOK' /\ UninstallOK'
    BY <2>1, <2>3 DEF Inv, Course, RecoveryOK, RepairOK, UninstallOK, Live
  <2>6. Delivered'
    BY <2>1, <2>3 DEF Inv, Delivered, Delivers
  <2>q. QED BY <2>2, <2>4, <2>a, <2>5, <2>6 DEF Inv, Course
<1>q. QED BY <1>1, <1>2, <1>3, <1>4, <1>5, <1>6, <1>7 DEF Next

\* Inv holds in every state of every history of commands, errors and kills.
THEOREM InvAlways == Spec => []Inv
BY InitInv, InvInductive, PTL DEF Spec

\* Every state document and journal the installer leaves behind is one the next
\* command can read (_validate_state_shape, _decode_journal), whatever was killed.
THEOREM TypeCorrect == Spec => []TypeOK
<1>1. Inv => TypeOK
  BY DEF Inv, Books
<1>q. QED BY <1>1, InvAlways, PTL

\* Whatever is under versions is named by the state or by the journal, so recovery
\* and cleanup can find it.
THEOREM NothingOrphanedAlways == Spec => []NothingOrphaned
<1>1. Inv => NothingOrphaned
  BY DEF Inv, Books
<1>q. QED BY <1>1, InvAlways, PTL

\* A journal on disk is of the activation the state expects or already shows:
\* recover_interrupted_activation never finds one that matches neither.
THEOREM JournalIsCurrentAlways == Spec => []JournalIsCurrent
<1>1. Inv => JournalIsCurrent
  BY DEF Inv, Books, JournalOK, JournalIsCurrent
<1>q. QED BY <1>1, InvAlways, PTL

\* An install, update, repair or uninstall that reports success has done what it
\* reports, as far as nobody else changed it since.
THEOREM DeliversAlways == Spec => []Delivers
<1>1. Inv => Delivers
  BY DEF Inv, Delivered
<1>q. QED BY <1>1, InvAlways, PTL

(***************************************************************************)
(* What a launch sees: the active payload and which payloads are whole.    *)
(***************************************************************************)
PointerStep == [Pointer!Next]_(Pointer!vars)

\* Nothing a launch sees changes.
LEMMA SeesNothing ==
  ASSUME ActivePayload' = ActivePayload,
         \A q \in Payload : \/ disk'[q] = disk[q]
                            \/ {disk[q], disk'[q]} \subseteq {"absent", "staged", "partial"}
  PROVE PointerStep
<1>1. whole' = whole /\ spoiled' = spoiled
  BY DEF whole, spoiled
<1>q. QED BY <1>1 DEF PointerStep, Pointer!vars

\* Nor does it by a step that leaves the disk and the active payload.
LEMMA SeesNoDisk ==
  ASSUME disk' = disk, ActivePayload' = ActivePayload
  PROVE PointerStep
BY SeesNothing

\* A payload that is taken away is not the active one.
LEMMA SeesRemoval ==
  ASSUME NEW p \in Payload, p # ActivePayload, state' = state,
         \/ disk'[p] \in {"absent", "partial"}
         \/ disk'[p] = disk[p],
         \A q \in Payload \ {p} : disk'[q] = disk[q]
  PROVE PointerStep
<1>1. ActivePayload' = ActivePayload
  BY DEF ActivePayload
<1>2. CASE disk'[p] = disk[p] \/ disk[p] \in {"absent", "staged", "partial"}
  BY <1>1, <1>2, SeesNothing
<1>3. CASE disk'[p] \in {"absent", "partial"} /\ disk[p] \in {"complete", "changed"}
  <2>1. /\ p \in whole \cup spoiled
        /\ whole' = whole \ {p} /\ spoiled' = spoiled \ {p}
    BY <1>3 DEF whole, spoiled
  <2>2. Pointer!Remove(p)
    BY <1>1, <2>1 DEF Pointer!Remove
  <2>q. QED BY <2>2 DEF PointerStep, Pointer!Next
<1>4. CASE disk'[p] \in {"absent", "partial"} /\ disk[p] \notin {"complete", "changed"}
  <2>1. whole' = whole /\ spoiled' = spoiled
    BY <1>4 DEF whole, spoiled
  <2>q. QED BY <1>1, <2>1 DEF PointerStep, Pointer!vars
<1>q. QED BY <1>2, <1>3, <1>4

\* The active payload only ever becomes one that is there.
LEMMA SeesActivation ==
  ASSUME NEW p \in Payload, Live(p), p # ActivePayload, disk' = disk, ActivePayload' = p
  PROVE PointerStep
<1>1. p \in whole \cup spoiled /\ whole' = whole /\ spoiled' = spoiled
  BY DEF Live, whole, spoiled
<1>2. Pointer!Activate(p)
  BY <1>1 DEF Pointer!Activate
<1>q. QED BY <1>2 DEF PointerStep, Pointer!Next

\* What a removal leaves of the other payloads and of its own.
LEMMA RemovedSteps ==
  ASSUME Inv, NEW p \in Payload, NEW o, p # ActivePayload, state' = state,
         \/ o # "failed" /\ disk' = [disk EXCEPT ![p] = "absent"]
         \/ o = "failed" /\ disk' = disk
         \/ o = "failed" /\ disk[p] \in {"complete", "partial", "changed"}
            /\ disk' = [disk EXCEPT ![p] = "partial"]
  PROVE PointerStep
<1>1. disk \in [Payload -> Condition]
  BY DEF Inv, Books, TypeOK
<1>2. /\ disk'[p] \in {"absent", "partial"} \/ disk'[p] = disk[p]
      /\ \A q \in Payload \ {p} : disk'[q] = disk[q]
  BY <1>1
<1>q. QED BY <1>2, SeesRemoval

\* A stage is nothing a launch sees.
LEMMA SweepStep ==
  ASSUME disk' = Swept, state' = state
  PROVE PointerStep
<1>1. \A q \in Payload : disk'[q] = disk[q] \/ (disk[q] = "staged" /\ disk'[q] = "absent")
  BY DEF Swept
<1>2. ActivePayload' = ActivePayload
  BY DEF ActivePayload
<1>q. QED BY <1>1, <1>2, SeesNothing

\* A rename is an arrival and a publication the activation.
LEMMA InstallStep ==
  ASSUME Inv, Install
  PROVE PointerStep
<1>1. CASE \E env \in Env : BeginInstall(env) \/ BeginRedownload(env)
  BY <1>1, SweepStep DEF BeginInstall, BeginRedownload, Begin
<1>2. CASE DiscardCandidate
  <2>1. state' = state /\ (journal # None => journal.target.payload \in Payload)
    BY <1>2 DEF DiscardCandidate, Inv, Books, TypeOK, Journal, Target
  <2>2. CASE journal # None /\ journal.target.payload \notin Referenced
    <3>1. PICK o \in Outcome : RemovePayload(journal.target.payload, o)
      BY <1>2, <2>2 DEF DiscardCandidate
    <3>2. journal.target.payload # ActivePayload
      BY <2>1, <2>2 DEF Referenced
    <3>q. QED BY <2>1, <2>2, <3>1, <3>2, RemovedSteps DEF RemovePayload
  <2>3. CASE ~(journal # None /\ journal.target.payload \notin Referenced)
    BY <1>2, <2>1, <2>3, SeesNoDisk DEF DiscardCandidate, ActivePayload
  <2>q. QED BY <2>2, <2>3
<1>3. CASE ForgetCandidate \/ InstallCandidateMenu \/ CloseJournal
  BY <1>3, SeesNoDisk DEF ForgetCandidate, InstallCandidateMenu, CloseJournal, ActivePayload
<1>4. CASE StageRelease
  <2>1. disk \in [Payload -> Condition] /\ state' = state
    BY <1>4 DEF StageRelease, Inv, Books, TypeOK
  <2>2. \A q \in Payload : \/ disk'[q] = disk[q]
                           \/ disk[q] = "absent" /\ disk'[q] = "staged"
    BY <1>4, <2>1 DEF StageRelease
  <2>q. QED BY <2>1, <2>2, SeesNothing DEF ActivePayload
<1>5. CASE WriteJournal
  <2>1. /\ disk \in [Payload -> Condition] /\ state' = state
        /\ disk[cmd.target.payload] = "staged"
    BY <1>5 DEF WriteJournal, At, Inv, Books, TypeOK, Course, ActivationOK
  <2>2. disk' = disk \/ disk' = [disk EXCEPT ![cmd.target.payload] = "absent"]
    BY <1>5 DEF WriteJournal
  <2>3. \A q \in Payload : \/ disk'[q] = disk[q]
                           \/ disk[q] = "staged" /\ disk'[q] = "absent"
    BY <2>1, <2>2
  <2>q. QED BY <2>1, <2>3, SeesNothing DEF ActivePayload
<1>6. CASE RenamePayload
  <2> DEFINE p == cmd.target.payload
  <2>1. /\ disk \in [Payload -> Condition] /\ state' = state
        /\ disk[p] = "staged" /\ p \in Payload /\ p \notin Referenced
    <3>1. cmd.op \in Activating /\ cmd.at = "rename" /\ state' = state
      BY <1>6 DEF RenamePayload, At
    <3>2. /\ disk[p] = "staged" /\ journal # None /\ journal.target = cmd.target
          /\ journal.expected = state.generation /\ cmd.target \in Target
      BY <3>1, ActivatingRow DEF Inv, Course, ActivationOK
    <3>3. p \notin Referenced
      BY <3>2 DEF Inv, Books, JournalOK
    <3>q. QED BY <3>1, <3>2, <3>3 DEF Target, Inv, Books, TypeOK
  <2>2. \/ disk' = [disk EXCEPT ![p] = "absent"]
        \/ disk' = [disk EXCEPT ![p] = "complete"]
    <3>1. PICK o \in Outcome :
            disk' = [disk EXCEPT ![p] = IF o = "failed" THEN "absent" ELSE "complete"]
      BY <1>6 DEF RenamePayload
    <3>q. QED BY <3>1
  <2>3. ActivePayload' = ActivePayload
    BY <2>1 DEF ActivePayload
  <2>4. CASE disk' = [disk EXCEPT ![p] = "absent"]
    <3>1. \A q \in Payload : \/ disk'[q] = disk[q]
                             \/ disk[q] = "staged" /\ disk'[q] = "absent"
      BY <2>1, <2>4
    <3>q. QED BY <2>3, <3>1, SeesNothing
  <2>5. CASE disk' = [disk EXCEPT ![p] = "complete"]
    <3>1. /\ p \notin whole \cup spoiled \cup {ActivePayload}
          /\ whole' = whole \cup {p} /\ spoiled' = spoiled
      BY <2>1, <2>5 DEF whole, spoiled, Referenced
    <3>2. Pointer!Arrive(p)
      BY <2>3, <3>1 DEF Pointer!Arrive
    <3>q. QED BY <2>1, <3>2 DEF PointerStep, Pointer!Next
  <2>q. QED BY <2>2, <2>4, <2>5
<1>7. CASE PublishCandidate
  <2>1. PICK o \in Outcome : WriteState(Published(cmd.target), o)
    BY <1>7 DEF PublishCandidate
  <2>2. cmd.op \in Activating /\ cmd.at = "publish" /\ disk' = disk
    BY <1>7 DEF PublishCandidate, At
  <2>3. /\ cmd.target \in Target /\ Live(cmd.target.payload) /\ state.cleanup = {}
        /\ journal # None /\ journal.target = cmd.target
        /\ journal.expected = state.generation
    BY <2>2, ActivatingRow DEF Inv, Course, ActivationOK, Preparing
  <2>4. cmd.target.payload \notin Referenced
    BY <2>3 DEF Inv, Books, JournalOK
  <2>5. CASE o = "failed"
    BY <2>1, <2>2, <2>5, SeesNoDisk DEF WriteState, ActivePayload
  <2>6. CASE o # "failed"
    <3>1. state'.active = cmd.target /\ cmd.target # None
      BY <2>1, <2>3, <2>4, <2>6, PublishedRow, ActivationAssumption
         DEF WriteState, Document
    <3>2. /\ ActivePayload' = cmd.target.payload /\ cmd.target.payload \in Payload
          /\ cmd.target.payload # ActivePayload
      BY <2>3, <2>4, <3>1, PublishedRow DEF ActivePayload
    <3>q. QED BY <2>2, <2>3, <3>2, SeesActivation
  <2>q. QED BY <2>5, <2>6
<1>q. QED BY <1>1, <1>2, <1>3, <1>4, <1>5, <1>6, <1>7 DEF Install

\* The cleanup removes what is not active.
LEMMA CleanupStep ==
  ASSUME Inv, Cleanup
  PROVE PointerStep
<1>1. CASE DrainOne
  <2>1. PICK p \in state.cleanup, o \in Outcome : RemovePayload(p, o)
    BY <1>1 DEF DrainOne
  <2>2. p \in Payload /\ p # ActivePayload /\ state' = state
    BY <1>1, CleanupApart DEF DrainOne
  <2>q. QED BY <2>1, <2>2, RemovedSteps DEF RemovePayload
<1>2. CASE DropOne
  <2>1. state'.active = state.active /\ disk' = disk
    BY <1>2 DEF DropOne, WriteState, Inv, Books, TypeOK, Document
  <2>q. QED BY <2>1, SeesNoDisk DEF ActivePayload
<1>3. CASE Settle
  <2>1. state'.active = state.active /\ disk' = disk
    BY <1>3, FinalRow DEF Settle, WriteState, Document
  <2>q. QED BY <2>1, SeesNoDisk DEF ActivePayload
<1>q. QED BY <1>1, <1>2, <1>3 DEF Cleanup

\* A recovery activates; a repair keeps the active payload.
LEMMA RepairStep ==
  ASSUME Inv, Repair
  PROVE PointerStep
<1>1. CASE \E env \in Env : BeginRepair(env)
  BY <1>1, SweepStep DEF BeginRepair, Begin
<1>2. CASE CheckJournal \/ RecoverMenu \/ CheckActive \/ RebindMenu
  BY <1>2, SeesNoDisk
     DEF CheckJournal, RecoverMenu, CheckActive, RebindMenu, PutEntry, ActivePayload
<1>3. CASE PublishRecovered
  <2>1. PICK o \in Outcome : WriteState(Published(journal.target), o)
    BY <1>3 DEF PublishRecovered
  <2>2. cmd.op = "recover" /\ cmd.at = "publish" /\ disk' = disk
    BY <1>3 DEF PublishRecovered, At
  <2>3. /\ journal.target \in Target /\ Live(journal.target.payload)
        /\ journal.target.payload \notin Referenced /\ state.cleanup = {}
    BY <2>2, RecoveringRow DEF Inv, Course, RecoveryOK, Books, JournalOK
  <2>4. CASE o = "failed"
    BY <2>1, <2>2, <2>4, SeesNoDisk DEF WriteState, ActivePayload
  <2>5. CASE o # "failed"
    <3>1. state'.active = journal.target /\ journal.target # None
      BY <2>1, <2>3, <2>5, PublishedRow, ActivationAssumption DEF WriteState, Document
    <3>2. /\ ActivePayload' = journal.target.payload /\ journal.target.payload \in Payload
          /\ journal.target.payload # ActivePayload
      BY <2>3, <3>1, PublishedRow DEF ActivePayload
    <3>q. QED BY <2>2, <2>3, <3>2, SeesActivation
  <2>q. QED BY <2>4, <2>5
<1>4. CASE PublishRebound
  <2>1. cmd.op = "repair" /\ cmd.at = "publish" /\ disk' = disk
    BY <1>4 DEF PublishRebound, At
  <2>2. /\ state.active # None /\ Rebound # None /\ Rebound.payload = ActivePayload
    BY <2>1, RepairingRow, ActivationAssumption DEF Inv, Course, RepairOK, Rebound
  <2>3. state' = state \/ state'.active = Rebound
    BY <1>4 DEF PublishRebound, WriteState, Inv, Books, TypeOK, Document
  <2>q. QED BY <2>1, <2>2, <2>3, SeesNoDisk DEF ActivePayload
<1>q. QED BY <1>1, <1>2, <1>3, <1>4 DEF Repair

\* An uninstall deactivates.
LEMMA UninstallStep ==
  ASSUME Inv, Uninstall
  PROVE PointerStep
<1>1. CASE BeginUninstall
  BY <1>1, SweepStep DEF BeginUninstall, Begin
<1>2. CASE CheckUninstall
  <2>1. state' = state /\ (journal # None => journal.target.payload \in Payload)
    BY <1>2 DEF CheckUninstall, Inv, Books, TypeOK, Journal, Target
  <2>2. CASE journal # None /\ journal.target.payload # ActivePayload
    <3>1. PICK o \in Outcome : RemovePayload(journal.target.payload, o)
      BY <1>2, <2>2 DEF CheckUninstall
    <3>q. QED BY <2>1, <2>2, <3>1, RemovedSteps DEF RemovePayload
  <2>3. CASE ~(journal # None /\ journal.target.payload # ActivePayload)
    BY <1>2, <2>1, <2>3, SeesNoDisk DEF CheckUninstall, ActivePayload
  <2>q. QED BY <2>2, <2>3
<1>3. CASE Retire
  <2>1. disk' = disk
    BY <1>3 DEF Retire
  <2>2. CASE state' = state
    BY <2>1, <2>2, SeesNoDisk DEF ActivePayload
  <2>3. CASE state' # state
    <3>1. state.active # None /\ state'.active = None
      BY <1>3, <2>3 DEF Retire, WriteState, Retired, Inv, Books, TypeOK, Document
    <3>2. ActivePayload # None /\ ActivePayload' = None
      BY <3>1, ActivationAssumption
         DEF ActivePayload, Inv, Books, TypeOK, Document, Target
    <3>3. Pointer!Deactivate
      BY <2>1, <3>2 DEF Pointer!Deactivate, whole, spoiled
    <3>q. QED BY <3>3 DEF PointerStep, Pointer!Next
  <2>q. QED BY <2>2, <2>3
<1>4. CASE RemoveEntry
  BY <1>4, SeesNoDisk DEF RemoveEntry, ActivePayload
<1>q. QED BY <1>1, <1>2, <1>3, <1>4 DEF Uninstall

\* Somebody else spoils a payload; a kill and a menu entry are not seen.
LEMMA OutsideStep ==
  ASSUME Inv, Kill \/ EditMenu \/ \E p \in Payload : Tamper(p)
  PROVE PointerStep
<1>1. CASE Kill \/ EditMenu
  BY <1>1, SeesNoDisk DEF Kill, EditMenu, ActivePayload
<1>2. ASSUME NEW p \in Payload, Tamper(p)
      PROVE PointerStep
  <2>1. /\ disk[p] = "complete" /\ disk' = [disk EXCEPT ![p] = "changed"]
        /\ state' = state /\ disk \in [Payload -> Condition]
    BY <1>2 DEF Tamper, Inv, Books, TypeOK
  <2>2. p \in whole /\ whole' = whole \ {p} /\ spoiled' = spoiled \cup {p}
    BY <2>1 DEF whole, spoiled
  <2>3. Pointer!Spoil(p)
    BY <2>1, <2>2 DEF Pointer!Spoil, ActivePayload
  <2>q. QED BY <2>3 DEF PointerStep, Pointer!Next
<1>q. QED BY <1>1, <1>2

\* Every step is one of ActivationPointer or changes nothing it sees.
LEMMA PointerSteps == Inv /\ [Next]_vars => PointerStep
<1> SUFFICES ASSUME Inv, [Next]_vars PROVE PointerStep
  OBVIOUS
<1>1. CASE RepairJournalMenu \/ RemoveOldJournal
  BY <1>1, SeesNoDisk DEF RepairJournalMenu, RemoveOldJournal, PutEntry, ActivePayload
<1>2. CASE UNCHANGED vars
  BY <1>2, SeesNoDisk DEF vars, ActivePayload
<1>q. QED BY <1>1, <1>2, InstallStep, CleanupStep, RepairStep, UninstallStep, OutsideStep
          DEF Next

\* No command, error or kill takes away the payload a launch would start: the pointer
\* moves in one step, only to a payload that is there, and what is removed is not it.
THEOREM PointerImplemented == Spec => ImplementsPointer
<1>1. Init => Pointer!Init
  BY DEF Init, Pointer!Init, ActivePayload, NoState, whole, spoiled
<1>2. Inv /\ [Next]_vars => [Pointer!Next]_(Pointer!vars)
  BY PointerSteps DEF PointerStep
<1>q. QED BY <1>1, <1>2, InvAlways, PTL DEF Spec, ImplementsPointer, Pointer!Spec
===============================================================================
