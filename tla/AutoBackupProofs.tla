-------------------------- MODULE AutoBackupProofs --------------------------
(***************************************************************************)
(* Proofs about AutoBackup, for every number of handlers, every choice of  *)
(* settings and every number of mishaps: the type invariant, the running   *)
(* flag that is never stuck, and the restorable copy that is always there. *)
(***************************************************************************)
EXTENDS AutoBackup, TLAPS

LEMMA HandlerFacts == /\ NoOne \notin Handlers
                      /\ Tickers \subseteq Handlers /\ Manuals \subseteq Handlers
                      /\ Exporters \subseteq Handlers
                      /\ (Tickers \cup Manuals) \cap Exporters = {}
BY AutoBackupAssumption DEF Handlers

Notes == [enabled : BOOLEAN, keep : BOOLEAN, next : NextRun]
Archives == [Handlers -> [state : Content, by : Handlers]]
Places == {"idle"} \cup Reading \cup Deciding \cup Exporting \cup Rotating \cup Closing

LEMMA TypeInit == Init => TypeOK
<1> SUFFICES ASSUME Init PROVE TypeOK
  OBVIOUS
<1>1. seen \in [Handlers -> Notes]
  BY DEF Init, NothingSeen, NextRun, Notes
<1>2. archive \in Archives
  BY DEF Init, NoFile, Content, Archives
<1>3. mishaps \in 0..MaxMishaps
  BY AutoBackupAssumption DEF Init
<1> QED
  BY <1>1, <1>2, <1>3 DEF Init, TypeOK, NextRun, Content, Notes, Archives

\* What a handler notes of the settings, and of the state, are notes.
LEMMA SettingsNoted ==
    ASSUME NEW s \in [Handlers -> Notes], NEW h \in Handlers,
           NEW v \in BOOLEAN, NEW w \in BOOLEAN
    PROVE  [s EXCEPT ![h].enabled = v, ![h].keep = w] \in [Handlers -> Notes]
BY Zenon DEF Notes

LEMMA StateNoted ==
    ASSUME NEW s \in [Handlers -> Notes], NEW h \in Handlers, NEW v \in NextRun
    PROVE  [s EXCEPT ![h].next = v] \in [Handlers -> Notes]
BY SMT DEF Notes

LEMMA NotesDropped ==
    ASSUME NEW s \in [Handlers -> Notes], NEW h \in Handlers
    PROVE  [s EXCEPT ![h] = NothingSeen] \in [Handlers -> Notes]
BY SMT DEF Notes, NothingSeen, NextRun

\* The archives that remain when a call returns are archives.
LEMMA ForgetsTyped ==
    ASSUME TypeOK, NEW h \in Handlers, NEW a \in [Handlers -> [state : Content, by : Handlers]],
           Forgets(h, a)
    PROVE  /\ name' \in [Handlers -> Handlers]
           /\ archive' \in [Handlers -> [state : Content, by : Handlers]]
BY DEF Forgets, NoFile, Content, TypeOK

\* The reading half of the handlers: they write nothing but nextRun.
LEMMA DecidingTyped ==
    ASSUME TypeOK, NEW h \in Handlers,
           \/ TickBegin(h) \/ StatusBegin(h) \/ ManualBegin(h) \/ ExportBegin(h)
           \/ ReadSettings(h) \/ ReadState(h) \/ TickDecide(h) \/ StatusDecide(h)
           \/ WriteFirst(h) \/ ManualDecide(h) \/ ManualSkip(h)
           \/ SaveState(h) \/ SaveFails(h) \/ ReadFails(h) \/ Release(h)
    PROVE  TypeOK'
<1> USE DEF files, settings, aux
<1>0. /\ seen \in [Handlers -> Notes]
      /\ "unset" \in NextRun /\ "later" \in NextRun /\ nextRun \in NextRun
      /\ seen[h].next \in NextRun
  BY DEF TypeOK, Notes, NextRun
<1>1. \A where \in Places : GoTo(h, where) => pc' \in [Handlers -> Places]
  BY DEF TypeOK, GoTo, Places
<1>2. UNCHANGED seen \/ Ends(h) \/ KeepsSettings(h) => seen' \in [Handlers -> Notes]
  BY <1>0, StateNoted, NotesDropped DEF Ends, KeepsSettings
<1>3. CASE \/ TickBegin(h) \/ StatusBegin(h) \/ ManualBegin(h) \/ ExportBegin(h)
  <2>1. pc' \in [Handlers -> Places]
    BY <1>1, <1>3 DEF TickBegin, StatusBegin, ManualBegin, ExportBegin,
                      Places, Reading, Deciding, Exporting
  <2> QED
    BY <1>3, <2>1 DEF TickBegin, StatusBegin, ManualBegin, ExportBegin, TypeOK, Places
<1>4. CASE ReadSettings(h) \/ ReadState(h)
  <2>1. pc' \in [Handlers -> Places]
    BY <1>1, <1>4 DEF ReadSettings, ReadState, Places, Reading, Deciding
  <2>2. seen' \in [Handlers -> Notes]
    <3>1. CASE ReadSettings(h)
      BY <1>0, <3>1, SettingsNoted, Zenon DEF ReadSettings, TypeOK
    <3>2. CASE ReadState(h)
      BY <1>0, <3>2, StateNoted, Zenon DEF ReadState
    <3> QED BY <1>4, <3>1, <3>2
  <2>3. UNCHANGED <<running, busy, settings, nextRun, name, archive, files, aux>>
    BY <1>4 DEF ReadSettings, ReadState
  <2> QED
    BY <2>1, <2>2, <2>3 DEF TypeOK, Notes, Places
<1>5. CASE TickDecide(h) \/ StatusDecide(h)
  <2>1. pc' \in [Handlers -> Places]
    BY <1>1, <1>5 DEF TickDecide, StatusDecide, Ends, Places, Reading, Exporting
  <2>2. seen' \in [Handlers -> Notes]
    BY <1>2, <1>5 DEF TickDecide, StatusDecide
  <2>3. UNCHANGED <<busy, settings, nextRun, name, archive, files, aux>> /\ running' \in BOOLEAN
    BY <1>5 DEF TickDecide, StatusDecide, TypeOK
  <2> QED
    BY <2>1, <2>2, <2>3 DEF TypeOK, Notes, Places
<1>6. CASE WriteFirst(h) \/ ManualDecide(h) \/ ManualSkip(h)
  <2>1. pc' \in [Handlers -> Places]
    BY <1>1, <1>6 DEF WriteFirst, ManualDecide, ManualSkip, Ends, Places, Deciding,
                      Exporting, Closing
  <2>2. seen' \in [Handlers -> Notes]
    BY <1>2, <1>6 DEF WriteFirst, ManualDecide, ManualSkip
  <2>3. UNCHANGED <<running, busy, settings, name, archive, files, aux>> /\ nextRun' \in NextRun
    BY <1>0, <1>6 DEF WriteFirst, ManualDecide, ManualSkip
  <2> QED
    BY <2>1, <2>2, <2>3 DEF TypeOK, Notes, Places
<1>7. CASE SaveState(h) \/ SaveFails(h) \/ ReadFails(h) \/ Release(h)
  <2>1. pc' \in [Handlers -> Places]
    BY <1>1, <1>7 DEF SaveState, SaveFails, ReadFails, Release, Ends, Places, Closing, Reading, Deciding
  <2>2. seen' \in [Handlers -> Notes]
    BY <1>2, <1>7 DEF SaveState, SaveFails, ReadFails, Release
  <2>3. /\ UNCHANGED <<busy, settings, name, archive, files, aux>>
        /\ nextRun' \in NextRun /\ running' \in BOOLEAN
    BY <1>0, <1>7 DEF SaveState, SaveFails, ReadFails, Release, TypeOK
  <2> QED
    BY <2>1, <2>2, <2>3 DEF TypeOK, Notes, Places
<1> QED BY <1>3, <1>4, <1>5, <1>6, <1>7

LEMMA ExportingTyped ==
    ASSUME TypeOK, NEW h \in Handlers,
           ChooseName(h) \/ EncryptHeader(h) \/ EncryptEnd(h) \/ ExportFails(h)
    PROVE  TypeOK'
<1> USE DEF GoTo, Ends, NothingSeen, files, settings, aux, At,
            Exporting, Rotating, Closing, NextRun
<1>1. CASE ChooseName(h)
  <2>1. name' \in [Handlers -> Handlers] /\ archive' \in Archives /\ shared' \in BOOLEAN
    <3>1. name \in [Handlers -> Handlers] /\ archive \in Archives
      BY DEF TypeOK, Archives
    <3>2. CASE /\ name' = [name EXCEPT ![h] = h]
               /\ archive' = [archive EXCEPT ![h] = NoFile(h)]
               /\ UNCHANGED shared
      BY <3>1, <3>2 DEF TypeOK, NoFile, Content, Archives
    <3>3. CASE /\ \E g \in Handlers : name' = [name EXCEPT ![h] = name[g]]
               /\ shared' = TRUE
               /\ UNCHANGED archive
      <4>1. PICK g \in Handlers : name' = [name EXCEPT ![h] = name[g]]
        BY <3>3
      <4> QED
        BY <3>1, <3>3, <4>1
    <3> QED
      BY <1>1, <3>2, <3>3 DEF ChooseName
  <2>2. pc' \in [Handlers -> Places]
    BY <1>1 DEF ChooseName, TypeOK, Places
  <2> QED
    BY <1>1, <2>1, <2>2 DEF ChooseName, TypeOK, Places, Archives
<1>2. CASE EncryptHeader(h)
  BY <1>2 DEF EncryptHeader, TypeOK, Content
<1>3. CASE EncryptEnd(h)
  <2> DEFINE outcome == IF archive[name[h]] = [state |-> "open", by |-> h]
                        THEN "whole" ELSE "broken"
             written == [archive EXCEPT ![name[h]] = [state |-> outcome, by |-> h]]
  <2>1. written \in [Handlers -> [state : Content, by : Handlers]]
    BY DEF TypeOK, Content
  <2>2. CASE h \in Exporters /\ Ends(h) /\ Forgets(h, written) /\ UNCHANGED busy
    BY <1>3, <2>1, <2>2, ForgetsTyped DEF EncryptEnd, TypeOK
  <2>3. CASE h \notin Exporters /\ archive' = written /\ GoTo(h, "copy") /\ busy' = h
              /\ UNCHANGED <<seen, name>>
    BY <1>3, <2>1, <2>3 DEF EncryptEnd, TypeOK
  <2> QED BY <1>3, <2>2, <2>3 DEF EncryptEnd
<1>4. CASE ExportFails(h)
  <2> DEFINE a == IF pc[h] = "streaming"
                  THEN [archive EXCEPT ![name[h]] = NoFile(h)] ELSE archive
  <2>1. a \in [Handlers -> [state : Content, by : Handlers]]
    BY DEF TypeOK, NoFile, Content
  <2>2. Forgets(h, a)
    BY <1>4 DEF ExportFails
  <2>3. name' \in [Handlers -> Handlers] /\ archive' \in Archives
    BY <2>1, <2>2, ForgetsTyped DEF Archives
  <2>4. pc' \in [Handlers -> Places] /\ seen' \in [Handlers -> Notes]
    <3>1. seen \in [Handlers -> Notes] /\ pc \in [Handlers -> Places]
      BY DEF TypeOK, Notes, Places
    <3>2. "idle" \in Places /\ "saveError" \in Places
      BY DEF Places
    <3>3. CASE Ends(h)
      BY <3>1, <3>2, <3>3, NotesDropped DEF Ends
    <3>4. CASE GoTo(h, "saveError") /\ UNCHANGED seen
      BY <3>1, <3>2, <3>4
    <3> QED
      BY <1>4, <3>3, <3>4 DEF ExportFails
  <2> QED
    BY <1>4, <2>3, <2>4 DEF ExportFails, TypeOK, Notes, Places, Archives
<1> QED BY <1>1, <1>2, <1>3, <1>4

LEMMA RotatingTyped ==
    ASSUME TypeOK, NEW h \in Handlers,
           \/ CopyToTemp(h) \/ DropPrevious(h) \/ PromoteCurrent(h) \/ DropCurrent(h)
           \/ DropBoth(h) \/ Install(h) \/ DropArchive(h) \/ RotationFails(h)
    PROVE  TypeOK'
<1> USE DEF GoTo, settings, files, aux, At, Exporting, Rotating, Closing
<1>1. CASE CopyToTemp(h)
  <2>1. archive[name[h]].state \in Content
    BY DEF TypeOK
  <2> QED BY <1>1, <2>1 DEF CopyToTemp, TypeOK
<1>2. CASE DropPrevious(h)
  BY <1>2 DEF DropPrevious, TypeOK, Content
<1>3. CASE PromoteCurrent(h)
  BY <1>3 DEF PromoteCurrent, TypeOK, Content
<1>7. CASE DropCurrent(h)
  BY <1>7 DEF DropCurrent, TypeOK, Content
<1>8. CASE DropBoth(h)
  BY <1>8 DEF DropBoth, TypeOK, Content
<1>4. CASE Install(h)
  BY <1>4 DEF Install, TypeOK, Content
<1>5. CASE DropArchive(h)
  <2>1. [archive EXCEPT ![name[h]] = NoFile(h)] \in [Handlers -> [state : Content, by : Handlers]]
    BY DEF TypeOK, NoFile, Content
  <2> QED BY <1>5, <2>1, ForgetsTyped DEF DropArchive, TypeOK
<1>6. CASE RotationFails(h)
  <2>1. /\ name' \in [Handlers -> Handlers]
        /\ archive' \in [Handlers -> [state : Content, by : Handlers]]
    BY <1>6, ForgetsTyped DEF RotationFails, TypeOK
  <2>2. mishaps' \in 0..MaxMishaps
    BY <1>6, AutoBackupAssumption DEF RotationFails, TypeOK
  <2>3. strays' \subseteq Content /\ temp' \in [Handlers -> Content]
    BY <1>6 DEF RotationFails, TypeOK, Content
  <2> QED BY <1>6, <2>1, <2>2, <2>3 DEF RotationFails, TypeOK
<1> QED BY <1>1, <1>2, <1>3, <1>4, <1>5, <1>6, <1>7, <1>8

LEMMA TypeStep == TypeOK /\ [Next]_vars => TypeOK'
<1> SUFFICES ASSUME TypeOK, [Next]_vars PROVE TypeOK'
  OBVIOUS
<1>1. CASE Crash
  <2>1. mishaps' \in 0..MaxMishaps
    BY <1>1, AutoBackupAssumption DEF Crash, TypeOK
  <2>2. strays' \subseteq Content
    BY <1>1 DEF Crash, TypeOK
  <2>3. /\ archive' \in [Handlers -> [state : Content, by : Handlers]]
        /\ temp' \in [Handlers -> Content]
    BY <1>1 DEF Crash, NoFile, Content
  <2>4. seen' \in [Handlers -> [enabled : BOOLEAN, keep : BOOLEAN, next : NextRun]]
    BY <1>1 DEF Crash, NothingSeen, NextRun
  <2> QED BY <1>1, <2>1, <2>2, <2>3, <2>4 DEF Crash, TypeOK, settings
<1>2. CASE TimePasses
  BY <1>2 DEF TimePasses, TypeOK, NextRun, files, settings, aux
<1>3. CASE ChangeSettings
  BY <1>3, AutoBackupAssumption DEF ChangeSettings, TypeOK, files, settings, aux
<1>4. CASE UNCHANGED vars
  BY <1>4 DEF vars, TypeOK
<1> QED
  BY <1>1, <1>2, <1>3, <1>4, DecidingTyped, ExportingTyped, RotatingTyped DEF Next, HandlerStep

\* Every variable keeps its type.
THEOREM TypeCorrect == Spec => []TypeOK
<1> QED BY TypeInit, TypeStep, PTL DEF Spec

----------------------------------------------------------------------------
(* The running flag.  A step of one handler leaves the others where they   *)
(* are; it raises the flag only on entering a run, and no step leaves a    *)
(* run but Release and Crash, which clear the flag.                        *)

LEMMA RunGoesOn ==
    ASSUME TypeOK, NEW h \in Handlers,
           \/ TickBegin(h) \/ StatusBegin(h) \/ ManualBegin(h) \/ ExportBegin(h)
           \/ HandlerStep(h) \/ ExportFails(h) \/ RotationFails(h) \/ SaveFails(h) \/ ReadFails(h),
           ~Release(h)
    PROVE  /\ \A g \in Handlers \ {h} : pc'[g] = pc[g]
           /\ running' => running \/ InRun(h)'
           /\ InRun(h) => InRun(h)'
<1> USE HandlerFacts DEF GoTo, Ends, InRun, At, Exporting, Rotating, Closing, Deciding
<1>0. pc \in [Handlers -> Places]
  BY DEF TypeOK, Places
<1>1. CASE TickBegin(h) \/ StatusBegin(h) \/ ManualBegin(h) \/ ExportBegin(h)
  BY <1>0, <1>1 DEF TickBegin, StatusBegin, ManualBegin, ExportBegin
<1>2. CASE ReadSettings(h) \/ ReadState(h) \/ TickDecide(h) \/ StatusDecide(h)
  BY <1>0, <1>2 DEF ReadSettings, ReadState, TickDecide, StatusDecide
<1>3. CASE WriteFirst(h) \/ ManualDecide(h) \/ ManualSkip(h) \/ SaveState(h) \/ SaveFails(h) \/ ReadFails(h)
  BY <1>0, <1>3 DEF WriteFirst, ManualDecide, ManualSkip, SaveState, SaveFails, ReadFails
<1>4. CASE ChooseName(h) \/ EncryptHeader(h) \/ EncryptEnd(h) \/ ExportFails(h)
  BY <1>0, <1>4 DEF ChooseName, EncryptHeader, EncryptEnd, ExportFails
<1>5. CASE \/ CopyToTemp(h) \/ DropPrevious(h) \/ PromoteCurrent(h) \/ DropCurrent(h)
           \/ DropBoth(h) \/ Install(h) \/ DropArchive(h) \/ RotationFails(h)
  BY <1>0, <1>5 DEF CopyToTemp, DropPrevious, PromoteCurrent, DropCurrent, DropBoth,
                    Install, DropArchive, RotationFails
<1> QED
  BY <1>1, <1>2, <1>3, <1>4, <1>5 DEF HandlerStep

LEMMA FlagStep == TypeOK /\ FlagNeverStuck /\ [Next]_vars => FlagNeverStuck'
<1> SUFFICES ASSUME TypeOK, FlagNeverStuck, [Next]_vars, running'
             PROVE  \E h \in Handlers : InRun(h)'
  BY DEF FlagNeverStuck
<1>1. CASE Crash
  BY <1>1 DEF Crash
<1>2. CASE UNCHANGED <<running, pc>>
  BY <1>2 DEF FlagNeverStuck, InRun
<1>3. ASSUME NEW h \in Handlers,
             \/ TickBegin(h) \/ StatusBegin(h) \/ ManualBegin(h) \/ ExportBegin(h)
             \/ HandlerStep(h) \/ ExportFails(h) \/ RotationFails(h) \/ SaveFails(h) \/ ReadFails(h)
      PROVE  \E g \in Handlers : InRun(g)'
  <2>1. ~Release(h)
    BY DEF Release
  <2>2. CASE InRun(h)'
    BY <2>2
  <2>3. CASE ~InRun(h)'
    <3>1. PICK g \in Handlers : InRun(g)
      BY <1>3, <2>1, <2>3, RunGoesOn DEF FlagNeverStuck
    <3>2. InRun(g)'
      BY <1>3, <2>1, <2>3, <3>1, RunGoesOn DEF InRun
    <3> QED
      BY <3>2
  <2> QED
    BY <2>2, <2>3
<1> QED
  BY <1>1, <1>2, <1>3 DEF Next, vars, TimePasses, ChangeSettings

\* FlagNeverStuck: whatever fails on the way, the flag runTick and
\* runAutoBackupNow look at is never left set without a run that will clear it.
THEOREM FlagCorrect == Spec => []FlagNeverStuck
<1>1. Init => FlagNeverStuck
  BY DEF Init, FlagNeverStuck
<1> QED
  BY <1>1, TypeInit, TypeStep, FlagStep, PTL DEF Spec

----------------------------------------------------------------------------
(* The restorable copy.  SomeCopyRestorable alone is not inductive: that a *)
(* rotation may delete previous and current rests on its temporary file    *)
(* being whole, that on the archive it copied, and that on nobody else     *)
(* having written under the archive's name.  Sheltered(h) says so of the   *)
(* place where handler h stands; it holds as long as no name was shared.   *)

AfterCopy == {"dropPrevious", "promote", "dropCurrent", "dropBoth", "install"}

Sheltered(h) ==
    /\ temp[h] # "absent" => pc[h] \in AfterCopy
    /\ ~shared => /\ name[h] = h
                  /\ pc[h] = "streaming" => archive[h] = [state |-> "open", by |-> h]
                  /\ pc[h] = "copy" => archive[h].state = "whole"
                  /\ pc[h] \in AfterCopy => temp[h] = "whole"

AllSheltered == \A h \in Handlers : Sheltered(h)

Moves(h) ==
    \/ TickBegin(h) \/ StatusBegin(h) \/ ManualBegin(h) \/ ExportBegin(h)
    \/ HandlerStep(h) \/ ExportFails(h) \/ RotationFails(h) \/ SaveFails(h) \/ ReadFails(h)

\* The steps that touch no file of an export or of a rotation.
Reads(h) ==
    \/ TickBegin(h) \/ StatusBegin(h) \/ ManualBegin(h) \/ ExportBegin(h)
    \/ ReadSettings(h) \/ ReadState(h) \/ TickDecide(h) \/ StatusDecide(h)
    \/ WriteFirst(h) \/ ManualDecide(h) \/ ManualSkip(h)
    \/ SaveState(h) \/ SaveFails(h) \/ ReadFails(h) \/ Release(h)

LEMMA ReadsTouchNoFile ==
    ASSUME TypeOK, NEW h \in Handlers, Reads(h)
    PROVE  /\ UNCHANGED <<name, archive, temp, strays, current, previous, saved, shared>>
           /\ \A g \in Handlers \ {h} : pc'[g] = pc[g]
           /\ pc[h] \notin AfterCopy
           /\ pc'[h] \notin AfterCopy \cup {"streaming", "copy"}
<1> USE DEF files, aux, GoTo, Ends, At, AfterCopy
<1>0. pc \in [Handlers -> Places]
  BY DEF TypeOK, Places
<1>1. CASE TickBegin(h) \/ StatusBegin(h) \/ ManualBegin(h) \/ ExportBegin(h)
  BY <1>0, <1>1 DEF TickBegin, StatusBegin, ManualBegin, ExportBegin
<1>2. CASE ReadSettings(h) \/ ReadState(h) \/ TickDecide(h) \/ StatusDecide(h)
  BY <1>0, <1>2 DEF ReadSettings, ReadState, TickDecide, StatusDecide
<1>3. CASE WriteFirst(h) \/ ManualDecide(h) \/ ManualSkip(h)
  BY <1>0, <1>3 DEF WriteFirst, ManualDecide, ManualSkip
<1>4. CASE SaveState(h) \/ SaveFails(h) \/ ReadFails(h) \/ Release(h)
  BY <1>0, <1>4 DEF SaveState, SaveFails, ReadFails, Release
<1> QED
  BY <1>1, <1>2, <1>3, <1>4 DEF Reads

\* The archive of an export survives the end of another call.
LEMMA ForgetsOwnOnly ==
    ASSUME TypeOK, NEW h \in Handlers, NEW a, Forgets(h, a),
           NEW g \in Handlers \ {h}, name[g] = g,
           pc[g] \in {"streaming", "copy"}
    PROVE  name'[g] = g /\ archive'[g] = a[g]
<1>1. Uses(g, g)
  BY DEF Uses, Exporting, Rotating
<1> QED
  BY <1>1 DEF Forgets, TypeOK

\* A step of h leaves the files of every other handler alone.
LEMMA OthersAlone ==
    ASSUME TypeOK, AllSheltered, NEW h \in Handlers, Moves(h), NEW g \in Handlers \ {h}
    PROVE  /\ pc'[g] = pc[g] /\ temp'[g] = temp[g] /\ (shared => shared')
           /\ ~shared => /\ name'[g] = g
                         /\ pc[g] \in {"streaming", "copy"} /\ ~shared' => archive'[g] = archive[g]
<1> USE DEF files, aux, GoTo, Ends, At
<1>0. /\ pc \in [Handlers -> Places] /\ temp \in [Handlers -> Content]
      /\ name \in [Handlers -> Handlers] /\ archive \in Archives
      /\ ~shared => name[g] = g /\ name[h] = h
  BY DEF TypeOK, Places, Archives, AllSheltered, Sheltered
<1>1. CASE Reads(h)
  BY <1>0, <1>1, ReadsTouchNoFile
<1>2. CASE ChooseName(h)
  BY <1>0, <1>2 DEF ChooseName, Archives
<1>3. CASE EncryptHeader(h)
  BY <1>0, <1>3 DEF EncryptHeader, Archives
<1>4. CASE EncryptEnd(h)
  <2> DEFINE written(o) == [archive EXCEPT ![name[h]] = [state |-> o, by |-> h]]
  <2>1. /\ pc'[g] = pc[g] /\ temp'[g] = temp[g] /\ UNCHANGED shared
    BY <1>0, <1>4 DEF EncryptEnd
  <2>2. PICK o : Forgets(h, written(o)) \/ (archive' = written(o) /\ UNCHANGED name)
    BY <1>4 DEF EncryptEnd
  <2>3. ~shared => written(o)[g] = archive[g]
    BY <1>0 DEF Archives
  <2>4. ~shared => name'[g] = g
    BY <1>0, <2>2 DEF Forgets
  <2>5. ASSUME ~shared, pc[g] \in {"streaming", "copy"}
        PROVE  archive'[g] = archive[g]
    <3>0. name[g] = g /\ written(o)[g] = archive[g]
      BY <1>0, <2>3, <2>5
    <3>1. CASE Forgets(h, written(o))
      <4> HIDE DEF written
      <4>1. archive'[g] = written(o)[g]
        BY <2>5, <3>0, <3>1, ForgetsOwnOnly
      <4> QED BY <3>0, <4>1
    <3>2. CASE archive' = written(o)
      BY <2>3, <2>5, <3>2
    <3> QED BY <2>2, <3>1, <3>2
  <2> QED
    BY <2>1, <2>4, <2>5
<1>5. CASE ExportFails(h) \/ DropArchive(h) \/ RotationFails(h)
  <2>1. /\ pc'[g] = pc[g] /\ temp'[g] = temp[g] /\ UNCHANGED shared
    BY <1>0, <1>5 DEF ExportFails, DropArchive, RotationFails
  <2>2. PICK a : /\ Forgets(h, a)
                 /\ a \in {archive, [archive EXCEPT ![name[h]] = NoFile(h)]}
    BY <1>5 DEF ExportFails, DropArchive, RotationFails
  <2>3. ~shared => a[g] = archive[g]
    BY <1>0, <2>2 DEF Archives
  <2>4. ~shared => name'[g] = g
    BY <1>0, <2>2 DEF Forgets
  <2>5. ~shared /\ pc[g] \in {"streaming", "copy"} => archive'[g] = archive[g]
    BY <1>0, <2>2, <2>3, ForgetsOwnOnly
  <2> QED
    BY <2>1, <2>4, <2>5
<1>6. CASE \/ CopyToTemp(h) \/ DropPrevious(h) \/ PromoteCurrent(h)
           \/ DropCurrent(h) \/ DropBoth(h) \/ Install(h)
  BY <1>0, <1>6 DEF CopyToTemp, DropPrevious, PromoteCurrent, DropCurrent, DropBoth, Install
<1> QED
  BY <1>1, <1>2, <1>3, <1>4, <1>5, <1>6 DEF Moves, HandlerStep, Reads

\* A step of h keeps h sheltered: the archive it closes is whole if it opened
\* it, what it copies from there is whole, and it leaves no temporary file.
LEMMA OwnSheltered ==
    ASSUME TypeOK, AllSheltered, NEW h \in Handlers, Moves(h)
    PROVE  Sheltered(h)'
<1> USE DEF files, aux, GoTo, Ends, At, AfterCopy
<1>0. /\ pc \in [Handlers -> Places] /\ temp \in [Handlers -> Content]
      /\ name \in [Handlers -> Handlers] /\ archive \in Archives
      /\ Sheltered(h)
  BY DEF TypeOK, Places, Archives, AllSheltered
<1>1. CASE Reads(h)
  BY <1>0, <1>1, ReadsTouchNoFile DEF Sheltered
<1>2. CASE ChooseName(h)
  BY <1>0, <1>2 DEF ChooseName, Sheltered
<1>3. CASE EncryptHeader(h)
  BY <1>0, <1>3 DEF EncryptHeader, Sheltered, Archives
<1>4. CASE EncryptEnd(h)
  <2> DEFINE outcome == IF archive[name[h]] = [state |-> "open", by |-> h]
                        THEN "whole" ELSE "broken"
             written == [archive EXCEPT ![name[h]] = [state |-> outcome, by |-> h]]
  <2>1. temp[h] = "absent" /\ UNCHANGED <<temp, shared>>
    BY <1>0, <1>4 DEF EncryptEnd, Sheltered
  <2>2. CASE Ends(h) /\ Forgets(h, written)
    BY <1>0, <2>1, <2>2 DEF Forgets, Sheltered
  <2>3. CASE archive' = written /\ GoTo(h, "copy") /\ UNCHANGED name
    <3>1. ~shared => name[h] = h /\ written[h].state = "whole"
      BY <1>0, <1>4 DEF EncryptEnd, Sheltered, Archives
    <3> QED
      BY <1>0, <2>1, <2>3, <3>1 DEF Sheltered
  <2> QED
    BY <1>4, <2>2, <2>3 DEF EncryptEnd
<1>5. CASE ExportFails(h) \/ DropArchive(h) \/ RotationFails(h)
  <2>1. name'[h] = h
    BY <1>0, <1>5 DEF ExportFails, DropArchive, RotationFails, Forgets
  <2>2. pc'[h] \notin AfterCopy \cup {"streaming", "copy"} /\ UNCHANGED shared
    BY <1>0, <1>5 DEF ExportFails, DropArchive, RotationFails
  <2>3. temp'[h] = "absent"
    BY <1>0, <1>5 DEF ExportFails, DropArchive, RotationFails, Sheltered, Exporting
  <2> QED
    BY <2>1, <2>2, <2>3 DEF Sheltered
<1>6. CASE \/ CopyToTemp(h) \/ DropPrevious(h) \/ PromoteCurrent(h)
           \/ DropCurrent(h) \/ DropBoth(h) \/ Install(h)
  BY <1>0, <1>6 DEF CopyToTemp, DropPrevious, PromoteCurrent, DropCurrent, DropBoth,
                    Install, Sheltered
<1> QED
  BY <1>1, <1>2, <1>3, <1>4, <1>5, <1>6 DEF Moves, HandlerStep, Reads

LEMMA ShelterStep == TypeOK /\ AllSheltered /\ [Next]_vars => AllSheltered'
<1> SUFFICES ASSUME TypeOK, AllSheltered, [Next]_vars PROVE AllSheltered'
  OBVIOUS
<1>1. CASE Crash
  BY <1>1 DEF Crash, AllSheltered, Sheltered, AfterCopy
<1>2. CASE UNCHANGED <<pc, name, archive, temp, shared>>
  BY <1>2 DEF AllSheltered, Sheltered
<1>3. ASSUME NEW h \in Handlers, Moves(h)
      PROVE  AllSheltered'
  <2>1. ASSUME NEW g \in Handlers \ {h}
        PROVE  Sheltered(g)'
    BY <1>3, <2>1, OthersAlone DEF AllSheltered, Sheltered
  <2>2. Sheltered(h)'
    BY <1>3, OwnSheltered
  <2> QED
    BY <2>1, <2>2 DEF AllSheltered
<1> QED
  BY <1>1, <1>2, <1>3
     DEF Next, Moves, vars, TimePasses, ChangeSettings, files, aux

\* What a step of h may do to the restorable files: it deletes or renames only
\* with a whole temporary file in hand, and installs nothing else.
LEMMA CopyStep ==
    ASSUME TypeOK, AllSheltered, SomeCopyRestorable, NEW h \in Handlers, Moves(h)
    PROVE  SomeCopyRestorable'
<1> USE DEF files, aux, GoTo, At, AfterCopy
<1>0. /\ pc \in [Handlers -> Places] /\ temp \in [Handlers -> Content]
      /\ Sheltered(h)
  BY DEF TypeOK, Places, AllSheltered
<1>1. CASE UNCHANGED <<temp, strays, current, previous, saved>> /\ (shared => shared')
  BY <1>1 DEF SomeCopyRestorable
<1>2. CASE DropPrevious(h) \/ PromoteCurrent(h) \/ DropCurrent(h) \/ DropBoth(h)
  <2>1. ~shared => temp[h] = "whole"
    BY <1>0, <1>2 DEF DropPrevious, PromoteCurrent, DropCurrent, DropBoth, Sheltered
  <2>2. UNCHANGED <<temp, shared>>
    BY <1>2 DEF DropPrevious, PromoteCurrent, DropCurrent, DropBoth
  <2> QED
    BY <2>1, <2>2 DEF SomeCopyRestorable
<1>3. CASE Install(h)
  <2>1. ~shared => current' = "whole"
    BY <1>0, <1>3 DEF Install, Sheltered
  <2> QED
    BY <1>3, <2>1 DEF Install, SomeCopyRestorable
<1>4. CASE CopyToTemp(h)
  <2>1. temp[h] = "absent"
    BY <1>0, <1>4 DEF CopyToTemp, Sheltered
  <2>2. \A g \in Handlers : temp[g] = "whole" => temp'[g] = "whole"
    BY <1>0, <1>4, <2>1 DEF CopyToTemp
  <2> QED
    BY <1>4, <2>2 DEF CopyToTemp, SomeCopyRestorable
<1>5. CASE RotationFails(h)
  <2>1. \A g \in Handlers : temp[g] = "whole" => temp'[g] = "whole" \/ "whole" \in strays'
    BY <1>0, <1>5 DEF RotationFails, Sheltered
  <2>2. "whole" \in strays => "whole" \in strays'
    BY <1>5 DEF RotationFails
  <2> QED
    BY <1>5, <2>1, <2>2 DEF RotationFails, SomeCopyRestorable
<1>6. CASE Reads(h)
  BY <1>1, <1>6, ReadsTouchNoFile
<1>7. CASE \/ ChooseName(h) \/ EncryptHeader(h) \/ EncryptEnd(h) \/ ExportFails(h)
           \/ DropArchive(h)
  BY <1>1, <1>7 DEF ChooseName, EncryptHeader, EncryptEnd, ExportFails, DropArchive
<1> QED
  BY <1>2, <1>3, <1>4, <1>5, <1>6, <1>7 DEF Moves, HandlerStep, Reads

\* SomeCopyRestorable: once executeAutoBackupRotation has installed a
\* restorable file, one is on disk between any two of its file operations and
\* after any number of crashes and errors, as long as no two exports shared a
\* file name.
THEOREM CopyCorrect == Spec => []SomeCopyRestorable
<1>1. Init => AllSheltered /\ SomeCopyRestorable
  BY DEF Init, AllSheltered, Sheltered, SomeCopyRestorable, AfterCopy
<1>2. TypeOK /\ AllSheltered /\ SomeCopyRestorable /\ [Next]_vars => SomeCopyRestorable'
  <2> SUFFICES ASSUME TypeOK, AllSheltered, SomeCopyRestorable, [Next]_vars
               PROVE  SomeCopyRestorable'
    OBVIOUS
  <2>1. CASE Crash
    <3>1. (\E g \in Handlers : temp[g] = "whole") => "whole" \in strays'
      BY <2>1 DEF Crash
    <3>2. "whole" \in strays => "whole" \in strays'
      BY <2>1 DEF Crash
    <3> QED
      BY <2>1, <3>1, <3>2 DEF Crash, SomeCopyRestorable
  <2>2. CASE UNCHANGED <<temp, strays, current, previous, saved, shared>>
    BY <2>2 DEF SomeCopyRestorable
  <2> QED
    BY <2>1, <2>2, CopyStep
       DEF Next, Moves, vars, TimePasses, ChangeSettings, files, aux
<1> QED
  BY <1>1, <1>2, TypeInit, TypeStep, ShelterStep, PTL DEF Spec

----------------------------------------------------------------------------
(* The two named files.  Between rotations one of them is restorable until *)
(* a second rotation was cut short: what a rotation that is cut short      *)
(* leaves depends on how far it came, so the invariant follows it step by  *)
(* step, and rests on rotations holding the event loop.                    *)

\* A rotation holds the event loop, and nobody else does.
RotatesAlone == \A h \in Handlers : pc[h] \in Rotating <=> busy = h

\* What the two named files hold, by where the rotation stands and by how often
\* one was cut short.
FilesHold ==
    \A h \in Handlers :
        /\ pc[h] \in {"copy", "dropPrevious", "promote", "dropCurrent"} /\ mishaps = 0
                => current = "whole"
        /\ pc[h] = "install" /\ mishaps = 0 => previous = "whole"
        /\ pc[h] = "dropArchive" => current = "whole"

AtRest ==
    busy = NoOne => /\ mishaps = 0 => current = "whole"
                    /\ mishaps = 1 => "whole" \in {current, previous}

RotationKept ==
    /\ RotatesAlone
    /\ \A h \in Handlers : pc[h] = "dropBoth" => unkept
    /\ saved /\ ~shared /\ ~unkept => FilesHold /\ AtRest

\* A step outside the rotations keeps what is said of them.
LEMMA OutsideKeeps ==
    ASSUME TypeOK, RotationKept, NEW h \in Handlers,
           pc[h] \notin Rotating, pc'[h] \notin Rotating,
           \A g \in Handlers \ {h} : pc'[g] = pc[g],
           UNCHANGED <<busy, current, previous, saved, unkept, mishaps>>, shared => shared'
    PROVE  RotationKept'
<1>1. RotatesAlone'
  BY DEF RotationKept, RotatesAlone
<1>2. \A g \in Handlers : pc'[g] \in Rotating => pc'[g] = pc[g]
  OBVIOUS
<1> QED BY <1>1, <1>2 DEF RotationKept, FilesHold, AtRest, Rotating

LEMMA ReadsOutside ==
    ASSUME TypeOK, NEW h \in Handlers, Reads(h)
    PROVE  /\ pc[h] \notin Rotating /\ pc'[h] \notin Rotating
           /\ \A g \in Handlers \ {h} : pc'[g] = pc[g]
           /\ UNCHANGED <<busy, current, previous, saved, unkept, mishaps, shared>>
<1> USE DEF files, aux, GoTo, Ends, At, Rotating
<1>0. pc \in [Handlers -> Places]
  BY DEF TypeOK, Places
<1>1. CASE TickBegin(h) \/ StatusBegin(h) \/ ManualBegin(h) \/ ExportBegin(h)
  BY <1>0, <1>1 DEF TickBegin, StatusBegin, ManualBegin, ExportBegin
<1>2. CASE ReadSettings(h) \/ ReadState(h) \/ TickDecide(h) \/ StatusDecide(h)
  BY <1>0, <1>2 DEF ReadSettings, ReadState, TickDecide, StatusDecide
<1>3. CASE WriteFirst(h) \/ ManualDecide(h) \/ ManualSkip(h)
  BY <1>0, <1>3 DEF WriteFirst, ManualDecide, ManualSkip
<1>4. CASE SaveState(h) \/ SaveFails(h) \/ ReadFails(h) \/ Release(h)
  BY <1>0, <1>4 DEF SaveState, SaveFails, ReadFails, Release
<1> QED
  BY <1>1, <1>2, <1>3, <1>4 DEF Reads

\* The steps of the rotation itself, with the event loop in hand.
LEMMA RotatingKeeps ==
    ASSUME TypeOK, AllSheltered, RotationKept, NEW h \in Handlers, busy = h,
           \/ CopyToTemp(h) \/ DropPrevious(h) \/ PromoteCurrent(h) \/ DropCurrent(h)
           \/ DropBoth(h) \/ Install(h) \/ DropArchive(h) \/ RotationFails(h)
    PROVE  RotationKept'
<1> USE DEF files, aux, GoTo, At
<1>0. /\ pc \in [Handlers -> Places] /\ Sheltered(h) /\ h # NoOne /\ busy' \in {h, NoOne}
      /\ mishaps \in Nat
      /\ \A g \in Handlers \ {h} : pc[g] \notin Rotating
      /\ pc[h] = "dropBoth" => unkept
  <2>1. busy' \in {h, NoOne}
    BY DEF CopyToTemp, DropPrevious, PromoteCurrent, DropCurrent, DropBoth, Install, DropArchive, RotationFails
  <2>2. pc \in [Handlers -> Places] /\ Sheltered(h) /\ h # NoOne /\ mishaps \in Nat
    BY HandlerFacts, AutoBackupAssumption DEF TypeOK, Places, AllSheltered
  <2> QED BY <2>1, <2>2 DEF RotationKept, RotatesAlone
<1> DEFINE to == pc'[h]
<1>1. /\ \A g \in Handlers \ {h} : pc'[g] = pc[g]
      /\ to \in {"dropPrevious", "promote", "dropCurrent", "dropBoth", "install", "dropArchive",
                 "saveState", "saveError"}
      /\ busy' = IF to \in {"saveState", "saveError"} THEN NoOne ELSE h
      /\ to = "dropBoth" => unkept'
  <2>1. CASE CopyToTemp(h) \/ DropPrevious(h) \/ PromoteCurrent(h)
    BY <1>0, <2>1 DEF CopyToTemp, DropPrevious, PromoteCurrent
  <2>2. CASE DropCurrent(h) \/ DropBoth(h) \/ Install(h)
    BY <1>0, <2>2 DEF DropCurrent, DropBoth, Install
  <2>3. CASE DropArchive(h) \/ RotationFails(h)
    BY <1>0, <2>3 DEF DropArchive, RotationFails
  <2> QED BY <2>1, <2>2, <2>3
<1>2. \A g \in Handlers \ {h} : pc'[g] = pc[g] /\ pc'[g] \notin Rotating
  BY <1>0, <1>1
<1> HIDE DEF to
<1>3. RotatesAlone'
  BY <1>0, <1>1, <1>2, HandlerFacts DEF RotatesAlone, Rotating, to
<1>4. \A g \in Handlers : pc'[g] = "dropBoth" => unkept'
  BY <1>1, <1>2 DEF Rotating, to
<1>5. ASSUME saved', ~shared', ~unkept' PROVE FilesHold' /\ AtRest'
  <2>1. ~shared /\ ~unkept /\ (saved \/ Install(h))
    <3>1. (shared => shared') /\ (unkept => unkept') /\ (saved' => saved \/ Install(h))
      <4>1. CASE CopyToTemp(h) \/ DropPrevious(h) \/ PromoteCurrent(h)
        BY <4>1 DEF CopyToTemp, DropPrevious, PromoteCurrent
      <4>2. CASE DropCurrent(h) \/ DropBoth(h) \/ Install(h)
        BY <4>2 DEF DropCurrent, DropBoth, Install
      <4>3. CASE DropArchive(h) \/ RotationFails(h)
        BY <4>3 DEF DropArchive, RotationFails
      <4> QED BY <4>1, <4>2, <4>3
    <3> QED BY <1>5, <3>1
  <2>2. SUFFICES /\ to \in {"dropPrevious", "promote", "dropCurrent"} /\ mishaps' = 0 => current' = "whole"
                 /\ to = "install" /\ mishaps' = 0 => previous' = "whole"
                 /\ to = "dropArchive" => current' = "whole"
                 /\ to = "saveState" => current' = "whole"
                 /\ to = "saveError" => /\ mishaps' # 0
                                        /\ mishaps' = 1 => "whole" \in {current', previous'}
    BY <1>0, <1>1, <1>2, <2>1 DEF FilesHold, AtRest, Rotating, to
  <2>3. CASE Install(h)
    <3>1. temp[h] = "whole"
      BY <1>0, <2>1, <2>3 DEF Install, Sheltered, AfterCopy
    <3> QED BY <1>0, <1>2, <2>3, <3>1 DEF Install, to
  <2>4. CASE ~Install(h)
    <3>1. saved /\ FilesHold
      BY <2>1, <2>4 DEF RotationKept
    <3>2. CASE CopyToTemp(h) \/ DropPrevious(h) \/ PromoteCurrent(h)
      BY <1>0, <1>2, <3>1, <3>2 DEF CopyToTemp, DropPrevious, PromoteCurrent, FilesHold, to
    <3>3. CASE DropCurrent(h) \/ DropBoth(h)
      BY <1>0, <1>2, <1>5, <2>1, <3>3 DEF DropCurrent, DropBoth, to
    <3>4. CASE DropArchive(h)
      BY <1>0, <1>2, <3>1, <3>4 DEF DropArchive, FilesHold, to
    <3>5. CASE RotationFails(h)
      BY <1>0, <1>2, <2>1, <3>1, <3>5 DEF RotationFails, FilesHold, Rotating, to
    <3> QED BY <2>4, <3>2, <3>3, <3>4, <3>5
  <2> QED BY <2>3, <2>4
<1> QED BY <1>3, <1>4, <1>5 DEF RotationKept

LEMMA RotationMoves ==
    ASSUME TypeOK, AllSheltered, RotationKept, NEW h \in Handlers, Moves(h)
    PROVE  RotationKept'
<1> USE DEF files, aux, GoTo, Ends, At
<1>0. /\ pc \in [Handlers -> Places] /\ h # NoOne
      /\ \A g \in Handlers \ {h} : pc'[g] = pc[g]
  BY OthersAlone, HandlerFacts DEF TypeOK, Places
<1>1. CASE Reads(h)
  BY <1>1, ReadsOutside, OutsideKeeps
<1>2. CASE ChooseName(h) \/ EncryptHeader(h) \/ ExportFails(h)
  <2>1. pc[h] \notin Rotating /\ pc'[h] \notin Rotating
    BY <1>0, <1>2 DEF ChooseName, EncryptHeader, ExportFails, Exporting, Rotating
  <2>2. UNCHANGED <<busy, current, previous, saved, unkept, mishaps>> /\ (shared => shared')
    BY <1>2 DEF ChooseName, EncryptHeader, ExportFails
  <2> QED BY <1>0, <2>1, <2>2, OutsideKeeps
<1>3. CASE EncryptEnd(h)
  <2>1. /\ pc[h] = "streaming" /\ pc[h] \notin Rotating
        /\ UNCHANGED <<current, previous, saved, unkept, mishaps, shared>>
    BY <1>3 DEF EncryptEnd, Rotating
  <2>2. CASE pc'[h] = "idle" /\ UNCHANGED busy
    BY <1>0, <2>1, <2>2, OutsideKeeps DEF Rotating
  <2>3. CASE pc'[h] = "copy" /\ busy' = h
    <3>1. busy = NoOne
      BY <1>3, <2>1 DEF EncryptEnd, RotationKept, RotatesAlone
    <3>2. RotatesAlone'
      BY <1>0, <2>3, <3>1, HandlerFacts DEF RotationKept, RotatesAlone, Rotating
    <3>3. \A g \in Handlers \ {h} : pc'[g] \notin Rotating
      BY <1>0, <3>1, HandlerFacts DEF RotationKept, RotatesAlone
    <3>4. saved /\ ~shared /\ ~unkept /\ mishaps = 0 => current = "whole"
      BY <3>1 DEF RotationKept, AtRest
    <3> QED BY <1>0, <2>1, <2>3, <3>2, <3>3, <3>4 DEF RotationKept, FilesHold, AtRest, Rotating
  <2> QED BY <1>0, <1>3, <2>2, <2>3 DEF EncryptEnd
<1>4. CASE \/ CopyToTemp(h) \/ DropPrevious(h) \/ PromoteCurrent(h) \/ DropCurrent(h)
           \/ DropBoth(h) \/ Install(h) \/ DropArchive(h) \/ RotationFails(h)
  <2>1. pc[h] \in Rotating
    BY <1>4 DEF CopyToTemp, DropPrevious, PromoteCurrent, DropCurrent, DropBoth, Install, DropArchive,
                RotationFails, Rotating
  <2>2. busy = h
    BY <2>1 DEF RotationKept, RotatesAlone
  <2> QED BY <1>4, <2>2, RotatingKeeps
<1> QED BY <1>1, <1>2, <1>3, <1>4 DEF Moves, HandlerStep, Reads

LEMMA RotationStep == TypeOK /\ AllSheltered /\ RotationKept /\ [Next]_vars => RotationKept'
<1> SUFFICES ASSUME TypeOK, AllSheltered, RotationKept, [Next]_vars PROVE RotationKept'
  OBVIOUS
<1>1. CASE Crash
  <2>1. /\ \A h \in Handlers : pc'[h] = "idle"
        /\ busy' = NoOne /\ UNCHANGED <<current, previous, saved, shared, unkept>>
        /\ mishaps' = IF busy = NoOne THEN mishaps ELSE mishaps + 1
    BY <1>1 DEF Crash
  <2>2. mishaps \in Nat
    BY AutoBackupAssumption DEF TypeOK
  <2>3. busy # NoOne => \E h \in Handlers : busy = h /\ pc[h] \in Rotating /\ (pc[h] = "dropBoth" => unkept)
    BY DEF TypeOK, RotationKept, RotatesAlone
  <2>4. saved /\ ~shared /\ ~unkept => AtRest'
    BY <2>1, <2>2, <2>3 DEF RotationKept, FilesHold, AtRest, Rotating
  <2> QED BY <2>1, <2>4, HandlerFacts DEF RotationKept, RotatesAlone, FilesHold, Rotating
<1>2. CASE UNCHANGED <<pc, busy, current, previous, saved, shared, unkept, mishaps>>
  BY <1>2 DEF RotationKept, RotatesAlone, FilesHold, AtRest
<1> QED BY <1>1, <1>2, RotationMoves
        DEF Next, Moves, vars, TimePasses, ChangeSettings, files, aux

\* CopiesRestorable: at every step of every rotation a restorable copy is on
\* disk, and between rotations it is one of the two files an administrator
\* knows, unless previous files are not kept, two exports shared a name, or two
\* rotations were cut short.
THEOREM CopiesCorrect == Spec => []CopiesRestorable
<1>1. Init => AllSheltered /\ RotationKept
  BY HandlerFacts DEF Init, AllSheltered, Sheltered, AfterCopy, RotationKept, RotatesAlone, Rotating
<1>2. TypeOK /\ RotationKept => CurrentOrPreviousRestorable
  BY AutoBackupAssumption DEF TypeOK, RotationKept, AtRest, CurrentOrPreviousRestorable
<1>3. SomeCopyRestorable /\ CurrentOrPreviousRestorable => CopiesRestorable
  BY DEF CopiesRestorable
<1> QED
  BY <1>1, <1>2, <1>3, CopyCorrect, TypeInit, TypeStep, ShelterStep, RotationStep, PTL DEF Spec
=============================================================================
