---------------------------- MODULE SettleProofs ----------------------------
(***************************************************************************)
(* What a verdict says of a load, of any number of chapters: that it is    *)
(* not called empty for what the cloud shows just before it transcodes,    *)
(* and when a sum of lengths is final. For any lengths, tolerance and      *)
(* timeout, any number of callers, tokens and throttlings, and any         *)
(* behaviour of the cloud.                                                 *)
(***************************************************************************)
EXTENDS Settle, SequenceTheorems, TLAPS

\* The load is on the tonie, chapter by chapter, before it is read.
Loaded ==
  /\ live \in Seq(ChapterStates) /\ Len(live) <= Chapters
  /\ phase \in {"upload", "read", "sleep", "done"}
  /\ phase = "upload" => Len(live) < Chapters /\ zeros = 0
  /\ phase \in {"read", "sleep"} => Len(live) = Chapters
  /\ zeros \in Nat
  /\ verdict # "none" => phase = "done"

\* After a first read of zero a poll interval has passed, and the cloud has
\* flagged every chapter by then.
Flagged == phase = "read" /\ zeros > 0 => ~Unflagged(live)

\* NoFalseAlarm is not inductive: it needs what the second read relies on.
IInv == Loaded /\ Flagged /\ NoFalseAlarm /\ SettledIsFinal

\* Once a load is final the cloud changes nothing of it, and a verdict on it
\* stays what it is.
LEMMA FinalLoadsStay ==
  ASSUME NoFalseAlarm, SettledIsFinal, UNCHANGED <<verdict, seen>>,
         Finished(live) => UNCHANGED live
  PROVE  NoFalseAlarm' /\ SettledIsFinal'
<1>1. CASE Finished(live)
  BY <1>1
  DEF NoFalseAlarm, SettledIsFinal, CameOutWrong, AsExpected, Zero, Finished, Unflagged
<1>2. CASE ~Finished(live)
  BY <1>2
  DEF NoFalseAlarm, SettledIsFinal, CameOutWrong, Finished, Unflagged
<1> QED BY <1>1, <1>2

LEMMA UploadStep ==
  ASSUME IInv, Upload
  PROVE  IInv'
<1>1. /\ phase = "upload" /\ live' = Append(live, Uploaded)
      /\ phase' = (IF Len(live') = Chapters THEN "read" ELSE "upload")
      /\ UNCHANGED <<zeros, verdict>>
  BY DEF Upload
<1>2. live' \in Seq(ChapterStates) /\ Len(live') = Len(live) + 1
  BY <1>1, AppendProperties DEF IInv, Loaded, ChapterStates, Uploaded
<1>3. Len(live) \in Nat /\ Chapters \in Nat
  BY SettleAssumption DEF IInv, Loaded
<1>4. Loaded'
  BY <1>1, <1>2, <1>3 DEF IInv, Loaded
<1> QED BY <1>1, <1>4 DEF IInv, Loaded, Flagged, NoFalseAlarm, SettledIsFinal

\* A read of the tonie, and what is concluded from it.
LEMMA JudgeStep ==
  ASSUME IInv, Judge
  PROVE  IInv'
<1>1. /\ phase = "read" /\ UNCHANGED <<live, waited>>
      /\ zeros' = ZerosRead /\ zeros' \in Nat
  BY
  DEF Judge, FinishedEmpty, Settled, Mismatch, TimedOut, PollAgain, Verdict, IInv, Loaded, ZerosRead
<1>2. /\ Len(live) = Chapters /\ Chapters \in Nat \ {0} /\ DOMAIN live = 1 .. Len(live)
      /\ \A i \in DOMAIN live : live[i] \in ChapterStates
      /\ verdict = "none"
  BY <1>1, SettleAssumption DEF IInv, Loaded
<1>3. ~Transcoding /\ ~Unflagged(live) => Finished(live)
  BY <1>2 DEF Transcoding, Unflagged, Finished, ChapterStates
<1>4. CASE FinishedEmpty
  <2>1. phase' = "done" /\ verdict' = "settled_empty" /\ zeros' >= 2
    BY <1>4 DEF FinishedEmpty, Verdict
  <2>2. ~Transcoding /\ Zero /\ zeros > 0
    BY <1>1, <2>1 DEF ZerosRead, IInv, Loaded
  <2>3. Finished(live)
    BY <1>1, <1>3, <2>2 DEF IInv, Flagged
  <2>4. NoFalseAlarm' /\ SettledIsFinal'
    BY <1>1, <2>1, <2>2, <2>3 DEF NoFalseAlarm, SettledIsFinal, Finished, Zero
  <2> QED BY <1>1, <1>2, <2>1, <2>4 DEF IInv, Loaded, Flagged
<1>5. CASE Settled \/ Mismatch
  <2>1. /\ phase' = "done" /\ seen' = live /\ ~Transcoding
        /\ \/ verdict' = "settled" /\ AsExpected
           \/ verdict' = "duration_mismatch" /\ ~AsExpected
    BY <1>5 DEF Settled, Mismatch, Verdict
  <2>2. Finished(live) \/ Unflagged(seen')
    BY <1>3, <2>1
  <2>3. NoFalseAlarm' /\ SettledIsFinal'
    BY <1>1, <2>1, <2>2
    DEF NoFalseAlarm, SettledIsFinal, CameOutWrong, Finished, Unflagged, AsExpected
  <2> QED BY <1>1, <1>2, <2>1, <2>3 DEF IInv, Loaded, Flagged
<1>6. CASE TimedOut
  BY <1>1, <1>6 DEF TimedOut, Verdict, IInv, Loaded, Flagged, NoFalseAlarm, SettledIsFinal
<1>7. CASE PollAgain
  BY <1>1, <1>2, <1>7 DEF PollAgain, IInv, Loaded, Flagged, NoFalseAlarm, SettledIsFinal
<1> QED BY <1>4, <1>5, <1>6, <1>7 DEF Judge

\* A poll interval: afterwards no chapter is unflagged.
LEMMA TickStep ==
  ASSUME IInv, Tick
  PROVE  IInv'
<1> DEFINE now == [i \in DOMAIN live |->
                     [live[i] EXCEPT !.flag = IF @ = "new" THEN "busy" ELSE @]]
<1>1. /\ live' = now /\ phase' = (IF phase = "sleep" THEN "read" ELSE phase)
      /\ UNCHANGED <<zeros, verdict, seen>>
  BY DEF Tick
<1>2. /\ live \in Seq(ChapterStates) /\ DOMAIN live = 1 .. Len(live) /\ Len(live) \in Nat
      /\ live \in [1 .. Len(live) -> ChapterStates]
  BY DEF IInv, Loaded
<1>3. now \in [1 .. Len(live) -> ChapterStates]
  BY <1>2 DEF ChapterStates
<1>4. \A i \in DOMAIN live : /\ now[i].flag # "new"
                             /\ live[i].flag = "done" => now[i] = live[i]
  BY <1>2 DEF ChapterStates
<1> HIDE DEF now
<1>5. now \in Seq(ChapterStates) /\ Len(now) = Len(live) /\ DOMAIN now = DOMAIN live
  BY <1>2, <1>3, SeqDef
<1>6. Loaded'
  BY <1>1, <1>5 DEF IInv, Loaded
<1>7. Flagged'
  BY <1>1, <1>4, <1>5 DEF Flagged, Unflagged
<1>8. Finished(live) => UNCHANGED live
  BY <1>1, <1>2, <1>3, <1>4 DEF Finished
<1> QED BY <1>1, <1>6, <1>7, <1>8, FinalLoadsStay DEF IInv

LEMMA TranscodeStep ==
  ASSUME IInv, NEW i \in DOMAIN live, Transcode(i)
  PROVE  IInv'
<1>1. /\ live \in Seq(ChapterStates) /\ DOMAIN live = 1 .. Len(live) /\ Len(live) \in Nat
      /\ live[i] \in ChapterStates
  BY DEF IInv, Loaded
<1>2. PICK s \in ChapterStates : /\ s.flag # "new" /\ live[i].flag # "done"
                                 /\ live' = [live EXCEPT ![i] = s]
  <2>1. CASE live[i].flag = "new" /\ live' = [live EXCEPT ![i].flag = "busy"]
    <3>1. [live[i] EXCEPT !.flag = "busy"] \in ChapterStates
      BY <1>1 DEF ChapterStates
    <3>2. live' = [live EXCEPT ![i] = [live[i] EXCEPT !.flag = "busy"]]
      BY <2>1
    <3>3. [live[i] EXCEPT !.flag = "busy"].flag = "busy"
      BY <1>1 DEF ChapterStates
    <3> QED BY <2>1, <3>1, <3>2, <3>3
  <2>2. CASE /\ live[i].flag = "busy"
             /\ \E s \in Outcomes :
                  live' = [live EXCEPT ![i] = [flag |-> "done", seconds |-> s]]
    <3>1. PICK s \in Outcomes : live' = [live EXCEPT ![i] = [flag |-> "done", seconds |-> s]]
      BY <2>2
    <3>2. [flag |-> "done", seconds |-> s] \in ChapterStates
      BY SettleAssumption DEF ChapterStates
    <3> QED BY <2>2, <3>1, <3>2
  <2> QED BY <2>1, <2>2 DEF Transcode
<1>3. live' \in Seq(ChapterStates) /\ Len(live') = Len(live) /\ DOMAIN live' = DOMAIN live
  BY <1>1, <1>2, ExceptSeq
<1>4. UNCHANGED <<phase, zeros, verdict, seen>>
  BY DEF Transcode
<1>5. \A j \in DOMAIN live : live'[j] = (IF j = i THEN s ELSE live[j])
  BY <1>1, <1>2
<1>6. Loaded'
  BY <1>3, <1>4 DEF IInv, Loaded
<1>7. Flagged'
  BY <1>2, <1>3, <1>4, <1>5 DEF IInv, Flagged, Unflagged
<1>8. ~Finished(live)
  BY <1>2 DEF Finished
<1> QED BY <1>4, <1>6, <1>7, <1>8, FinalLoadsStay DEF IInv

\* The other steps are requests of the session, or end a load.
LEMMA OtherStep ==
  ASSUME IInv, \/ UNCHANGED settleVars
               \/ CallFails \/ NextLoad
  PROVE  IInv'
<1>1. CASE UNCHANGED settleVars
  BY <1>1, FinalLoadsStay DEF settleVars, IInv, Loaded, Flagged, Unflagged
<1>2. CASE CallFails
  BY <1>2 DEF CallFails, IInv, Loaded, Flagged, NoFalseAlarm, SettledIsFinal
<1>3. CASE NextLoad
  <2>1. live' \in Seq(ChapterStates) /\ Len(live') = 0
    BY <1>3 DEF NextLoad
  <2> QED
    BY <1>3, <2>1, SettleAssumption
    DEF NextLoad, IInv, Loaded, Flagged, NoFalseAlarm, SettledIsFinal
<1> QED BY <1>1, <1>2, <1>3

LEMMA Invariance == Spec => []IInv
<1>1. Init => IInv
  <2> SUFFICES ASSUME Init PROVE IInv
    OBVIOUS
  <2>1. live \in Seq(ChapterStates) /\ Len(live) = 0
    BY DEF Init
  <2> QED
      BY <2>1, SettleAssumption
      DEF Init, IInv, Loaded, Flagged, NoFalseAlarm, SettledIsFinal
<1>2. IInv /\ [Next]_vars => IInv'
  <2> SUFFICES ASSUME IInv, [Next]_vars PROVE IInv'
    OBVIOUS
  <2>1. CASE UNCHANGED vars
    BY <2>1, OtherStep DEF vars
  <2>2. CASE RunStep
    BY <2>2, UploadStep, JudgeStep, OtherStep DEF RunStep
  <2>3. CASE Tick
    BY <2>3, TickStep
  <2>4. CASE \E i \in DOMAIN live : Transcode(i)
    BY <2>4, TranscodeStep
  <2> QED BY <2>1, <2>2, <2>3, <2>4, OtherStep DEF Next
<1> QED BY <1>1, <1>2, PTL DEF Spec

\* NoFalseAlarm, for a load of any number of chapters: one called empty came out
\* empty, every chapter of it, and one called of the wrong length came out so
\* unless the read showed a chapter not yet flagged.
THEOREM NoAlarm == Spec => []NoFalseAlarm
<1>1. IInv => NoFalseAlarm
  BY DEF IInv
<1> QED BY <1>1, Invariance, PTL

\* SettledIsFinal, for a load of any number of chapters: a load called settled is
\* final and its sum the load's, unless the read showed a chapter not yet flagged.
THEOREM VerdictsAreTrue == Spec => []SettledIsFinal
<1>1. IInv => SettledIsFinal
  BY DEF IInv
<1> QED BY <1>1, Invariance, PTL
=============================================================================
