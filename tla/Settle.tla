------------------------------- MODULE Settle -------------------------------
(***************************************************************************)
(* poll_until_settled (boxbutler/orchestrator/settle.py) behind the        *)
(* session: one caller uploads the chapters of a load, one request each,   *)
(* and then reads the tonie every poll interval until it can tell how the  *)
(* load came out. The cloud transcodes at its own pace, other callers use  *)
(* the session meanwhile.                                                  *)
(*                                                                         *)
(* A tick of the session is a poll interval here.                          *)
(***************************************************************************)
EXTENDS Session, SequencesExt

CONSTANTS
  Run,       \* the caller that uploads and polls
  Chapters,  \* how many chapters the load has
  Length,    \* how long each of them is
  Outcomes,  \* the lengths a chapter may come out with
  Tolerance, \* tolerance_s
  Timeout    \* timeout_s, in poll intervals

ASSUME SettleAssumption ==
  /\ Run \in Callers /\ Chapters \in Nat \ {0} /\ Timeout \in Nat
  /\ Length \in Nat \ {0} /\ Outcomes \subseteq Nat /\ Tolerance \in Nat

VARIABLES
  live,     \* the chapters on the tonie, as the cloud has them
  phase,    \* what the run is doing
  zeros,    \* consecutive_settled_zero
  waited,   \* poll intervals since the first read, up to Timeout
  verdict,  \* the SettleResult's reason
  seen      \* its chapters: what the last read showed

settleVars == <<live, phase, zeros, waited, verdict, seen>>
vars == <<sessionVars, settleVars>>

\* A chapter was just uploaded and is not yet flagged as transcoding; it is
\* transcoding; it is done. Its length shows only then.
ChapterStates == [flag : {"new", "busy", "done"}, seconds : Nat]
Uploaded      == [flag |-> "new", seconds |-> 0]

Init ==
  /\ SessionInit
  /\ live = <<>> /\ phase = "upload" /\ zeros = 0 /\ waited = 0
  /\ verdict = "none" /\ seen = <<>>

Total(chapters)      == FoldLeft(LAMBDA sum, c : sum + c.seconds, 0, chapters)
Near(total)          == total \in Chapters * Length - Tolerance .. Chapters * Length + Tolerance
Unflagged(chapters)  == \E i \in DOMAIN chapters : chapters[i].flag = "new"
Finished(chapters)   == \A i \in DOMAIN chapters : chapters[i].flag = "done"

\* What a read shows. No length is negative: a sum of zero has only zeros.
Transcoding == \E i \in DOMAIN live : live[i].flag = "busy"
Zero        == \A i \in DOMAIN live : live[i].seconds = 0
AsExpected  == Near(Total(live))

\* The call of the run has come back with an answer.
RunAnswered == pc[Run] = "ok" /\ Return(Run)

Upload ==
  /\ phase = "upload" /\ RunAnswered
  /\ live' = Append(live, Uploaded)
  /\ phase' = IF Len(live') = Chapters THEN "read" ELSE "upload"
  /\ UNCHANGED <<zeros, waited, verdict, seen>>

\* The session gave the call up: an upload or a settle that raises.
CallFails ==
  /\ phase \in {"upload", "read"}
  /\ pc[Run] = "failed" /\ Return(Run)
  /\ verdict' = "error" /\ phase' = "done"
  /\ UNCHANGED <<live, zeros, waited, seen>>

\* Mutant of ZerosRead: there is no second read.
ZerosReadHasty == IF ~Transcoding /\ Zero THEN 2 ELSE 0

\* A read that shows no length and no transcoding is given one more.
ZerosRead == IF ~Transcoding /\ Zero THEN zeros + 1 ELSE 0

Verdict(reason) ==
  /\ verdict' = reason /\ seen' = live
  /\ phase' = "done" /\ UNCHANGED <<live, waited>>

FinishedEmpty ==
  /\ phase = "read" /\ RunAnswered
  /\ zeros' = ZerosRead /\ zeros' >= 2
  /\ Verdict("settled_empty")

\* Mutant of Settled: the transcoding flag is not looked at.
SettledBySum ==
  /\ phase = "read" /\ RunAnswered
  /\ zeros' = ZerosRead
  /\ ~Zero /\ AsExpected
  /\ Verdict("settled")

Settled ==
  /\ phase = "read" /\ RunAnswered
  /\ zeros' = ZerosRead
  /\ ~Transcoding /\ ~Zero /\ AsExpected
  /\ Verdict("settled")

Mismatch ==
  /\ phase = "read" /\ RunAnswered
  /\ zeros' = ZerosRead
  /\ ~Transcoding /\ ~Zero /\ ~AsExpected
  /\ Verdict("duration_mismatch")

\* Still transcoding, or a first read of zero.
Undecided == (Transcoding \/ Zero) /\ ZerosRead < 2

TimedOut ==
  /\ phase = "read" /\ RunAnswered
  /\ zeros' = ZerosRead
  /\ Undecided /\ waited >= Timeout
  /\ Verdict("timeout")

\* Mutant of PollAgain: the time is not looked at.
PollForever ==
  /\ phase = "read" /\ RunAnswered
  /\ zeros' = ZerosRead
  /\ Undecided
  /\ phase' = "sleep"
  /\ UNCHANGED <<live, waited, verdict, seen>>

PollAgain ==
  /\ phase = "read" /\ RunAnswered
  /\ zeros' = ZerosRead
  /\ Undecided /\ waited < Timeout
  /\ phase' = "sleep"
  /\ UNCHANGED <<live, waited, verdict, seen>>

\* The next load of the tonie.
NextLoad ==
  /\ phase = "done"
  /\ live' = <<>> /\ phase' = "upload"
  /\ zeros' = 0 /\ waited' = 0 /\ verdict' = "none" /\ seen' = <<>>
  /\ UNCHANGED sessionVars

\* A poll interval. The cloud flags a chapter within one.
Tick ==
  /\ TimePasses
  /\ live' = [i \in DOMAIN live |->
                [live[i] EXCEPT !.flag = IF @ = "new" THEN "busy" ELSE @]]
  /\ waited' = IF phase \in {"read", "sleep"} /\ waited < Timeout
                 THEN waited + 1 ELSE waited
  /\ phase' = IF phase = "sleep" THEN "read" ELSE phase
  /\ UNCHANGED <<zeros, verdict, seen>>

\* The cloud flags, or finishes, a chapter.
Transcode(i) ==
  /\ \/ live[i].flag = "new"  /\ live' = [live EXCEPT ![i].flag = "busy"]
     \/ /\ live[i].flag = "busy"
        /\ \E s \in Outcomes : live' = [live EXCEPT ![i] = [flag |-> "done", seconds |-> s]]
  /\ UNCHANGED <<sessionVars, phase, zeros, waited, verdict, seen>>

RunCalls == phase \in {"upload", "read"} /\ Request(Run)

Judge == FinishedEmpty \/ Settled \/ Mismatch \/ TimedOut \/ PollAgain

RunStep ==
  \/ Upload \/ CallFails \/ Judge
  \/ (RunCalls \/ Step(Run)) /\ UNCHANGED settleVars

Next ==
  \/ RunStep \/ NextLoad \/ Tick
  \/ \E i \in DOMAIN live : Transcode(i)
  \/ /\ \/ \E c \in Callers \ {Run} : Request(c) \/ Step(c) \/ Return(c)
        \/ Turns \/ Revokes
     /\ UNCHANGED settleVars

\* Time passes: strongly fair, as other callers make calls in between. The
\* cloud owes nothing, neither an answer that pleases nor a transcoded chapter.
Fairness ==
  /\ WF_vars(RunStep) /\ SF_vars(Tick)
  /\ \A c \in Callers \ {Run} : WF_vars((Step(c) \/ Return(c)) /\ UNCHANGED settleVars)

Spec == Init /\ [][Next]_vars
FairSpec == Spec /\ Fairness

-----------------------------------------------------------------------------
(* Properties *)

\* Every variable keeps its type; the tonie is never read before the whole load
\* is on it, and a verdict is there exactly when the job is done.
TypeOK ==
  /\ SessionTypeOK
  /\ live \in Seq(ChapterStates) /\ Len(live) <= Chapters
  /\ phase \in {"upload", "read", "sleep", "done"}
  /\ phase \in {"read", "sleep"} => Len(live) = Chapters
  /\ zeros \in 0..2 /\ waited \in 0..Timeout
  /\ verdict \in {"none", "error", "settled", "settled_empty",
                  "duration_mismatch", "timeout"}
  /\ verdict = "none" <=> phase # "done"
  /\ seen \in Seq(ChapterStates) /\ seen # <<>> => phase = "done"

\* The lengths on the tonie are final, and their sum is not the load's.
CameOutWrong == Finished(live) /\ ~AsExpected

\* A load is called empty only when every chapter of it came out empty: the one
\* grace poll is enough ("a real, transient state ... grants that state exactly
\* one grace poll", poll_until_settled). It is called of the wrong length only
\* when it came out so, or when the read behind the verdict showed a chapter
\* that the cloud had not flagged yet beside one that was done.
NoFalseAlarm ==
  /\ verdict = "settled_empty" => Finished(live) /\ Zero
  /\ verdict = "duration_mismatch" => CameOutWrong \/ Unflagged(seen)

\* A load is called settled only when its chapters are final and their sum is
\* the load's, within the tolerance, or when the read showed an unflagged
\* chapter: that each single chapter is right the code does not look at.
SettledIsFinal ==
  verdict = "settled" => (Finished(live) /\ AsExpected) \/ Unflagged(seen)

\* What the module says ("polls `read_chapters()` until every chapter has
\* stopped transcoding, then verifies the summed duration"): a wrong length is
\* never that of a load the cloud is still to transcode. The code does not keep
\* this for a load of several chapters: the grace poll is for a sum of zero.
MismatchIsReal == verdict = "duration_mismatch" => CameOutWrong

\* Polling ends, also when the cloud never finishes, throttles every read or
\* goes on refusing tokens.
SettleEnds == phase \in {"read", "sleep"} ~> phase = "done"
=============================================================================
