----------------------------- MODULE TonieGuard -----------------------------
(***************************************************************************)
(* What Box Butler promises about the tonies it manages, without saying    *)
(* how: it never damages a tonie it believes to be in order.               *)
(*                                                                         *)
(* A tonie has the chapters it really holds (content), the chapters the    *)
(* store believes it holds (believed; <<>> before the first load) and an   *)
(* admission that it may be wrong and has to be filled again (owed).       *)
(* Module Orchestrator implements this specification: there, content is    *)
(* what the cloud holds, believed is the table chapter_record, and a tonie *)
(* is owed while its assignment is DEGRADED or a swap_marker row exists.   *)
(***************************************************************************)
EXTENDS Integers, Sequences

CONSTANTS Tonies,      \* the managed tonies
          Stories      \* what a chapter can hold

VARIABLES content, believed, owed
vars == <<content, believed, owed>>

Loads == Seq(Stories)

Init == /\ content \in [Tonies -> Loads]
        /\ believed = [t \in Tonies |-> <<>>]
        /\ owed = [t \in Tonies |-> FALSE]

\* A tonie may be changed only while it is owed, or before its first load.
Open(t) == owed[t] \/ believed[t] = <<>>

\* Admit that the tonie may be wrong. Nothing is touched.
Admit(t) == /\ ~owed[t]
            /\ owed' = [owed EXCEPT ![t] = TRUE]
            /\ UNCHANGED <<content, believed>>

\* Take chapters away: only from a tonie that is owed.
Wipe(t) == /\ owed[t]
           /\ \E k \in 0..(Len(content[t]) - 1) :
                content' = [content EXCEPT ![t] = SubSeq(content[t], 1, k)]
           /\ UNCHANGED <<believed, owed>>

\* One more chapter at the end.
Fill(t) == /\ Open(t)
           /\ \E s \in Stories : content' = [content EXCEPT ![t] = Append(content[t], s)]
           /\ UNCHANGED <<believed, owed>>

\* Believe what is really there.
Record(t) == /\ Open(t)
             /\ content[t] # <<>>
             /\ believed' = [believed EXCEPT ![t] = content[t]]
             /\ UNCHANGED <<content, owed>>

\* Take the admission back: only when the belief is true and not empty.
Release(t) == /\ owed[t]
              /\ believed[t] = content[t]
              /\ content[t] # <<>>
              /\ owed' = [owed EXCEPT ![t] = FALSE]
              /\ UNCHANGED <<content, believed>>

Next == \E t \in Tonies :
          Admit(t) \/ Wipe(t) \/ Fill(t) \/ Record(t) \/ Release(t)

Spec == Init /\ [][Next]_vars

-----------------------------------------------------------------------------

\* A tonie that is not owed and has been loaded once holds exactly what the
\* store believes it holds.
Honest == \A t \in Tonies :
            ~owed[t] /\ believed[t] # <<>> => believed[t] = content[t]
=============================================================================
