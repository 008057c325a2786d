---------------------------- MODULE RequestReply ----------------------------
(***************************************************************************)
(* What a connection promises: replies come in the order of the requests,  *)
(* one for each, and a request is lost only with the connection or when it *)
(* is unreadable.                                                          *)
(***************************************************************************)
EXTENDS Integers, Sequences

CONSTANT Messages            \* requests: records with a field kind

VARIABLES pending,           \* requests sent and not answered, oldest first
          done               \* requests answered, in order

Init == pending = <<>> /\ done = <<>>

Send(m) == /\ pending' = Append(pending, m)
           /\ UNCHANGED done

Answer == /\ pending # <<>>
          /\ done' = Append(done, Head(pending))
          /\ pending' = Tail(pending)

Skip == \E i \in DOMAIN pending :
           /\ pending[i].kind = "garbage"
           /\ pending' = SubSeq(pending, 1, i - 1) \o SubSeq(pending, i + 1, Len(pending))
           /\ UNCHANGED done

Lose == /\ pending' = <<>>
        /\ UNCHANGED done

Next == (\E m \in Messages : Send(m)) \/ Answer \/ Skip \/ Lose

Spec == Init /\ [][Next]_<<pending, done>>
=============================================================================
