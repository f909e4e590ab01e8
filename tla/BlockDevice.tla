----------------------------- MODULE BlockDevice -----------------------------
(***************************************************************************)
(* What the engine may rely on when it calls hal.Storage: every call takes *)
(* effect at most once and atomically, a call that succeeds has taken      *)
(* effect and returns what its own request produced, and a call that fails *)
(* may have had no effect, part of it, all of it, or may have it later.    *)
(* A forced chunk stays loaded until the device forgets all of them.       *)
(*                                                                         *)
(* Source: the interface in internal/hal/hal.go and the block semantics of *)
(* the plugin's BlockHandler.java.  The world is reduced to two blocks and *)
(* one chunk; call number k writes the value k.                            *)
(***************************************************************************)
EXTENDS Naturals, Sequences

CONSTANTS
  MaxCalls,  \* bound: calls over the whole behaviour
  Ops        \* the operations that callers use

VARIABLES
  block,   \* block[i]: the call whose data block i holds, 0 for air
  ticket,  \* the chunk is force-loaded
  op,      \* op[k]: the operation of call k
  stage,   \* stage[k]: "new", "invoked" or "applied"
  answer,  \* answer[k]: what the effect of call k produced
  result   \* result[k]: what call k returned to its caller

dvars == <<block, ticket, op, stage, answer, result>>

Calls == 1 .. MaxCalls

NoAnswer == [kind |-> "NONE", vals |-> <<>>]
Error    == [kind |-> "ERROR", vals |-> <<>>]
Ack      == [kind |-> "ACK", vals |-> <<>>]
Data(vs) == [kind |-> "DATA", vals |-> vs]

\* The blocks that a call writes, in the order in which they are written.
Targets(o) == CASE o = "WRITE" -> 1 [] o = "BATCH_WRITE" -> 2 [] OTHER -> 0

\* The world after the first j blocks of call k.
Wrote(k, j) == [i \in 1 .. 2 |-> IF i <= j THEN k ELSE block[i]]

\* What a call that is executed completely returns.
Reply(k) ==
  CASE op[k] = "READ"            -> Data(<<block[1]>>)
    [] op[k] = "BATCH_READ"      -> Data(<<block[1], block[2]>>)
    [] op[k] = "IS_CHUNK_LOADED" -> Data(<<IF ticket THEN 1 ELSE 0>>)
    [] OTHER                     -> Ack

-----------------------------------------------------------------------------
Init ==
  /\ block = [i \in 1 .. 2 |-> 0] /\ ticket = FALSE
  /\ op = [k \in Calls |-> "NONE"]
  /\ stage = [k \in Calls |-> "new"]
  /\ answer = [k \in Calls |-> NoAnswer]
  /\ result = [k \in Calls |-> NoAnswer]

Invoke(k, o) ==
  /\ stage[k] = "new"
  /\ stage' = [stage EXCEPT ![k] = "invoked"]
  /\ op' = [op EXCEPT ![k] = o]
  /\ UNCHANGED <<block, ticket, answer, result>>

\* The call takes effect; a late effect of a failed call is possible.
Apply(k) ==
  /\ stage[k] = "invoked"
  /\ stage' = [stage EXCEPT ![k] = "applied"]
  /\ block' = Wrote(k, Targets(op[k]))
  /\ ticket' = (ticket \/ op[k] = "FORCE_LOAD")
  /\ answer' = [answer EXCEPT ![k] = Reply(k)]
  /\ UNCHANGED <<op, result>>

\* The plugin fails on the way: some prefix of the blocks is written.
ApplyPart(k) ==
  /\ stage[k] = "invoked"
  /\ stage' = [stage EXCEPT ![k] = "applied"]
  /\ \E j \in 0 .. 1 : j <= Targets(op[k]) /\ block' = Wrote(k, j)
  /\ answer' = [answer EXCEPT ![k] = Error]
  /\ UNCHANGED <<ticket, op, result>>

Return(k) ==
  /\ stage[k] # "new" /\ result[k] = NoAnswer
  /\ \/ result' = [result EXCEPT ![k] = Error]
     \/ stage[k] = "applied" /\ result' = [result EXCEPT ![k] = answer[k]]
  /\ UNCHANGED <<block, ticket, op, stage, answer>>

\* The device forgets what it was asked to keep loaded.
Unload == ticket' = FALSE /\ UNCHANGED <<block, op, stage, answer, result>>

Next ==
  \/ Unload
  \/ \E k \in Calls : \/ \E o \in Ops : Invoke(k, o)
                      \/ Apply(k) \/ ApplyPart(k) \/ Return(k)

Spec == Init /\ [][Next]_dvars

=============================================================================
