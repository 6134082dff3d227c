------------------------------- MODULE C6Session -------------------------------
(***************************************************************************)
(* The session of components/c6_interface with the C6 peer: publish,       *)
(* acknowledge and makeStatusRequest over a transport that may refuse a    *)
(* frame or lose it.  A frame is a sequence number and what it is about;   *)
(* C6FrameCodec has its bytes.  The retry limit is left out: publish only  *)
(* asks whether it is positive, and every session is built with one that   *)
(* is.  The module constrains only its own variables.                      *)
(***************************************************************************)
EXTENDS Integers, Sequences

CONSTANT
    SequenceModulus     \* 2^16: nextSequence_ is a 16-bit counter

ASSUME C6SessionAssumption == SequenceModulus \in Nat \ {0, 1}

VARIABLES
    nextSequence,       \* nextSequence_
    pendingSequence,    \* pendingSequence_
    pending,            \* pending_: a frame awaits its acknowledgement
    wire,               \* the frames on the way to the peer, first sent first
    acks                \* the acknowledgements on their way back

sessionVars == <<nextSequence, pendingSequence, pending>>
linkVars == <<wire, acks>>

SessionInit ==
    /\ nextSequence = 1
    /\ pendingSequence = 0
    /\ pending = FALSE
    /\ wire = << >>
    /\ acks = << >>

AfterSequence == (nextSequence + 1) % SequenceModulus

-----------------------------------------------------------------------------

\* publish numbers a frame that has no number yet: zero stands for none.
NumberFor(given) == IF given = 0 THEN nextSequence ELSE given
Numbered(given) ==
    nextSequence' = IF given = 0 THEN AfterSequence ELSE nextSequence

\* publish of a frame the transport accepts: it takes the place of the frame
\* that was pending.
PublishSent(given, about) ==
    /\ Numbered(given)
    /\ wire' = Append(wire, [sequence |-> NumberFor(given), about |-> about])
    /\ pendingSequence' = NumberFor(given)
    /\ pending' = TRUE
    /\ UNCHANGED acks

\* publish when the transport refuses: the number is spent, and
\* the frame that was pending still is.
PublishRefused(given) ==
    /\ Numbered(given)
    /\ UNCHANGED <<pendingSequence, pending, linkVars>>

\* makeStatusRequest: a frame is numbered and handed to the caller.
MakeStatusRequest ==
    /\ nextSequence' = AfterSequence
    /\ UNCHANGED <<pendingSequence, pending, linkVars>>

\* Mutant of Acknowledges: any acknowledgement will do.
AcknowledgesAny(sequence) == pending

\* Whether acknowledge accepts a sequence number.
Acknowledges(sequence) == pending /\ sequence = pendingSequence

\* acknowledge, called with the oldest acknowledgement that arrived.
TakeAck ==
    /\ acks # << >>
    /\ pending' = (pending /\ ~ Acknowledges(Head(acks)))
    /\ acks' = Tail(acks)
    /\ UNCHANGED <<nextSequence, pendingSequence, wire>>

-----------------------------------------------------------------------------
(* The link and the peer.                                                  *)

PeerReceive ==
    /\ wire # << >>
    /\ wire' = Tail(wire)
    /\ acks' = Append(acks, Head(wire).sequence)
    /\ UNCHANGED sessionVars

LoseFrame ==
    /\ wire # << >>
    /\ wire' = Tail(wire)
    /\ UNCHANGED <<sessionVars, acks>>

LoseAck ==
    /\ acks # << >>
    /\ acks' = Tail(acks)
    /\ UNCHANGED <<sessionVars, wire>>
===============================================================================
