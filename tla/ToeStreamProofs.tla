--------------------------- MODULE ToeStreamProofs ---------------------------
(***************************************************************************)
(* Proofs about ToeStream: what goes out is the application's stream and   *)
(* what comes in the peer's, for every size of the chip's buffers, every   *)
(* length of the streams and every set of vectors.                         *)
(***************************************************************************)
EXTENDS ToeStream, TLAPS

-----------------------------------------------------------------------------
(* Runs of consecutive bytes *)

(* The bytes of s are those that follow byte k of the stream. *)
Follows(s, k) == s \in Seq(Nat) /\ \A i \in 1 .. Len(s) : s[i] = k + i

(* A run and the one that follows it are one run. *)
LEMMA Joined ==
    ASSUME NEW k \in Nat, NEW s, NEW t, Follows(s, k), Follows(t, k + Len(s))
    PROVE  Follows(s \o t, k) /\ Len(s \o t) = Len(s) + Len(t)
<1>1. s \in Seq(Nat) /\ t \in Seq(Nat) /\ Len(s) \in Nat /\ Len(t) \in Nat
  BY DEF Follows
<1>2. s \o t \in Seq(Nat) /\ Len(s \o t) = Len(s) + Len(t)
  BY <1>1
<1>3. ASSUME NEW i \in 1 .. Len(s) + Len(t)
      PROVE  (s \o t)[i] = k + i
  <2>1. CASE i <= Len(s)
    <3>1. (s \o t)[i] = s[i]
      BY <1>1, <1>3, <2>1
    <3> QED BY <1>1, <2>1, <3>1 DEF Follows
  <2>2. CASE i > Len(s)
    <3>1. (s \o t)[i] = t[i - Len(s)] /\ i - Len(s) \in 1 .. Len(t)
      BY <1>1, <1>3, <2>2
    <3>2. t[i - Len(s)] = (k + Len(s)) + (i - Len(s))
      BY <3>1 DEF Follows
    <3> QED BY <1>1, <1>3, <3>1, <3>2
  <2> QED BY <1>1, <1>3, <2>1, <2>2
<1> QED BY <1>2, <1>3 DEF Follows

(* A run and the byte that follows it are one run. *)
LEMMA Longer ==
    ASSUME NEW k \in Nat, NEW s, Follows(s, k), NEW b, b = k + Len(s) + 1
    PROVE  Follows(Append(s, b), k) /\ Len(Append(s, b)) = Len(s) + 1
<1>1. s \in Seq(Nat) /\ Len(s) \in Nat
  BY DEF Follows
<1>2. b \in Nat
  BY <1>1
<1>3. Append(s, b) \in Seq(Nat) /\ Len(Append(s, b)) = Len(s) + 1
  BY <1>1, <1>2
<1>4. ASSUME NEW i \in 1 .. Len(s) + 1
      PROVE  Append(s, b)[i] = k + i
  <2>1. CASE i <= Len(s)
    <3>1. Append(s, b)[i] = s[i] /\ i \in 1 .. Len(s)
      BY <1>1, <1>4, <2>1
    <3> QED BY <3>1 DEF Follows
  <2>2. CASE i = Len(s) + 1
    <3>1. Append(s, b)[Len(s) + 1] = b
      BY <1>1
    <3> QED BY <1>1, <2>2, <3>1
  <2> QED BY <1>1, <1>4, <2>1, <2>2
<1> QED BY <1>3, <1>4 DEF Follows

(* A run that is cut is two runs. *)
LEMMA Parted ==
    ASSUME NEW k \in Nat, NEW s, Follows(s, k), NEW n \in 0 .. Len(s)
    PROVE  /\ Follows(SubSeq(s, 1, n), k) /\ Len(SubSeq(s, 1, n)) = n
           /\ Follows(SubSeq(s, n + 1, Len(s)), k + n)
           /\ Len(SubSeq(s, n + 1, Len(s))) = Len(s) - n
<1>1. s \in Seq(Nat) /\ Len(s) \in Nat /\ n \in Nat /\ n <= Len(s)
  BY DEF Follows
<1>2. /\ SubSeq(s, 1, n) \in Seq(Nat) /\ Len(SubSeq(s, 1, n)) = n
      /\ \A i \in 1 .. n : SubSeq(s, 1, n)[i] = s[i]
  BY <1>1
<1>3. /\ SubSeq(s, n + 1, Len(s)) \in Seq(Nat)
      /\ Len(SubSeq(s, n + 1, Len(s))) = Len(s) - n
      /\ \A i \in 1 .. Len(s) - n : SubSeq(s, n + 1, Len(s))[i] = s[n + i]
  BY <1>1
<1>4. \A i \in 1 .. n : s[i] = k + i
  BY <1>1 DEF Follows
<1>5. \A i \in 1 .. Len(s) - n : s[n + i] = (k + n) + i
  BY <1>1 DEF Follows
<1> QED BY <1>2, <1>3, <1>4, <1>5 DEF Follows

(* The run from the start is the stream. *)
LEMMA FromTheStart ==
    ASSUME NEW s, Follows(s, 0)
    PROVE  s = Upto(Len(s))
<1>1. s \in Seq(Nat) /\ Len(s) \in Nat /\ DOMAIN s = 1 .. Len(s)
  BY DEF Follows
<1>2. \A i \in 1 .. Len(s) : s[i] = i
  BY <1>1 DEF Follows
<1>3. s = [i \in DOMAIN s |-> s[i]]
  BY <1>1
<1> QED BY <1>1, <1>2, <1>3 DEF Upto

(* The vectors that are left after the first *)
LEMMA CutOff ==
    ASSUME NEW s \in Seq(Nat), s # <<>>
    PROVE  /\ Head(s) \in Nat /\ Tail(s) \in Seq(Nat)
           /\ Len(s) # 1 => Tail(s) # <<>>
<1>1. Len(s) \in Nat /\ Len(s) > 0
  OBVIOUS
<1>2. Head(s) \in Nat /\ Tail(s) \in Seq(Nat) /\ Len(Tail(s)) = Len(s) - 1
  BY <1>1
<1>3. Len(s) # 1 => Len(Tail(s)) # 0
  BY <1>1, <1>2
<1>4. Len(<<>>) = 0
  OBVIOUS
<1> QED BY <1>2, <1>3, <1>4

-----------------------------------------------------------------------------
(* The way out *)

(* Where a write is, and the bytes it has counted so far: none before its  *)
(* first buffer and none between calls.                                    *)
Writing ==
    /\ wr \in [pc : {"idle", "sr", "fsr", "send", "discon"},
               left : Seq(Nat), total : Nat, free : Nat]
    /\ wr.pc \in {"idle", "discon"} => wr.total = 0
    /\ wr.pc \in {"sr", "fsr", "send"} => wr.left # <<>>

(* The peer has the first bytes, the chip has those that follow, and that  *)
(* is what has been counted.                                               *)
Taken ==
    /\ written \in Nat
    /\ Follows(arrived, 0) /\ Follows(tx, Len(arrived))
    /\ Len(arrived) + Len(tx) = written + wr.total

OutInv == Writing /\ Taken

(* Steps that are not of the write or of what it sends *)
LEMMA OutFrame ==
    ASSUME OutInv, UNCHANGED <<wr, written, tx, arrived>>
    PROVE  OutInv'
BY DEF OutInv, Writing, Taken, Follows

(* A write moves on without sending. *)
LEMMA WriteMoves ==
    ASSUME OutInv, UNCHANGED <<written, tx, arrived>>,
           NEW place \in {"sr", "fsr"},
           wr.pc \in {"sr", "fsr"}, wr' = [wr EXCEPT !.pc = place]
    PROVE  OutInv'
<1>1. /\ wr' \in [pc : {"idle", "sr", "fsr", "send", "discon"},
                  left : Seq(Nat), total : Nat, free : Nat]
      /\ wr'.pc = place /\ wr'.total = wr.total /\ wr'.left = wr.left
  BY DEF OutInv, Writing
<1> QED BY <1>1 DEF OutInv, Writing, Taken, Follows

(* A write returns the count of what it has sent. *)
LEMMA WriteCounts ==
    ASSUME OutInv, NEW otherwise, WriteReturns(otherwise), UNCHANGED <<tx, arrived>>
    PROVE  OutInv'
<1>1. wr' = NoWrite /\ written' = written + wr.total
  BY DEF WriteReturns
<1>2. NoWrite \in [pc : {"idle", "sr", "fsr", "send", "discon"},
                   left : Seq(Nat), total : Nat, free : Nat]
      /\ NoWrite.pc = "idle" /\ NoWrite.total = 0
  BY DEF NoWrite
<1>3. written' \in Nat /\ written' + 0 = written + wr.total
  BY <1>1 DEF OutInv, Writing, Taken
<1>4. Writing'
  BY <1>1, <1>2 DEF Writing
<1>5. wr'.total = 0 /\ tx' = tx /\ arrived' = arrived
  BY <1>1, <1>2
<1>6. Taken'
  BY <1>1, <1>3, <1>5 DEF OutInv, Taken
<1> QED BY <1>4, <1>6 DEF OutInv

(* ioLibrary's send(): the chip takes the part of a buffer it has room for, *)
(* and the write counts that part.                                         *)
LEMMA TakesStep ==
    ASSUME OutInv, SendTakes
    PROVE  OutInv'
<1> DEFINE size == Head(wr.left)
           n    == Clamped(size)
           more == [i \in 1 .. n |-> written + wr.total + i]
<1>1. /\ wr.pc = "send" /\ wr.left # <<>> /\ wr.left \in Seq(Nat)
      /\ wr.total \in Nat /\ wr.free \in Nat /\ written \in Nat
  BY DEF SendTakes, OutInv, Writing, Taken
<1>2. /\ size \in Nat /\ Tail(wr.left) \in Seq(Nat)
      /\ Len(wr.left) # 1 => Tail(wr.left) # <<>>
  BY <1>1, CutOff
<1>3. n \in Nat
  BY <1>1, <1>2 DEF Clamped
<1>4. /\ tx' = tx \o more /\ UNCHANGED arrived
      /\ \/ wr' = NoWrite /\ written' = written + (wr.total + n)
         \/ /\ Len(wr.left) # 1 /\ UNCHANGED written
            /\ wr' = [pc |-> "sr", left |-> Tail(wr.left),
                      total |-> wr.total + n, free |-> 0]
  BY DEF SendTakes, peerVars
<1> HIDE DEF n, size
<1>5. more \in Seq(Nat) /\ Len(more) = n
      /\ \A i \in 1 .. n : more[i] = written + wr.total + i
  BY <1>1, <1>3
<1> HIDE DEF more
<1>6. /\ Follows(arrived, 0) /\ Follows(tx, Len(arrived))
      /\ Len(arrived) + Len(tx) = written + wr.total
      /\ Len(arrived) \in Nat /\ Len(tx) \in Nat
  BY DEF OutInv, Taken, Follows
<1>7. Follows(more, Len(arrived) + Len(tx))
  BY <1>1, <1>5, <1>6 DEF Follows
<1>8. Follows(tx', Len(arrived)) /\ Len(tx') = Len(tx) + n
  <2>1. Follows(tx \o more, Len(arrived)) /\ Len(tx \o more) = Len(tx) + Len(more)
    BY <1>6, <1>7, Joined
  <2> QED BY <1>4, <1>5, <2>1
<1>9. /\ Len(arrived) + Len(tx') = written + (wr.total + n)
      /\ written + (wr.total + n) \in Nat
  <2> DEFINE a == Len(arrived)
             b == Len(tx)
             c == Len(tx')
             w == written
             t == wr.total
  <2>1. /\ a \in Nat /\ b \in Nat /\ w \in Nat /\ t \in Nat /\ n \in Nat
        /\ a + b = w + t /\ c = b + n
    BY <1>1, <1>3, <1>6, <1>8
  <2> HIDE DEF a, b, c, w, t
  <2>2. a + c = w + (t + n) /\ w + (t + n) \in Nat
    BY <2>1
  <2> QED BY <2>2 DEF a, b, c, w, t
<1>10. CASE wr' = NoWrite /\ written' = written + (wr.total + n)
  <2>1. NoWrite \in [pc : {"idle", "sr", "fsr", "send", "discon"},
                     left : Seq(Nat), total : Nat, free : Nat]
        /\ NoWrite.pc = "idle" /\ NoWrite.total = 0
    BY DEF NoWrite
  <2>2. Writing'
    BY <1>10, <2>1 DEF Writing
  <2>3. Len(arrived) + Len(tx') = written' + 0 /\ written' \in Nat
    BY <1>10, <1>9
  <2>4. arrived' = arrived /\ wr'.total = 0
    BY <1>4, <1>10, <2>1
  <2>5. Taken'
    BY <1>6, <1>8, <2>3, <2>4 DEF Taken
  <2> QED BY <2>2, <2>5 DEF OutInv
<1>11. CASE /\ Len(wr.left) # 1 /\ UNCHANGED written
            /\ wr' = [pc |-> "sr", left |-> Tail(wr.left),
                      total |-> wr.total + n, free |-> 0]
  <2>1. /\ wr' \in [pc : {"idle", "sr", "fsr", "send", "discon"},
                    left : Seq(Nat), total : Nat, free : Nat]
        /\ wr'.pc = "sr" /\ wr'.left # <<>> /\ wr'.total = wr.total + n
    <3>1. wr.total \in Nat
      BY <1>1
    <3>2. wr.total + n \in Nat
      BY <1>3, <3>1
    <3>3. Tail(wr.left) \in Seq(Nat) /\ Tail(wr.left) # <<>>
      BY <1>2, <1>11
    <3> QED BY <1>11, <3>2, <3>3
  <2>2. Writing'
    BY <2>1 DEF Writing
  <2>3. Len(arrived) + Len(tx') = written + (wr.total + n)
    BY <1>9
  <2>4. arrived' = arrived /\ written' = written
    BY <1>4, <1>11
  <2>5. Taken'
    BY <1>1, <1>6, <1>8, <2>1, <2>3, <2>4 DEF Taken
  <2> QED BY <2>2, <2>5 DEF OutInv
<1> QED BY <1>4, <1>10, <1>11

(* The peer takes the first byte the chip has. *)
LEMMA PeerTakesStep ==
    ASSUME OutInv, PeerTakes
    PROVE  OutInv'
<1>1. /\ tx # <<>> /\ arrived' = Append(arrived, Head(tx)) /\ tx' = Tail(tx)
      /\ UNCHANGED <<wr, written>>
  BY DEF PeerTakes, wrVars
<1>2. /\ Follows(arrived, 0) /\ Follows(tx, Len(arrived))
      /\ arrived \in Seq(Nat) /\ tx \in Seq(Nat)
      /\ Len(arrived) \in Nat /\ Len(tx) \in Nat
      /\ Len(arrived) + Len(tx) = written + wr.total
  BY DEF OutInv, Taken, Follows
<1>3. Len(tx) > 0 /\ Head(tx) = tx[1]
  BY <1>1, <1>2
<1>4. Head(tx) = Len(arrived) + 1
  BY <1>2, <1>3 DEF Follows
<1>5. Follows(arrived', 0) /\ Len(arrived') = Len(arrived) + 1
  <2>1. Head(tx) = 0 + Len(arrived) + 1
    BY <1>2, <1>4
  <2> QED BY <1>1, <1>2, <2>1, Longer
<1>6. /\ tx' \in Seq(Nat) /\ Len(tx') = Len(tx) - 1
      /\ \A i \in 1 .. Len(tx) - 1 : tx'[i] = tx[i + 1]
  BY <1>1, <1>2, <1>3
<1>7. Follows(tx', Len(arrived'))
  <2>1. \A i \in 1 .. Len(tx) : tx[i] = Len(arrived) + i
    BY <1>2 DEF Follows
  <2>2. ASSUME NEW i \in 1 .. Len(tx')
        PROVE  tx'[i] = Len(arrived') + i
    <3>1. i \in 1 .. Len(tx) - 1 /\ i + 1 \in 1 .. Len(tx)
      BY <1>2, <1>6
    <3>2. tx'[i] = Len(arrived) + (i + 1)
      BY <1>6, <2>1, <3>1
    <3> QED BY <1>2, <1>5, <3>1, <3>2
  <2> QED BY <1>6, <2>2 DEF Follows
<1>8. Len(arrived') + Len(tx') = written + wr.total
  BY <1>2, <1>5, <1>6
<1>9. Writing' /\ Taken'
  BY <1>1, <1>5, <1>7, <1>8 DEF OutInv, Writing, Taken
<1> QED BY <1>9 DEF OutInv

(* Every step keeps what has been counted and what has been taken equal. *)
LEMMA OutStep ==
    ASSUME OutInv, [Next]_vars
    PROVE  OutInv'
<1>1. CASE \/ UNCHANGED vars
           \/ ReadCall \/ ReadStep \/ ShutRd \/ \E mode \in Modes : SetWait(mode)
           \/ PeerSends \/ PeerFin \/ SendOk \/ Gone
  <2>1. UNCHANGED <<wr, written, tx, arrived>>
    BY <1>1 DEF vars, ReadCall, Readv, ReadStep, ReadAvailable, Recv, RecvSize,
       RecvEnds, RecvGivesUp, RecvWaits, RecvCopies, RecvRefused, ShutRd,
       SetWait, PeerSends, PeerFin, SendOk, Gone, chipVars, wrVars, peerVars
  <2> QED BY <2>1, OutFrame
<1>2. ASSUME NEW v \in Vectors, Writev(v)
      PROVE  OutInv'
  <2>1. /\ wr.pc = "idle" /\ wr' = [NoWrite EXCEPT !.pc = "sr", !.left = v]
        /\ UNCHANGED <<written, tx, arrived>>
    BY <1>2 DEF Writev, chipVars, peerVars
  <2>2. v # <<>> /\ v \in Seq(Nat)
    <3>1. v # <<>> /\ v \in Seq(Nat \ {0})
      BY VectorAssumption
    <3> QED BY <3>1
  <2>3. /\ wr' \in [pc : {"idle", "sr", "fsr", "send", "discon"},
                    left : Seq(Nat), total : Nat, free : Nat]
        /\ wr'.pc = "sr" /\ wr'.left = v /\ wr'.total = 0
    BY <2>1, <2>2 DEF NoWrite
  <2>4. wr.total = 0
    BY <2>1 DEF OutInv, Writing
  <2>5. Writing'
    BY <2>2, <2>3 DEF Writing
  <2>6. Taken'
    BY <2>1, <2>3, <2>4 DEF OutInv, Taken, Follows
  <2> QED BY <2>5, <2>6 DEF OutInv
<1>3. CASE SendState \/ SendWaits
  <2>1. UNCHANGED <<tx, arrived>>
    BY <1>3 DEF SendState, SendWaits, chipVars, peerVars
  <2>2. \/ WriteReturns("error")
        \/ /\ UNCHANGED written /\ wr.pc \in {"sr", "fsr"}
           /\ \E place \in {"sr", "fsr"} : wr' = [wr EXCEPT !.pc = place]
    BY <1>3 DEF SendState, SendWaits, WriteGoto
  <2> QED BY <2>1, <2>2, WriteMoves, WriteCounts
<1>4. CASE SendRoom
  <2>1. /\ wr.pc = "fsr" /\ Free > 0
        /\ wr' = [wr EXCEPT !.pc = "send", !.free = Free]
        /\ UNCHANGED <<written, tx, arrived>>
    BY <1>4 DEF SendRoom, chipVars, peerVars
  <2>2. Free \in Nat
    <3>1. tx \in Seq(Nat)
      BY DEF OutInv, Taken, Follows
    <3> QED BY <2>1, <3>1, SizeAssumption DEF Free
  <2>3. /\ wr' \in [pc : {"idle", "sr", "fsr", "send", "discon"},
                    left : Seq(Nat), total : Nat, free : Nat]
        /\ wr'.pc = "send" /\ wr'.left = wr.left /\ wr'.total = wr.total
    BY <2>1, <2>2 DEF OutInv, Writing
  <2>4. Writing' /\ Taken'
    BY <2>1, <2>3 DEF OutInv, Writing, Taken, Follows
  <2> QED BY <2>4 DEF OutInv
<1>5. CASE SendGivesUp \/ SendBusy \/ SendRefused
  <2>1. UNCHANGED <<tx, arrived>> /\ \E otherwise : WriteReturns(otherwise)
    BY <1>5 DEF SendGivesUp, SendBusy, SendRefused, chipVars, peerVars
  <2> QED BY <2>1, WriteCounts
<1>6. CASE ShutWr
  <2>1. /\ wr.pc = "idle" /\ wr' = [wr EXCEPT !.pc = "discon"]
        /\ UNCHANGED <<written, tx, arrived>>
    BY <1>6 DEF ShutWr, WriteGoto, peerVars
  <2>2. /\ wr' \in [pc : {"idle", "sr", "fsr", "send", "discon"},
                    left : Seq(Nat), total : Nat, free : Nat]
        /\ wr'.pc = "discon" /\ wr'.total = wr.total
    BY <2>1 DEF OutInv, Writing
  <2>3. Writing' /\ Taken'
    BY <2>1, <2>2 DEF OutInv, Writing, Taken, Follows
  <2> QED BY <2>3 DEF OutInv
<1>7. CASE ShutWrReturns
  <2>1. wr.pc = "discon" /\ wr' = NoWrite
        /\ UNCHANGED <<written, wrResult, tx, arrived>>
    BY <1>7 DEF ShutWrReturns, chipVars, peerVars
  <2>2. wr.total = 0 /\ written \in Nat
    BY <2>1 DEF OutInv, Writing, Taken
  <2>3. WriteReturns(wrResult)
    BY <2>1, <2>2 DEF WriteReturns
  <2> QED BY <2>1, <2>3, WriteCounts
<1>8. CASE SendTakes
  BY <1>8, TakesStep
<1>9. CASE PeerTakes
  BY <1>9, PeerTakesStep
<1> QED BY <1>1, <1>2, <1>3, <1>4, <1>5, <1>6, <1>7, <1>8, <1>9
    DEF Next, WriteStep

(* What the chip took is the application's stream: whichever of a gather   *)
(* write's buffers stopped it, and however short, the count it returned is *)
(* what was taken.                                                         *)
THEOREM CountedIsTaken == Spec => []StreamOut
<1>1. Init => OutInv
  <2>1. ASSUME Init
        PROVE  wr = NoWrite /\ written = 0 /\ tx = <<>> /\ arrived = <<>>
    BY <2>1 DEF Init
  <2>2. <<>> \in Seq(Nat) /\ Len(<<>>) = 0 /\ Follows(<<>>, 0)
    BY DEF Follows
  <2>3. /\ NoWrite \in [pc : {"idle", "sr", "fsr", "send", "discon"},
                       left : Seq(Nat), total : Nat, free : Nat]
        /\ NoWrite.pc = "idle" /\ NoWrite.total = 0
    BY DEF NoWrite
  <2>4. SUFFICES ASSUME Init PROVE OutInv
    OBVIOUS
  <2>5. Writing
    BY <2>1, <2>3, <2>4 DEF Writing
  <2>6. Taken
    BY <2>1, <2>2, <2>3, <2>4 DEF Taken
  <2> QED BY <2>5, <2>6 DEF OutInv
<1>2. OutInv /\ [Next]_vars => OutInv'
  BY OutStep
<1>3. OutInv => StreamOut
  <2>1. SUFFICES ASSUME OutInv
                 PROVE  /\ arrived \o tx = Upto(Len(arrived \o tx))
                        /\ Len(arrived \o tx) = written + wr.total
    BY DEF StreamOut
  <2>2. Follows(arrived, 0) /\ Follows(tx, Len(arrived)) /\ Len(arrived) \in Nat
    BY <2>1 DEF OutInv, Taken, Follows
  <2>3. Follows(arrived \o tx, 0) /\ Len(arrived \o tx) = Len(arrived) + Len(tx)
    <3>1. 0 + Len(arrived) = Len(arrived)
      BY <2>2
    <3> QED BY <2>2, <3>1, Joined
  <2> QED BY <2>1, <2>3, FromTheStart DEF OutInv, Taken
<1> QED BY <1>1, <1>2, <1>3, PTL DEF Spec

-----------------------------------------------------------------------------
(* The way in *)

ReadPcs == {"idle", "avail", "recv", "rsr", "sr", "copy"}

(* Where a read is, and what it has in hand: nothing between calls, and    *)
(* nothing when it waits.  It goes to the chip for another buffer only     *)
(* when something is there, and nobody else takes it away.                 *)
Reading ==
    /\ rd \in [pc : ReadPcs, left : Seq(Nat), total : Seq(Nat)]
    /\ rd.pc \in {"idle", "sr"} => rd.total = <<>>
    /\ rd.pc # "idle" => rd.left # <<>>
    /\ rd.pc \in {"recv", "rsr", "copy"} /\ rd.total # <<>> => rx # <<>>

(* The application has the first bytes, the read in progress those that    *)
(* follow and the chip the rest of what the peer has sent.                 *)
Handed ==
    /\ Follows(got, 0)
    /\ Follows(rd.total, Len(got))
    /\ Follows(rx, Len(got) + Len(rd.total))
    /\ Len(got) + Len(rd.total) + Len(rx) = sent

InInv == Reading /\ Handed

(* Steps that are not of the read or of what it is given *)
LEMMA InFrame ==
    ASSUME InInv, UNCHANGED <<rd, rx, got, sent>>
    PROVE  InInv'
BY DEF InInv, Reading, Handed

(* A read that has been set aside holds nothing. *)
LEMMA NoReadHolds ==
    /\ NoRead \in [pc : ReadPcs, left : Seq(Nat), total : Seq(Nat)]
    /\ NoRead.pc = "idle" /\ NoRead.total = <<>>
BY DEF NoRead, ReadPcs

(* The lengths of the runs *)
LEMMA HandedLengths ==
    ASSUME InInv
    PROVE  /\ Len(got) \in Nat /\ Len(rd.total) \in Nat /\ Len(rx) \in Nat
           /\ sent \in Nat
<1>1. /\ got \in Seq(Nat) /\ rd.total \in Seq(Nat) /\ rx \in Seq(Nat)
      /\ Len(got) + Len(rd.total) + Len(rx) = sent
  BY DEF InInv, Handed, Follows
<1>2. Len(got) \in Nat /\ Len(rd.total) \in Nat /\ Len(rx) \in Nat
  BY <1>1
<1> QED BY <1>1, <1>2

(* A read moves on without returning. *)
LEMMA ReadMoves ==
    ASSUME InInv, UNCHANGED <<rx, got, sent>>,
           NEW place \in ReadPcs \ {"idle"},
           rd.pc # "idle", rd' = [rd EXCEPT !.pc = place],
           place = "sr" => rd.total = <<>>,
           place \in {"recv", "rsr", "copy"} /\ rd.total # <<>> => rx # <<>>
    PROVE  InInv'
<1>1. /\ rd' \in [pc : ReadPcs, left : Seq(Nat), total : Seq(Nat)]
      /\ rd'.pc = place /\ rd'.left = rd.left /\ rd'.total = rd.total
  BY DEF InInv, Reading
<1>2. Reading'
  BY <1>1 DEF InInv, Reading
<1>3. rx' = rx /\ got' = got /\ sent' = sent
  OBVIOUS
<1>4. Handed'
  BY <1>1, <1>3 DEF InInv, Handed
<1> QED BY <1>2, <1>4 DEF InInv

(* A read returns what it has in hand and leaves what the chip has. *)
LEMMA ReadHandsOver ==
    ASSUME InInv, NEW now, Follows(now, Len(got)), NEW rest,
           Follows(rest, Len(got) + Len(now)),
           Len(got) + Len(now) + Len(rest) = sent,
           rd' = NoRead, got' = got \o now, rx' = rest, sent' = sent
    PROVE  InInv'
<1>1. Follows(got, 0) /\ Len(got) \in Nat
  BY HandedLengths DEF InInv, Handed
<1>2. now \in Seq(Nat) /\ Len(now) \in Nat
  BY DEF Follows
<1>3. Follows(got', 0) /\ Len(got') = Len(got) + Len(now)
  <2>1. 0 + Len(got) = Len(got)
    BY <1>1
  <2> QED BY <1>1, <2>1, Joined
<1>4. Len(got') + Len(<<>>) = Len(got) + Len(now) /\ Len(<<>>) = 0
  BY <1>1, <1>2, <1>3
<1>5. Follows(<<>>, Len(got'))
  BY DEF Follows
<1>6. rd'.pc = "idle" /\ rd'.total = <<>>
  BY NoReadHolds
<1>7. Reading'
  BY <1>6, NoReadHolds DEF Reading
<1>8. Handed'
  BY <1>3, <1>4, <1>5, <1>6 DEF Handed
<1> QED BY <1>7, <1>8 DEF InInv

(* A read returns what it has in hand. *)
LEMMA ReadEnds ==
    ASSUME InInv, NEW otherwise, ReadReturns(otherwise), UNCHANGED <<rx, sent>>
    PROVE  InInv'
<1>1. rd' = NoRead /\ got' = got \o rd.total /\ rx' = rx /\ sent' = sent
  BY DEF ReadReturns
<1>2. /\ Follows(rd.total, Len(got)) /\ Follows(rx, Len(got) + Len(rd.total))
      /\ Len(got) + Len(rd.total) + Len(rx) = sent
  BY DEF InInv, Handed
<1> QED BY <1>1, <1>2, ReadHandsOver

(* ioLibrary's recv(): the first bytes of the buffer go to the read, the   *)
(* others stay.                                                            *)
LEMMA CopiesStep ==
    ASSUME InInv, RecvCopies
    PROVE  InInv'
<1> DEFINE size == Head(rd.left)
           n    == IF size < Len(rx) THEN size ELSE Len(rx)
           part == SubSeq(rx, 1, n)
           now  == rd.total \o part
           rest == Remaining(n)
<1>1. /\ rd.pc = "copy" /\ rd.left # <<>> /\ rd.left \in Seq(Nat)
      /\ Follows(rd.total, Len(got)) /\ Follows(rx, Len(got) + Len(rd.total))
      /\ Len(got) + Len(rd.total) + Len(rx) = sent
  BY DEF RecvCopies, InInv, Reading, Handed
<1>2. /\ rx' = rest /\ sent' = sent
      /\ \/ rd' = NoRead /\ got' = got \o now
         \/ /\ Len(rd.left) # 1 /\ got' = got
            /\ rd' = [pc |-> "avail", left |-> Tail(rd.left), total |-> now]
  BY DEF RecvCopies, peerVars
<1>3. size \in Nat /\ Tail(rd.left) \in Seq(Nat)
      /\ (Len(rd.left) # 1 => Tail(rd.left) # <<>>)
  BY <1>1, CutOff
<1>4. n \in 0 .. Len(rx)
  BY <1>3, HandedLengths
<1> HIDE DEF size, n
<1>5. /\ Follows(part, Len(got) + Len(rd.total)) /\ Len(part) = n
      /\ Follows(rest, (Len(got) + Len(rd.total)) + n)
      /\ Len(rest) = Len(rx) - n
  <2>1. Len(got) + Len(rd.total) \in Nat
    BY HandedLengths
  <2> QED BY <1>1, <1>4, <2>1, Parted DEF Remaining
<1> HIDE DEF part, rest
<1>6. Follows(now, Len(got)) /\ Len(now) = Len(rd.total) + n
  <2>1. Follows(rd.total \o part, Len(got))
        /\ Len(rd.total \o part) = Len(rd.total) + Len(part)
    <3>1. Len(got) \in Nat /\ Follows(rd.total, Len(got))
          /\ Follows(part, Len(got) + Len(rd.total))
      BY <1>1, <1>5, HandedLengths
    <3> QED BY <3>1, Joined
  <2> QED BY <1>5, <2>1
<1> HIDE DEF now
<1>7. /\ (Len(got) + Len(rd.total)) + n = Len(got) + Len(now)
      /\ Len(got) + Len(now) + Len(rest) = sent
  <2> DEFINE a == Len(got)
             b == Len(rd.total)
             c == Len(rx)
             d == Len(now)
             e == Len(rest)
  <2>1. /\ a \in Nat /\ b \in Nat /\ c \in Nat /\ n \in 0 .. c
        /\ a + b + c = sent /\ d = b + n /\ e = c - n
    BY <1>1, <1>4, <1>5, <1>6, HandedLengths
  <2> HIDE DEF a, b, c, d, e
  <2>2. (a + b) + n = a + d /\ a + d + e = sent
    BY <2>1
  <2> QED BY <2>2 DEF a, b, d, e
<1>8. Follows(rest, Len(got) + Len(now))
  BY <1>5, <1>7
<1>9. CASE rd' = NoRead /\ got' = got \o now
  BY <1>2, <1>6, <1>7, <1>8, <1>9, ReadHandsOver
<1>10. CASE /\ Len(rd.left) # 1 /\ got' = got
            /\ rd' = [pc |-> "avail", left |-> Tail(rd.left), total |-> now]
  <2>1. now \in Seq(Nat)
    BY <1>6 DEF Follows
  <2>2. /\ rd' \in [pc : ReadPcs, left : Seq(Nat), total : Seq(Nat)]
        /\ rd'.pc = "avail" /\ rd'.total = now /\ rd'.left # <<>>
    BY <1>3, <1>10, <2>1 DEF ReadPcs
  <2>3. Reading'
    BY <2>2 DEF Reading
  <2>4. Handed'
    BY <1>1, <1>2, <1>6, <1>7, <1>8, <1>10, <2>2 DEF InInv, Handed
  <2> QED BY <2>3, <2>4 DEF InInv
<1> QED BY <1>2, <1>9, <1>10

(* The peer's next byte goes behind those the chip has. *)
LEMMA PeerSendsStep ==
    ASSUME InInv, PeerSends
    PROVE  InInv'
<1>1. /\ rx' = Append(rx, sent + 1) /\ sent' = sent + 1
      /\ rd' = rd /\ got' = got
  BY DEF PeerSends, rdVars
<1>2. /\ Follows(rx, Len(got) + Len(rd.total))
      /\ Len(got) + Len(rd.total) + Len(rx) = sent
      /\ rx \in Seq(Nat)
  BY DEF InInv, Handed, Follows
<1>3. sent + 1 = (Len(got) + Len(rd.total)) + Len(rx) + 1
      /\ Len(got) + Len(rd.total) \in Nat
  BY <1>2, HandedLengths
<1>4. Follows(rx', Len(got) + Len(rd.total)) /\ Len(rx') = Len(rx) + 1
  BY <1>1, <1>2, <1>3, Longer
<1>5. Len(got) + Len(rd.total) + Len(rx') = sent'
  <2> DEFINE a == Len(got)
             b == Len(rd.total)
             c == Len(rx)
             d == Len(rx')
  <2>1. /\ a \in Nat /\ b \in Nat /\ c \in Nat
        /\ a + b + c = sent /\ d = c + 1
    BY <1>2, <1>4, HandedLengths
  <2> HIDE DEF a, b, c, d
  <2>2. a + b + d = sent + 1
    BY <2>1
  <2> QED BY <1>1, <2>2 DEF a, b, d
<1>6. rx' # <<>>
  BY <1>1, <1>2, HandedLengths
<1>7. Reading'
  BY <1>1, <1>6 DEF InInv, Reading
<1>8. Handed'
  BY <1>1, <1>4, <1>5 DEF InInv, Handed
<1> QED BY <1>7, <1>8 DEF InInv

(* Every step keeps the peer's stream in one piece. *)
LEMMA InStep ==
    ASSUME InInv, [Next]_vars
    PROVE  InInv'
<1>1. CASE \/ UNCHANGED vars
           \/ (\E v \in Vectors : Writev(v)) \/ WriteStep \/ ShutRd \/ ShutWr
           \/ \E mode \in Modes : SetWait(mode)
           \/ PeerFin \/ PeerTakes \/ SendOk \/ Gone
  <2>1. UNCHANGED <<rd, rx, got, sent>>
    BY <1>1 DEF vars, Writev, WriteStep, SendState, SendRoom, SendGivesUp,
       SendWaits, SendTakes, SendBusy, SendRefused, ShutWrReturns, ShutRd,
       ShutWr, SetWait, PeerFin, PeerTakes, SendOk, Gone, chipVars, rdVars,
       peerVars
  <2> QED BY <2>1, InFrame
<1>2. ASSUME NEW v \in Vectors, Readv(v)
      PROVE  InInv'
  <2>1. /\ rd.pc = "idle" /\ rd' = [pc |-> "recv", left |-> v, total |-> <<>>]
        /\ rx' = rx /\ got' = got /\ sent' = sent
    BY <1>2 DEF Readv, chipVars, peerVars
  <2>2. v # <<>> /\ v \in Seq(Nat)
    <3>1. v # <<>> /\ v \in Seq(Nat \ {0})
      BY VectorAssumption
    <3> QED BY <3>1
  <2>3. /\ rd' \in [pc : ReadPcs, left : Seq(Nat), total : Seq(Nat)]
        /\ rd'.pc = "recv" /\ rd'.left # <<>> /\ rd'.total = <<>>
    BY <2>1, <2>2 DEF ReadPcs
  <2>4. rd.total = <<>>
    BY <2>1 DEF InInv, Reading
  <2>5. Reading'
    BY <2>3 DEF Reading
  <2>6. Handed'
    BY <2>1, <2>3, <2>4 DEF InInv, Handed
  <2> QED BY <2>5, <2>6 DEF InInv
<1>3. CASE ReadAvailable \/ Recv \/ RecvSize \/ RecvWaits
  <2>1. rx' = rx /\ sent' = sent
    BY <1>3 DEF ReadAvailable, Recv, RecvSize, RecvWaits, chipVars, peerVars
  <2>2. \/ \E otherwise : ReadReturns(otherwise)
        \/ /\ got' = got /\ rd.pc # "idle"
           /\ \E place \in ReadPcs \ {"idle"} :
                /\ rd' = [rd EXCEPT !.pc = place]
                /\ place = "sr" => rd.total = <<>>
                /\ place \in {"recv", "rsr", "copy"} /\ rd.total # <<>>
                     => rx # <<>>
    <3>1. CASE ReadAvailable
      BY <3>1 DEF ReadAvailable, Available, ReadGoto, ReadPcs
    <3>2. CASE Recv
      BY <3>2 DEF Recv, ReadGoto, ReadPcs, InInv, Reading
    <3>3. CASE RecvSize
      BY <3>3 DEF RecvSize, ReadGoto, ReadPcs, InInv, Reading
    <3>4. CASE RecvWaits
      BY <3>4 DEF RecvWaits, ReadGoto, ReadPcs, InInv, Reading
    <3> QED BY <1>3, <3>1, <3>2, <3>3, <3>4
  <2> QED BY <2>1, <2>2, ReadMoves, ReadEnds
<1>4. CASE RecvEnds \/ RecvGivesUp \/ RecvRefused
  <2>1. UNCHANGED <<rx, sent>> /\ \E otherwise : ReadReturns(otherwise)
    BY <1>4 DEF RecvEnds, RecvGivesUp, RecvRefused, chipVars, peerVars
  <2> QED BY <2>1, ReadEnds
<1>5. CASE RecvCopies
  BY <1>5, CopiesStep
<1>6. CASE PeerSends
  BY <1>6, PeerSendsStep
<1> QED BY <1>1, <1>2, <1>3, <1>4, <1>5, <1>6 DEF Next, ReadCall, ReadStep

(* Every byte the peer sent is, once and in order, with the application,   *)
(* in the read in progress or in the chip, and a scatter read never waits  *)
(* with data in hand.                                                      *)
THEOREM SentIsHanded == Spec => []StreamIn
<1>1. Init => InInv
  <2>1. SUFFICES ASSUME Init PROVE InInv
    OBVIOUS
  <2>2. rd = NoRead /\ got = <<>> /\ rx = <<>> /\ sent = 0
    BY <2>1 DEF Init
  <2>3. <<>> \in Seq(Nat) /\ Len(<<>>) = 0 /\ Follows(<<>>, 0)
    BY DEF Follows
  <2>4. Reading
    BY <2>2, NoReadHolds DEF Reading
  <2>5. Handed
    BY <2>2, <2>3, NoReadHolds DEF Handed
  <2> QED BY <2>4, <2>5 DEF InInv
<1>2. InInv /\ [Next]_vars => InInv'
  BY InStep
<1>3. InInv => StreamIn
  <2>1. SUFFICES ASSUME InInv
                 PROVE  /\ (got \o rd.total) \o rx = Upto(sent)
                        /\ rd.pc = "sr" => rd.total = <<>>
    BY DEF StreamIn
  <2>2. /\ Follows(got, 0) /\ Follows(rd.total, Len(got))
        /\ Follows(rx, Len(got) + Len(rd.total))
        /\ Len(got) + Len(rd.total) + Len(rx) = sent
    BY <2>1 DEF InInv, Handed
  <2>3. 0 + Len(got) = Len(got)
        /\ 0 + (Len(got) + Len(rd.total)) = Len(got) + Len(rd.total)
    BY <2>1, HandedLengths
  <2>4. /\ Follows(got \o rd.total, 0)
        /\ Len(got \o rd.total) = Len(got) + Len(rd.total)
    BY <2>2, <2>3, Joined
  <2>5. /\ Follows((got \o rd.total) \o rx, 0)
        /\ Len((got \o rd.total) \o rx) = Len(got \o rd.total) + Len(rx)
    <3>1. Follows(rx, 0 + Len(got \o rd.total))
      BY <2>2, <2>3, <2>4
    <3> QED BY <2>4, <3>1, Joined
  <2>6. (got \o rd.total) \o rx = Upto(sent)
    BY <2>2, <2>4, <2>5, FromTheStart
  <2> QED BY <2>1, <2>6 DEF InInv, Reading
<1> QED BY <1>1, <1>2, <1>3, PTL DEF Spec

=============================================================================
