-------------------------- MODULE MotorOutputProofs --------------------------
(***************************************************************************)
(* Proofs about the motor module under preemption.  The inductive invariant*)
(* MotorInv has three parts.  Base says where every task is in its job and *)
(* how old the times are that the jobs carry.  Stops says that while the   *)
(* control task is silent the last command grows old or a stop is on its   *)
(* way.  AgreesInTheEnd says that what is still to be executed, in the     *)
(* order that the priorities give it, leaves software and registers alike. *)
(***************************************************************************)
EXTENDS MotorOutput, SequenceTheorems, TLAPS

\* What a stop writes, what a command may write, and a command with the load
\* for its stamp.
StopWrite == [op : {"duty", "pwm", "in1"}, ch : Channel, val : {0}]
CmdWrite == [op : {"duty", "pwm"}, ch : Channel, val : Duty]
            \cup [op : {"in1"}, ch : Channel, val : {0, 1}]
Stamped(n) == CmdWrite \cup {LoadTick(n)}
StopStamped(n) == StopWrite \cup {LoadTick(n)}

-----------------------------------------------------------------------------
(* What a sequence of accesses leaves behind.                              *)

Match(a, op, c) == a.op = op /\ a.ch = c

\* An access of s writes v to the field op of channel c, and none after it
\* writes anything else.
Fixes(s, op, c, v) ==
  \E k \in DOMAIN s :
    /\ Match(s[k], op, c) /\ s[k].val = v
    /\ \A j \in DOMAIN s : j > k /\ Match(s[j], op, c) => s[j].val = v

\* The field, which is cur now, is v when s has been executed.
Ends(s, op, c, v, cur) ==
  \/ Fixes(s, op, c, v)
  \/ cur = v /\ \A j \in DOMAIN s : Match(s[j], op, c) => s[j].val = v

\* The first access is made: the rest ends as the whole did.
LEMMA EndsTail ==
  ASSUME NEW A, NEW s \in Seq(A), s # <<>>, NEW op, NEW c, NEW v, NEW cur,
         Ends(s, op, c, v, cur)
  PROVE  Ends(Tail(s), op, c, v, IF Match(Head(s), op, c) THEN Head(s).val ELSE cur)
<1> DEFINE t == Tail(s)
           new == IF Match(Head(s), op, c) THEN Head(s).val ELSE cur
<1>1. /\ Len(s) \in Nat \ {0} /\ Len(t) = Len(s) - 1
      /\ DOMAIN s = 1 .. Len(s) /\ DOMAIN t = 1 .. Len(s) - 1
      /\ \A i \in DOMAIN t : t[i] = s[i + 1] /\ i + 1 \in DOMAIN s
      /\ Head(s) = s[1]
  OBVIOUS
<1> HIDE DEF t, new
<1>2. CASE cur = v /\ \A j \in DOMAIN s : Match(s[j], op, c) => s[j].val = v
  <2>1. new = v
    BY <1>1, <1>2 DEF new
  <2>2. \A j \in DOMAIN t : Match(t[j], op, c) => t[j].val = v
    BY <1>1, <1>2
  <2> QED
    BY <2>1, <2>2 DEF Ends, t, new
<1>3. CASE Fixes(s, op, c, v)
  <2>1. PICK k \in DOMAIN s :
          /\ Match(s[k], op, c) /\ s[k].val = v
          /\ \A j \in DOMAIN s : j > k /\ Match(s[j], op, c) => s[j].val = v
    BY <1>3 DEF Fixes
  <2>2. CASE k = 1
    <3>1. new = v
      BY <1>1, <2>1, <2>2 DEF new
    <3>2. \A j \in DOMAIN t : Match(t[j], op, c) => t[j].val = v
      <4> TAKE j \in DOMAIN t
      <4>1. j + 1 > k /\ j + 1 \in DOMAIN s /\ t[j] = s[j + 1]
        BY <1>1, <2>2
      <4> QED
        BY <2>1, <4>1
    <3> QED
      BY <3>1, <3>2 DEF Ends, t, new
  <2>3. CASE k # 1
    <3>1. k - 1 \in DOMAIN t /\ t[k - 1] = s[k]
      BY <1>1, <2>3
    <3>2. \A j \in DOMAIN t : j > k - 1 /\ Match(t[j], op, c) => t[j].val = v
      <4> TAKE j \in DOMAIN t
      <4>1. /\ j > k - 1 => j + 1 > k
            /\ j + 1 \in DOMAIN s /\ t[j] = s[j + 1]
        BY <1>1, <2>3
      <4> QED
        BY <2>1, <4>1
    <3> QED
      BY <2>1, <3>1, <3>2 DEF Ends, Fixes, t
  <2> QED
    BY <2>2, <2>3
<1> QED
  BY <1>2, <1>3 DEF Ends

\* What the second of two sequences fixes, both fix.
LEMMA FixesAfter ==
  ASSUME NEW A, NEW a \in Seq(A), NEW b \in Seq(A), NEW op, NEW c, NEW v,
         Fixes(b, op, c, v)
  PROVE  Fixes(a \o b, op, c, v)
<1> DEFINE s == a \o b
           n == Len(a)
<1>1. /\ n \in Nat /\ DOMAIN s = 1 .. n + Len(b) /\ DOMAIN b = 1 .. Len(b)
      /\ Len(b) \in Nat
      /\ \A i \in DOMAIN s : i > n => s[i] = b[i - n] /\ i - n \in DOMAIN b
  OBVIOUS
<1>2. \A i \in DOMAIN b : i + n \in DOMAIN s /\ i + n > n /\ (i + n) - n = i
  BY <1>1
<1> HIDE DEF s, n
<1>3. PICK k \in DOMAIN b :
        /\ Match(b[k], op, c) /\ b[k].val = v
        /\ \A j \in DOMAIN b : j > k /\ Match(b[j], op, c) => b[j].val = v
  BY DEF Fixes
<1>4. k + n \in DOMAIN s /\ s[k + n] = b[k]
  BY <1>1, <1>2
<1>5. ASSUME NEW j \in DOMAIN s, j > k + n, Match(s[j], op, c) PROVE s[j].val = v
  <2>1. j > n /\ j - n > k /\ j \in Int
    BY <1>1, <1>5
  <2>2. s[j] = b[j - n] /\ j - n \in DOMAIN b
    BY <1>1, <2>1
  <2> QED
    BY <1>3, <1>5, <2>1, <2>2
<1> QED
  BY <1>3, <1>4, <1>5 DEF Fixes, s

\* What the first one fixes, both fix if the second agrees.
LEMMA FixesBefore ==
  ASSUME NEW A, NEW a \in Seq(A), NEW b \in Seq(A), NEW op, NEW c, NEW v,
         Fixes(a, op, c, v),
         \A j \in DOMAIN b : Match(b[j], op, c) => b[j].val = v
  PROVE  Fixes(a \o b, op, c, v)
<1> DEFINE s == a \o b
           n == Len(a)
<1>1. /\ n \in Nat /\ DOMAIN a = 1 .. n /\ DOMAIN s = 1 .. n + Len(b)
      /\ Len(b) \in Nat
      /\ \A i \in DOMAIN a : i \in DOMAIN s /\ s[i] = a[i]
      /\ \A i \in DOMAIN s : i \in DOMAIN a \/ (s[i] = b[i - n] /\ i - n \in DOMAIN b)
  OBVIOUS
<1> HIDE DEF s, n
<1>2. PICK k \in DOMAIN a :
        /\ Match(a[k], op, c) /\ a[k].val = v
        /\ \A j \in DOMAIN a : j > k /\ Match(a[j], op, c) => a[j].val = v
  BY DEF Fixes
<1>3. ASSUME NEW j \in DOMAIN s, j > k, Match(s[j], op, c) PROVE s[j].val = v
  BY <1>1, <1>2, <1>3, SeqEqual
<1> QED
  BY <1>1, <1>2, <1>3 DEF Fixes, s

-----------------------------------------------------------------------------
(* The jobs.                                                               *)

\* The pin of a motor that has the duty v.
PinOf(v) == IF v = 0 THEN 0 ELSE 1

\* A sequence leaves channel c with the duty v, in the software and outside.
Leaves(s, c, v) ==
  Fixes(s, "duty", c, v) /\ Fixes(s, "pwm", c, v) /\ Fixes(s, "in1", c, PinOf(v))

\* A sequence does not write to channel c.
Spares(s, c) == \A op \in {"duty", "pwm", "in1"}, j \in DOMAIN s : ~Match(s[j], op, c)

\* Duties are clipped.
LEMMA ClipInDuty == ASSUME NEW d \in Int PROVE Clip(d) \in Duty
BY MotorAssumption DEF Clip, Duty

\* Zero is a duty.
LEMMA ZeroIsDuty == 0 \in Duty
BY MotorAssumption DEF Duty

\* A stop is a command.
LEMMA StopIsCommand ==
  ASSUME NEW n PROVE StopWrite \subseteq CmdWrite /\ StopStamped(n) \subseteq Stamped(n)
<1>1. StopWrite \subseteq CmdWrite
  BY ZeroIsDuty DEF StopWrite, CmdWrite
<1> QED
  BY <1>1 DEF StopStamped, Stamped

\* One and two are three.
LEMMA OneAndTwo == ASSUME NEW x, NEW y, NEW z PROVE <<x>> \o <<y, z>> = <<x, y, z>>
<1> DEFINE S == {x, y, z}
           a == <<x>>
           b == <<y, z>>
           s == <<x, y, z>>
<1>1. /\ a \in Seq(S) /\ b \in Seq(S) /\ s \in Seq(S)
      /\ Len(a) = 1 /\ Len(b) = 2 /\ Len(s) = 3
      /\ a[1] = x /\ b[1] = y /\ b[2] = z /\ s[1] = x /\ s[2] = y /\ s[3] = z
  OBVIOUS
<1> HIDE DEF a, b, s, S
<1>2. /\ a \o b \in Seq(S) /\ Len(a \o b) = 3
      /\ (a \o b)[1] = x /\ (a \o b)[2] = y /\ (a \o b)[3] = z
  <2>1. /\ a \o b \in Seq(S) /\ Len(a \o b) = Len(a) + Len(b)
        /\ \A i \in 1 .. Len(a) + Len(b) :
             (a \o b)[i] = IF i <= Len(a) THEN a[i] ELSE b[i - Len(a)]
    BY <1>1, ConcatProperties
  <2>2. Len(a) + Len(b) = 3 /\ \A i \in 1 .. 3 : (a \o b)[i] = IF i <= 1 THEN a[i] ELSE b[i - 1]
    BY <1>1, <2>1
  <2> QED
    BY <1>1, <2>1, <2>2
<1>3. Len(a \o b) = Len(s) /\ \A i \in 1 .. Len(a \o b) : (a \o b)[i] = s[i]
  BY <1>1, <1>2
<1>4. a \o b = s
  BY <1>1, <1>2, <1>3, SeqEqual
<1> QED
  BY <1>4 DEF a, b, s

\* Dev_Motor_SetSignedDuty: three writes, the last of each kind agree.
LEMMA DevSetForm ==
  ASSUME NEW c \in Channel, NEW d \in Duty
  PROVE  /\ DevSet(c, d) \in Seq(CmdWrite) /\ Len(DevSet(c, d)) = 3
         /\ d = 0 => DevSet(c, d) \in Seq(StopWrite)
         /\ Leaves(DevSet(c, d), c, d)
         /\ \A e \in Channel \ {c} : Spares(DevSet(c, d), e)
<1>1. SetDutyField(c, d) \in CmdWrite /\ SetPwm(c, d) \in CmdWrite
      /\ SetPin(c, 0) \in CmdWrite /\ SetPin(c, 1) \in CmdWrite
  BY DEF SetDutyField, SetPwm, SetPin, CmdWrite
<1>2. SetDutyField(c, 0) \in StopWrite /\ SetPwm(c, 0) \in StopWrite
      /\ SetPin(c, 0) \in StopWrite
  BY DEF SetDutyField, SetPwm, SetPin, StopWrite
<1>3. ASSUME NEW e \in Channel, NEW v, NEW op
      PROVE  /\ Match(SetDutyField(c, v), op, e) <=> op = "duty" /\ e = c
             /\ Match(SetPwm(c, v), op, e) <=> op = "pwm" /\ e = c
             /\ Match(SetPin(c, v), op, e) <=> op = "in1" /\ e = c
             /\ SetDutyField(c, v).val = v /\ SetPwm(c, v).val = v
             /\ SetPin(c, v).val = v
  BY DEF Match, SetDutyField, SetPwm, SetPin
<1>4. CASE d = 0
  <2>1. DevSet(c, d) = <<SetDutyField(c, d), SetPwm(c, 0), SetPin(c, 0)>>
    BY <1>4, OneAndTwo DEF DevSet, Coast
  <2> DEFINE s == <<SetDutyField(c, d), SetPwm(c, 0), SetPin(c, 0)>>
  <2>2. s \in Seq(CmdWrite) /\ Len(s) = 3 /\ s \in Seq(StopWrite)
    BY <1>1, <1>2, <1>4
  <2>3. DOMAIN s = {1, 2, 3} /\ s[1] = SetDutyField(c, d) /\ s[2] = SetPwm(c, 0)
        /\ s[3] = SetPin(c, 0)
    OBVIOUS
  <2> HIDE DEF s
  <2>4. Fixes(s, "duty", c, d)
    BY <1>3, <2>3 DEF Fixes
  <2>5. Fixes(s, "pwm", c, d)
    BY <1>3, <1>4, <2>3 DEF Fixes
  <2>6. Fixes(s, "in1", c, PinOf(d))
    BY <1>3, <1>4, <2>3 DEF Fixes, PinOf
  <2>7. \A e \in Channel \ {c} : Spares(s, e)
    BY <1>3, <2>3 DEF Spares
  <2> QED
    BY <2>1, <2>2, <2>4, <2>5, <2>6, <2>7 DEF s, Leaves
<1>5. CASE d # 0
  <2>1. DevSet(c, d) = <<SetDutyField(c, d), SetPin(c, 1), SetPwm(c, d)>>
    BY <1>5, OneAndTwo DEF DevSet, Drive
  <2> DEFINE s == <<SetDutyField(c, d), SetPin(c, 1), SetPwm(c, d)>>
  <2>2. s \in Seq(CmdWrite) /\ Len(s) = 3
    BY <1>1
  <2>3. DOMAIN s = {1, 2, 3} /\ s[1] = SetDutyField(c, d) /\ s[2] = SetPin(c, 1)
        /\ s[3] = SetPwm(c, d)
    OBVIOUS
  <2> HIDE DEF s
  <2>4. Fixes(s, "duty", c, d)
    BY <1>3, <2>3 DEF Fixes
  <2>5. Fixes(s, "pwm", c, d)
    BY <1>3, <2>3 DEF Fixes
  <2>6. Fixes(s, "in1", c, PinOf(d))
    BY <1>3, <1>5, <2>3 DEF Fixes, PinOf
  <2>7. \A e \in Channel \ {c} : Spares(s, e)
    BY <1>3, <2>3 DEF Spares
  <2> QED
    BY <1>5, <2>1, <2>2, <2>4, <2>5, <2>6, <2>7 DEF s, Leaves
<1> QED
  BY <1>4, <1>5

\* Neither the load of the tick nor the store of the stamp writes to a channel.
LEMMA StampSpares ==
  ASSUME NEW n, NEW v, NEW c
  PROVE  Spares(<<LoadTick(n)>>, c) /\ Spares(<<Stamp(n, v)>>, c)
BY DEF Spares, Match, LoadTick, Stamp

\* A sequence that spares a channel changes nothing of what is left there.
LEMMA LeavesBefore ==
  ASSUME NEW A, NEW a \in Seq(A), NEW b \in Seq(A), NEW c, NEW v,
         Leaves(a, c, v), Spares(b, c)
  PROVE  Leaves(a \o b, c, v)
<1>1. \A w : \A op \in {"duty", "pwm", "in1"} :
        \A j \in DOMAIN b : Match(b[j], op, c) => b[j].val = w
  BY DEF Spares
<1> QED
  BY <1>1, FixesBefore DEF Leaves

\* What comes last counts.
LEMMA LeavesAfter ==
  ASSUME NEW A, NEW a \in Seq(A), NEW b \in Seq(A), NEW c, NEW v, Leaves(b, c, v)
  PROVE  Leaves(a \o b, c, v)
BY FixesAfter DEF Leaves

\* A subset of accesses makes a subset of sequences.
LEMMA SeqMono ==
  ASSUME NEW A, NEW B, A \subseteq B, NEW s \in Seq(A) PROVE s \in Seq(B)
OBVIOUS

\* The length of two sequences.
LEMMA LenOfBoth ==
  ASSUME NEW A, NEW a \in Seq(A), NEW b \in Seq(A)
  PROVE  a \o b \in Seq(A) /\ Len(a \o b) = Len(a) + Len(b)
BY ConcatProperties

\* Two sequences that spare a channel.
LEMMA BothSpare ==
  ASSUME NEW A, NEW a \in Seq(A), NEW b \in Seq(A), NEW c, Spares(a, c), Spares(b, c)
  PROVE  Spares(a \o b, c)
<1> DEFINE s == a \o b
           n == Len(a)
<1>1. /\ n \in Nat /\ DOMAIN a = 1 .. n /\ DOMAIN s = 1 .. n + Len(b)
      /\ Len(b) \in Nat
      /\ \A i \in DOMAIN s : \/ i \in DOMAIN a /\ s[i] = a[i]
                             \/ s[i] = b[i - n] /\ i - n \in DOMAIN b
  OBVIOUS
<1> HIDE DEF s, n
<1> QED
  BY <1>1 DEF Spares, s

\* BSP_Motor_SetDuty
LEMMA BspSetForm ==
  ASSUME NEW c \in Channel, NEW d \in Int, NEW n
  PROVE  /\ BspSet(c, d, n) \in Seq(Stamped(n)) /\ Len(BspSet(c, d, n)) = 4
         /\ d = 0 => BspSet(c, d, n) \in Seq(StopStamped(n))
         /\ Leaves(BspSet(c, d, n), c, Clip(d))
         /\ \A e \in Channel \ {c} : Spares(BspSet(c, d, n), e)
<1> DEFINE s == DevSet(c, Clip(d))
           t == <<LoadTick(n)>>
<1>1. Clip(d) \in Duty /\ (d = 0 => Clip(d) = 0)
  BY ClipInDuty, MotorAssumption DEF Clip
<1>2. /\ s \in Seq(CmdWrite) /\ Len(s) = 3 /\ (d = 0 => s \in Seq(StopWrite))
      /\ Leaves(s, c, Clip(d)) /\ \A e \in Channel \ {c} : Spares(s, e)
  BY <1>1, DevSetForm
<1>3. /\ CmdWrite \subseteq Stamped(n) /\ StopWrite \subseteq StopStamped(n)
      /\ LoadTick(n) \in Stamped(n) /\ LoadTick(n) \in StopStamped(n)
  BY DEF Stamped, StopStamped
<1>4. t \in Seq(Stamped(n)) /\ t \in Seq(StopStamped(n)) /\ Len(t) = 1
  BY <1>3
<1>5. \A e : Spares(t, e)
  BY StampSpares
<1> HIDE DEF s, t
<1>6. s \in Seq(Stamped(n)) /\ (d = 0 => s \in Seq(StopStamped(n)))
  BY <1>2, <1>3, SeqMono
<1>7. s \o t \in Seq(Stamped(n)) /\ Len(s \o t) = 4
  <2>1. s \o t \in Seq(Stamped(n)) /\ Len(s \o t) = Len(s) + Len(t)
    BY <1>2, <1>4, <1>6, LenOfBoth
  <2> QED
    BY <1>2, <1>4, <1>6, <2>1
<1>8. d = 0 => s \o t \in Seq(StopStamped(n))
  BY <1>4, <1>6
<1>9. Leaves(s \o t, c, Clip(d))
  BY <1>2, <1>4, <1>5, <1>6, LeavesBefore
<1>10. \A e \in Channel \ {c} : Spares(s \o t, e)
  BY <1>2, <1>4, <1>5, <1>6, BothSpare
<1> QED
  BY <1>7, <1>8, <1>9, <1>10 DEF BspSet, s, t

\* The commands of both motors.
LEMMA BspSetBothForm ==
  ASSUME NEW d \in Int \X Int, NEW n
  PROVE  /\ BspSetBoth(d, n) \in Seq(Stamped(n)) /\ Len(BspSetBoth(d, n)) = 8
         /\ d = <<0, 0>> => BspSetBoth(d, n) \in Seq(StopStamped(n))
         /\ \A c \in Channel : Leaves(BspSetBoth(d, n), c, Clip(d[c]))
<1> DEFINE a == BspSet(1, d[1], n)
           b == BspSet(2, d[2], n)
<1>1. d[1] \in Int /\ d[2] \in Int /\ 1 \in Channel /\ 2 \in Channel
  BY DEF Channel
<1>2. /\ a \in Seq(Stamped(n)) /\ Len(a) = 4
      /\ d[1] = 0 => a \in Seq(StopStamped(n))
      /\ Leaves(a, 1, Clip(d[1]))
  BY <1>1, BspSetForm
<1>3. /\ b \in Seq(Stamped(n)) /\ Len(b) = 4
      /\ d[2] = 0 => b \in Seq(StopStamped(n))
      /\ Leaves(b, 2, Clip(d[2]))
      /\ Spares(b, 1)
  BY <1>1, BspSetForm DEF Channel
<1> HIDE DEF a, b
<1>4. a \o b \in Seq(Stamped(n)) /\ Len(a \o b) = 8
  <2>1. a \o b \in Seq(Stamped(n)) /\ Len(a \o b) = Len(a) + Len(b)
    BY <1>2, <1>3, LenOfBoth
  <2> QED
    BY <1>2, <1>3, <2>1
<1>5. d = <<0, 0>> => a \o b \in Seq(StopStamped(n))
  BY <1>2, <1>3
<1>6. Leaves(a \o b, 1, Clip(d[1]))
  BY <1>2, <1>3, LeavesBefore
<1>7. Leaves(a \o b, 2, Clip(d[2]))
  BY <1>2, <1>3, LeavesAfter
<1> QED
  BY <1>4, <1>5, <1>6, <1>7 DEF BspSetBoth, a, b, Channel

\* The stop of both motors.
LEMMA StopBothForm ==
  ASSUME NEW n
  PROVE  /\ StopBoth(n) \in Seq(StopStamped(n)) /\ Len(StopBoth(n)) = 8
         /\ \A c \in Channel : Leaves(StopBoth(n), c, 0)
<1>1. <<0, 0>> \in Int \X Int /\ Clip(0) = 0
  BY MotorAssumption DEF Clip
<1>2. \A c \in Channel : <<0, 0>>[c] = 0
  BY DEF Channel
<1> QED
  BY <1>1, <1>2, BspSetBothForm DEF StopBoth

\* The stops of BSP_Motor_SafetyTick are not stamped.
SafetyStops == DevSet(1, 0) \o DevSet(2, 0)

\* They leave both channels off.
LEMMA SafetyStopsForm ==
  /\ SafetyStops \in Seq(StopWrite) /\ Len(SafetyStops) = 6
  /\ \A c \in Channel : Leaves(SafetyStops, c, 0)
<1> DEFINE a == DevSet(1, 0)
           b == DevSet(2, 0)
<1>1. a \in Seq(StopWrite) /\ Len(a) = 3 /\ Leaves(a, 1, 0)
  BY DevSetForm, ZeroIsDuty DEF Channel
<1>2. b \in Seq(StopWrite) /\ Len(b) = 3 /\ Leaves(b, 2, 0) /\ Spares(b, 1)
  BY DevSetForm, ZeroIsDuty DEF Channel
<1> HIDE DEF a, b
<1>3. a \o b \in Seq(StopWrite) /\ Len(a \o b) = 6
  <2>1. a \o b \in Seq(StopWrite) /\ Len(a \o b) = Len(a) + Len(b)
    BY <1>1, <1>2, LenOfBoth
  <2> QED
    BY <1>1, <1>2, <2>1
<1>4. Leaves(a \o b, 1, 0)
  BY <1>1, <1>2, LeavesBefore
<1>5. Leaves(a \o b, 2, 0)
  BY <1>1, <1>2, LeavesAfter
<1> QED
  BY <1>3, <1>4, <1>5 DEF SafetyStops, a, b, Channel

\* A job of the control task writes the tick, and then to both motors.
LEMMA CtrlJobForm ==
  ASSUME NEW n, NEW job \in CtrlJobs(n)
  PROVE  \E rest \in Seq(Stamped(n)) :
           /\ job = <<SetGlobalTick(n)>> \o rest
           /\ Len(rest) <= 24
           /\ \A c \in Channel : \E v \in Duty : Leaves(rest, c, v)
<1>1. PICK stop \in StateStops(n), d \in Commands :
        job = <<SetGlobalTick(n)>> \o stop \o BspSetBoth(d, n)
  BY DEF CtrlJobs
<1> DEFINE A == Stamped(n) \cup {SetGlobalTick(n)}
           g == <<SetGlobalTick(n)>>
           both == BspSetBoth(d, n)
           rest == stop \o both
<1>2. d \in Int \X Int /\ d[1] \in Int /\ d[2] \in Int
  BY MotorAssumption
<1>3. /\ both \in Seq(Stamped(n)) /\ Len(both) = 8
      /\ \A c \in Channel : Leaves(both, c, Clip(d[c]))
  BY <1>2, BspSetBothForm
<1>4. stop \in Seq(Stamped(n)) /\ Len(stop) \in {0, 8, 16}
  <2>1. CASE stop = <<>>
    BY <2>1
  <2>2. StopBoth(n) \in Seq(Stamped(n)) /\ Len(StopBoth(n)) = 8
    BY StopBothForm, StopIsCommand, SeqMono
  <2>3. CASE stop = StopBoth(n)
    BY <2>2, <2>3
  <2>4. CASE stop = StopBoth(n) \o StopBoth(n)
    <3> DEFINE one == StopBoth(n)
    <3>1. one \in Seq(Stamped(n)) /\ Len(one) = 8
      BY <2>2
    <3> HIDE DEF one
    <3>2. one \o one \in Seq(Stamped(n)) /\ Len(one \o one) = Len(one) + Len(one)
      BY <3>1, LenOfBoth
    <3>3. one \o one \in Seq(Stamped(n)) /\ Len(one \o one) = 16
      BY <3>1, <3>2
    <3>4. stop = one \o one
      BY <2>4 DEF one
    <3> QED
      BY <3>3, <3>4
  <2> QED
    BY <2>1, <2>3, <2>4 DEF StateStops
<1>5. \A c \in Channel : Clip(d[c]) \in Duty
  BY <1>2, ClipInDuty DEF Channel
<1>6. g \in Seq(A) /\ stop \in Seq(A) /\ both \in Seq(A)
  <2>1. Stamped(n) \subseteq A /\ SetGlobalTick(n) \in A
    OBVIOUS
  <2> QED
    BY <1>3, <1>4, <2>1, SeqMono
<1> HIDE DEF A, g, both
<1>7. (g \o stop) \o both = g \o rest
  BY <1>6, ConcatAssociative
<1> HIDE DEF rest
<1>8. rest \in Seq(Stamped(n)) /\ Len(rest) <= 24
  <2>1. stop \o both \in Seq(Stamped(n)) /\ Len(stop \o both) = Len(stop) + Len(both)
    BY <1>3, <1>4, LenOfBoth
  <2>2. Len(stop) + Len(both) <= 24
    <3>1. \A l \in {0, 8, 16} : l + 8 <= 24
      OBVIOUS
    <3> QED
      BY <1>3, <1>4, <3>1
  <2> QED
    BY <2>1, <2>2 DEF rest
<1>9. \A c \in Channel : Leaves(rest, c, Clip(d[c]))
  BY <1>3, <1>4, LeavesAfter DEF rest
<1> QED
  BY <1>1, <1>5, <1>7, <1>8, <1>9 DEF g, both

-----------------------------------------------------------------------------
(* Where the tasks are.                                                    *)

Values ==
  /\ tick \in 0 .. MaxTick /\ gTick \in 0 .. tick /\ lastCmd \in 0 .. tick
  /\ duty \in [Channel -> Duty] /\ pwm \in [Channel -> Duty]
  /\ in1 \in [Channel -> {0, 1}]
  /\ fault \in BOOLEAN /\ torn \in BOOLEAN
  /\ fastWait \in 0 .. FastWindow
  /\ idle \in 0 .. IdleCap /\ cmdAge \in 0 .. CmdCap
  /\ todo = [t \in TaskName |-> todo[t]]

TelemForm ==
  todo["telem"] = <<>> \/ \E n \in 0 .. tick : todo["telem"] = <<SetGlobalTick(n)>>

\* The control task is before its first access, or has made it: the global
\* tick is not older than its own from then on, whoever writes it, and neither
\* is what it has loaded of it.
CtrlForm ==
  \E n \in 0 .. tick : \E s \in Seq(Stamped(n)) :
    /\ Len(s) <= 24
    /\ \/ todo["ctrl"] = <<SetGlobalTick(n)>> \o s
       \/ todo["ctrl"] = s /\ n <= gTick
       \/ \E v \in n .. gTick : todo["ctrl"] = <<Stamp(n, v)>> \o s
    /\ \A m \in 0 .. tick : todo["fast"] = <<SetGlobalTick(m), Safety(m)>> => n <= m

\* The `now` of the fast task is as fresh as its last SafetyTick, and nothing
\* is newer: tasks of lower priority have to wait.
FastTime(n) == tick - n <= fastWait /\ lastCmd <= n /\ gTick <= n

FastForm ==
  \/ todo["fast"] \in Seq(StopWrite) /\ Len(todo["fast"]) <= 6
  \/ \E n \in 0 .. tick :
       /\ FastTime(n)
       /\ \/ todo["fast"] = <<SetGlobalTick(n), Safety(n)>>
          \/ todo["fast"] = <<Safety(n)>>

\* What the health task has loaded of the tick is not newer than the tick.
HealthForm ==
  \E s \in Seq(StopStamped(0)) :
    /\ Len(s) <= 8
    /\ \/ todo["health"] = s
       \/ \E v \in 0 .. gTick : todo["health"] = <<Stamp(0, v)>> \o s

\* Up to the first fault, the job of the last command is not older than what
\* it has stamped.
CommandAge == ~fault => cmdAge = CmdCap \/ tick - lastCmd <= cmdAge

Base ==
  /\ Values /\ TelemForm /\ CtrlForm /\ FastForm /\ HealthForm
  /\ CommandAge
  /\ todo["health"] # <<>> => fault
  /\ todo["ctrl"] # <<>> => idle = 0

\* Every access of a job but the load of the tick, whatever task makes it.
Perform(t) ==
  LET a == Head(todo[t]) IN
  /\ HasProcessor(t) /\ todo[t] # <<>>
  /\ a.op \in {"gtick", "duty", "in1", "pwm", "stamp"}
  /\ gTick' = IF a.op = "gtick" THEN a.at ELSE gTick
  /\ duty' = IF a.op = "duty" THEN [duty EXCEPT ![a.ch] = a.val] ELSE duty
  /\ in1' = IF a.op = "in1" THEN [in1 EXCEPT ![a.ch] = a.val] ELSE in1
  /\ pwm' = IF a.op = "pwm" THEN [pwm EXCEPT ![a.ch] = a.val] ELSE pwm
  /\ lastCmd' = IF a.op = "stamp" THEN a.val ELSE lastCmd
  /\ cmdAge' = IF a.op = "stamp" /\ t = "ctrl" THEN Capped(tick - a.at, CmdCap)
                                               ELSE cmdAge
  /\ torn' = IF a.op = "duty" THEN Tears(t) ELSE torn
  /\ idle' = IF t = "ctrl" THEN 0 ELSE idle
  /\ todo' = [todo EXCEPT ![t] = Tail(@)]
  /\ UNCHANGED <<tick, fault, fastWait>>

\* A step of a task starts a job, makes an access or loads the tick.
LEMMA StepIsAccess ==
  ASSUME NEW t \in TaskName, TaskStep(t)
  PROVE  Start(t) \/ Perform(t) \/ LoadGlobalTick(t)
<1>1. CASE WriteGlobalTick(t)
  BY <1>1 DEF WriteGlobalTick, Executes, Continue, Perform, hardware
<1>2. CASE WriteDuty(t)
  BY <1>2 DEF WriteDuty, Executes, Continue, Perform, hardware
<1>3. CASE WritePin(t)
  BY <1>3 DEF WritePin, Executes, Continue, Perform, hardware
<1>4. CASE WritePwm(t)
  BY <1>4 DEF WritePwm, Executes, Continue, Perform, hardware
<1>5. CASE StampCommand(t)
  BY <1>5 DEF StampCommand, Executes, Continue, Perform, hardware
<1>6. CASE LoadGlobalTick(t)
  BY <1>6
<1> QED
  BY <1>1, <1>2, <1>3, <1>4, <1>5, <1>6 DEF TaskStep

\* Only the task that makes a step has another job after it.
LEMMA OthersKeep ==
  ASSUME Values, NEW t \in TaskName, NEW e, todo' = [todo EXCEPT ![t] = e]
  PROVE  /\ todo'[t] = e
         /\ \A u \in TaskName \ {t} : todo'[u] = todo[u]
         /\ todo' = [u \in TaskName |-> todo'[u]]
BY DEF Values

\* Tasks of a higher priority are asleep.
LEMMA Preemption ==
  /\ HasProcessor("telem") =>
       todo["ctrl"] = <<>> /\ todo["fast"] = <<>> /\ todo["health"] = <<>>
  /\ HasProcessor("ctrl") => todo["fast"] = <<>> /\ todo["health"] = <<>>
  /\ HasProcessor("fast") => todo["health"] = <<>>
BY DEF HasProcessor, Priority, TaskName

\* The first of a sequence, and the others.
LEMMA HeadAndTail ==
  ASSUME NEW A, NEW x \in A, NEW s \in Seq(A)
  PROVE  /\ Head(<<x>> \o s) = x /\ Tail(<<x>> \o s) = s /\ <<x>> \o s # <<>>
         /\ <<x>> \o s \in Seq(A) /\ Len(<<x>> \o s) = Len(s) + 1
<1> DEFINE w == <<x>> \o s
<1>1. <<x>> \in Seq(A) /\ Len(<<x>>) = 1 /\ <<x>>[1] = x
  OBVIOUS
<1>2. /\ w \in Seq(A) /\ Len(w) = 1 + Len(s) /\ Len(s) \in Nat
      /\ \A i \in 1 .. Len(w) : w[i] = IF i <= 1 THEN x ELSE s[i - 1]
  <2>1. /\ w \in Seq(A) /\ Len(w) = Len(<<x>>) + Len(s)
        /\ \A i \in 1 .. Len(<<x>>) + Len(s) :
             w[i] = IF i <= Len(<<x>>) THEN <<x>>[i] ELSE s[i - Len(<<x>>)]
    BY <1>1, ConcatProperties
  <2> QED
    BY <1>1, <2>1
<1> HIDE DEF w
<1>3. w[1] = x /\ \A i \in 1 .. Len(s) : w[i + 1] = s[i]
  BY <1>2
<1>4. /\ w # <<>> /\ Head(w) = x /\ Tail(w) \in Seq(A) /\ Len(Tail(w)) = Len(s)
      /\ \A i \in 1 .. Len(Tail(w)) : Tail(w)[i] = s[i]
  BY <1>2, <1>3
<1>5. Tail(w) = s
  BY <1>4, SeqEqual
<1> QED
  BY <1>2, <1>4, <1>5 DEF w

\* An access before a sequence of others.
LEMMA OneMore ==
  ASSUME NEW A, NEW x, NEW s \in Seq(A)
  PROVE  /\ Head(<<x>> \o s) = x /\ Tail(<<x>> \o s) = s /\ <<x>> \o s # <<>>
         /\ <<x>> \o s \in Seq(A \cup {x}) /\ Len(<<x>> \o s) = Len(s) + 1
<1> DEFINE B == A \cup {x}
<1>1. x \in B /\ s \in Seq(B)
  BY SeqMono
<1> HIDE DEF B
<1>2. /\ Head(<<x>> \o s) = x /\ Tail(<<x>> \o s) = s /\ <<x>> \o s # <<>>
      /\ <<x>> \o s \in Seq(B) /\ Len(<<x>> \o s) = Len(s) + 1
  BY <1>1, HeadAndTail
<1> QED
  BY <1>2 DEF B

-----------------------------------------------------------------------------
(* The duty fields when commands stop.                                     *)

\* A task has still to write to the duty field of a channel.
Pending(t, c) == \E i \in DOMAIN todo[t] : Match(todo[t][i], "duty", c)

\* The duty is 0, or a stop is going to make it so.
OffSoon(c) == duty[c] = 0 \/ Pending("fast", c) \/ Pending("health", c)

\* A stop of the health task stops both motors.
HealthStops == todo["health"] # <<>> => \A c \in Channel : OffSoon(c)

\* While the control task is silent the last command grows old, or a stop has
\* taken its place.
SilenceAges ==
  todo["ctrl"] = <<>> => lastCmd <= tick - idle \/ \A c \in Channel : OffSoon(c)

\* A SafetyTick that came late enough in the silence has stopped the motors.
TimeoutWorks ==
  idle - fastWait > Timeout + FastWindow
    => \A c \in Channel : duty[c] = 0 \/ Pending("fast", c)

Stops == HealthStops /\ SilenceAges /\ TimeoutWorks

-----------------------------------------------------------------------------
(* The software and the registers.                                         *)

\* What is still to be executed, in the order in which it will be.
Rest == todo["health"] \o (todo["fast"] \o todo["ctrl"])

\* After a sequence, channel c has the duty v in the software and outside.
EndsAt(s, c, v) ==
  /\ Ends(s, "duty", c, v, duty[c])
  /\ Ends(s, "pwm", c, v, pwm[c])
  /\ Ends(s, "in1", c, PinOf(v), in1[c])

Intrudes == \E c \in Channel : Pending("fast", c) \/ Pending("health", c)

\* No stop falls, or is going to fall, into a job of the control task.
Undisturbed == ~torn /\ (todo["ctrl"] = <<>> \/ ~Intrudes)

\* Then the two agree in the end.
AgreesInTheEnd ==
  Undisturbed => \A c \in Channel : \E v \in Duty : EndsAt(Rest, c, v)

-----------------------------------------------------------------------------
(* The first part of the invariant is kept.                                *)

\* What a start leaves alone.
StartKeeps ==
  UNCHANGED <<tick, gTick, duty, in1, pwm, lastCmd, fastWait, cmdAge>>

\* The telemetry task has a time to write.
LEMMA StartTelem ==
  ASSUME Base, Start("telem")
  PROVE  /\ StartKeeps /\ fault' = fault /\ torn' = torn /\ idle' = idle
         /\ todo'["telem"] = <<SetGlobalTick(tick)>>
         /\ \A u \in TaskName \ {"telem"} : todo'[u] = todo[u]
         /\ todo' = [u \in TaskName |-> todo'[u]]
<1>1. PICK job \in Jobs("telem", tick) : todo' = [todo EXCEPT !["telem"] = job]
  BY DEF Start
<1>2. job = <<SetGlobalTick(tick)>>
  BY DEF Jobs
<1>3. "telem" \in TaskName
  BY DEF TaskName
<1>4. fault' = fault /\ fault \in BOOLEAN
  BY Zenon DEF Start, Base, Values
<1> QED
  BY <1>1, <1>2, <1>3, <1>4, OthersKeep DEF Start, StartKeeps, hardware, Base

\* The control task has a job, and no other task is in one that it waits for.
LEMMA StartCtrl ==
  ASSUME Base, Start("ctrl")
  PROVE  /\ StartKeeps /\ fault' = fault /\ torn' = FALSE /\ idle' = 0
         /\ todo["fast"] = <<>> /\ todo["health"] = <<>>
         /\ \E rest \in Seq(Stamped(tick)) :
              /\ todo'["ctrl"] = <<SetGlobalTick(tick)>> \o rest
              /\ Len(rest) <= 24
              /\ \A c \in Channel : \E v \in Duty : Leaves(rest, c, v)
         /\ \A u \in TaskName \ {"ctrl"} : todo'[u] = todo[u]
         /\ todo' = [u \in TaskName |-> todo'[u]]
<1>1. PICK job \in Jobs("ctrl", tick) : todo' = [todo EXCEPT !["ctrl"] = job]
  BY DEF Start
<1>2. job \in CtrlJobs(tick)
  BY DEF Jobs
<1>3. "ctrl" \in TaskName
  BY DEF TaskName
<1>4. fault' = fault /\ fault \in BOOLEAN
  BY Zenon DEF Start, Base, Values
<1>5. todo'["ctrl"] = job /\ (\A u \in TaskName \ {"ctrl"} : todo'[u] = todo[u])
      /\ todo' = [u \in TaskName |-> todo'[u]]
  BY <1>1, <1>3, OthersKeep DEF Base
<1>6. todo["fast"] = <<>> /\ todo["health"] = <<>>
  BY Preemption DEF Start
<1>7. StartKeeps /\ torn' = FALSE /\ idle' = 0
  BY DEF Start, StartKeeps, hardware
<1> QED
  BY <1>2, <1>4, <1>5, <1>6, <1>7, CtrlJobForm

\* The fast task has a time to write and a test to make.
LEMMA StartFast ==
  ASSUME Base, Start("fast")
  PROVE  /\ StartKeeps /\ fault' = fault /\ torn' = torn /\ idle' = idle
         /\ todo["fast"] = <<>> /\ todo["health"] = <<>>
         /\ todo'["fast"] = <<SetGlobalTick(tick), Safety(tick)>>
         /\ \A u \in TaskName \ {"fast"} : todo'[u] = todo[u]
         /\ todo' = [u \in TaskName |-> todo'[u]]
<1>1. PICK job \in Jobs("fast", tick) : todo' = [todo EXCEPT !["fast"] = job]
  BY DEF Start
<1>2. job = <<SetGlobalTick(tick), Safety(tick)>>
  BY DEF Jobs
<1>3. "fast" \in TaskName
  BY DEF TaskName
<1>4. fault' = fault /\ fault \in BOOLEAN
  BY Zenon DEF Start, Base, Values
<1>5. todo["fast"] = <<>> /\ todo["health"] = <<>>
  BY Preemption DEF Start
<1> QED
  BY <1>1, <1>2, <1>3, <1>4, <1>5, OthersKeep DEF Start, StartKeeps, hardware, Base

\* The health task has found a fault and stops both motors.
LEMMA StartHealth ==
  ASSUME Base, Start("health")
  PROVE  /\ StartKeeps /\ fault' = TRUE /\ torn' = torn /\ idle' = idle
         /\ todo["health"] = <<>>
         /\ todo'["health"] = StopBoth(0)
         /\ \A u \in TaskName \ {"health"} : todo'[u] = todo[u]
         /\ todo' = [u \in TaskName |-> todo'[u]]
<1>1. PICK job \in Jobs("health", tick) : todo' = [todo EXCEPT !["health"] = job]
  BY DEF Start
<1>2. job = StopBoth(0)
  BY DEF Jobs
<1>3. "health" \in TaskName
  BY DEF TaskName
<1>4. fault' = TRUE
  BY Zenon DEF Start, Base, Values
<1> QED
  BY <1>1, <1>2, <1>3, <1>4, OthersKeep DEF Start, StartKeeps, hardware, Base

\* Starts keep the forms of all jobs.
LEMMA StartKeepsBase ==
  ASSUME Base, NEW t \in TaskName, Start(t)
  PROVE  Base'
<1>1. CASE t = "telem"
  <2>1. Start("telem")
    BY <1>1
  <2>2. /\ StartKeeps /\ fault' = fault /\ torn' = torn /\ idle' = idle
        /\ todo'["telem"] = <<SetGlobalTick(tick)>>
        /\ todo'["ctrl"] = todo["ctrl"] /\ todo'["fast"] = todo["fast"]
        /\ todo'["health"] = todo["health"]
        /\ todo' = [u \in TaskName |-> todo'[u]]
    BY <2>1, StartTelem DEF TaskName
  <2>3. Values' /\ CommandAge'
    BY <2>2 DEF Base, Values, CommandAge, StartKeeps
  <2>4. TelemForm'
    BY <2>2 DEF Base, Values, TelemForm, StartKeeps
  <2>5. CtrlForm' /\ FastForm' /\ HealthForm'
    BY <2>2 DEF Base, CtrlForm, FastForm, HealthForm, StartKeeps, FastTime
  <2> QED
    BY <2>2, <2>3, <2>4, <2>5 DEF Base
<1>2. CASE t = "ctrl"
  <2>1. Start("ctrl")
    BY <1>2
  <2>2. /\ StartKeeps /\ fault' = fault /\ torn' = FALSE /\ idle' = 0
        /\ todo'["telem"] = todo["telem"] /\ todo'["fast"] = <<>>
        /\ todo["fast"] = <<>> /\ todo'["health"] = todo["health"]
        /\ todo' = [u \in TaskName |-> todo'[u]]
    BY <2>1, StartCtrl DEF TaskName
  <2>3. PICK rest \in Seq(Stamped(tick)) :
          todo'["ctrl"] = <<SetGlobalTick(tick)>> \o rest /\ Len(rest) <= 24
    BY <2>1, StartCtrl
  <2>4. Values' /\ CommandAge'
    <3>1. 0 \in 0 .. IdleCap
      BY MotorAssumption DEF IdleCap
    <3> QED
      BY <2>2, <3>1 DEF Base, Values, CommandAge, StartKeeps
  <2>5. CtrlForm'
    <3>1. \A m : <<>> # <<SetGlobalTick(m), Safety(m)>>
      OBVIOUS
    <3>2. tick' = tick /\ tick \in 0 .. tick
      BY <2>2 DEF StartKeeps, Base, Values
    <3> QED
      BY <2>2, <2>3, <3>1, <3>2 DEF CtrlForm
  <2>6. TelemForm' /\ FastForm' /\ HealthForm'
    BY <2>2 DEF Base, TelemForm, FastForm, HealthForm, StartKeeps, FastTime
  <2> QED
    BY <2>2, <2>4, <2>5, <2>6 DEF Base
<1>3. CASE t = "fast"
  <2>1. Start("fast")
    BY <1>3
  <2>2. /\ StartKeeps /\ fault' = fault /\ torn' = torn /\ idle' = idle
        /\ todo'["fast"] = <<SetGlobalTick(tick), Safety(tick)>>
        /\ todo'["ctrl"] = todo["ctrl"] /\ todo'["telem"] = todo["telem"]
        /\ todo'["health"] = todo["health"]
        /\ todo' = [u \in TaskName |-> todo'[u]]
    BY <2>1, StartFast DEF TaskName
  <2>3. Values' /\ CommandAge'
    BY <2>2 DEF Base, Values, CommandAge, StartKeeps
  <2>4. FastForm'
    <3>1. /\ tick' = tick /\ tick \in 0 .. tick
          /\ tick' - tick <= fastWait' /\ lastCmd' <= tick /\ gTick' <= tick
      BY <2>2 DEF Base, Values, StartKeeps
    <3> QED
      BY <2>2, <3>1 DEF FastForm, FastTime
  <2>5. CtrlForm'
    <3>1. PICK n \in 0 .. tick : \E s \in Seq(Stamped(n)) :
            /\ Len(s) <= 24
            /\ \/ todo["ctrl"] = <<SetGlobalTick(n)>> \o s
               \/ todo["ctrl"] = s /\ n <= gTick
               \/ \E v \in n .. gTick : todo["ctrl"] = <<Stamp(n, v)>> \o s
      BY DEF Base, CtrlForm
    <3>2. ASSUME NEW m, <<SetGlobalTick(tick), Safety(tick)>> = <<SetGlobalTick(m), Safety(m)>>
          PROVE  m = tick
      <4>1. SetGlobalTick(tick) = SetGlobalTick(m)
        BY <3>2
      <4> QED
        BY <4>1 DEF SetGlobalTick
    <3>3. \A m \in 0 .. tick : todo'["fast"] = <<SetGlobalTick(m), Safety(m)>> => n <= m
      BY <2>2, <3>2
    <3> QED
      BY <2>2, <3>1, <3>3 DEF CtrlForm, StartKeeps
  <2>6. TelemForm' /\ HealthForm'
    BY <2>2 DEF Base, TelemForm, HealthForm, StartKeeps
  <2> QED
    BY <2>2, <2>3, <2>4, <2>5, <2>6 DEF Base
<1>4. CASE t = "health"
  <2>1. Start("health")
    BY <1>4
  <2>2. /\ StartKeeps /\ fault' = TRUE /\ torn' = torn /\ idle' = idle
        /\ todo'["health"] = StopBoth(0)
        /\ todo'["ctrl"] = todo["ctrl"] /\ todo'["telem"] = todo["telem"]
        /\ todo'["fast"] = todo["fast"]
        /\ todo' = [u \in TaskName |-> todo'[u]]
    BY <2>1, StartHealth DEF TaskName
  <2>3. Values' /\ CommandAge'
    BY <2>2 DEF Base, Values, CommandAge, StartKeeps
  <2>4. HealthForm'
    <3> DEFINE job == StopBoth(0)
    <3>1. job \in Seq(StopStamped(0)) /\ Len(job) = 8
      BY StopBothForm
    <3> HIDE DEF job
    <3>2. Len(job) <= 8
      BY <3>1
    <3>3. todo'["health"] = job
      BY <2>2 DEF job
    <3> QED
      BY <3>1, <3>2, <3>3 DEF HealthForm
  <2>5. TelemForm' /\ CtrlForm' /\ FastForm'
    BY <2>2 DEF Base, TelemForm, CtrlForm, FastForm, StartKeeps, FastTime
  <2> QED
    BY <2>2, <2>3, <2>4, <2>5 DEF Base
<1> QED
  BY <1>1, <1>2, <1>3, <1>4 DEF TaskName

\* An access of a sequence is one of its accesses, and so are the others.
LEMMA FirstOfSeq ==
  ASSUME NEW A, NEW s \in Seq(A), s # <<>>
  PROVE  Head(s) \in A /\ Tail(s) \in Seq(A) /\ Len(s) = Len(Tail(s)) + 1
OBVIOUS

\* A command's write changes one output, within its range; its stamp changes
\* none.
LEMMA OutputTypes ==
  ASSUME Base, NEW t \in TaskName, Perform(t), NEW n, NEW v,
         Head(todo[t]) \in CmdWrite \cup {Stamp(n, v)}
  PROVE  /\ gTick' = gTick
         /\ duty' \in [Channel -> Duty] /\ pwm' \in [Channel -> Duty]
         /\ in1' \in [Channel -> {0, 1}]
<1> DEFINE a == Head(todo[t])
<1>1. CASE a = Stamp(n, v)
  <2>1. a.op = "stamp"
    BY <1>1 DEF Stamp
  <2> QED
    BY <2>1 DEF Perform, Base, Values
<1>2. CASE a \in [op : {"duty", "pwm"}, ch : Channel, val : Duty]
  <2>1. a.op \in {"duty", "pwm"} /\ a.ch \in Channel /\ a.val \in Duty
    BY <1>2
  <2> QED
    BY <2>1 DEF Perform, Base, Values
<1>3. CASE a \in [op : {"in1"}, ch : Channel, val : {0, 1}]
  <2>1. a.op = "in1" /\ a.ch \in Channel /\ a.val \in {0, 1}
    BY <1>3
  <2> QED
    BY <2>1 DEF Perform, Base, Values
<1> QED
  BY <1>1, <1>2, <1>3 DEF CmdWrite

\* What an access does to the jobs and to what no access changes.
LEMMA PerformKeeps ==
  ASSUME Base, NEW t \in TaskName, Perform(t)
  PROVE  /\ tick' = tick /\ fault' = fault /\ fastWait' = fastWait
         /\ todo[t] # <<>> /\ todo'[t] = Tail(todo[t])
         /\ \A u \in TaskName \ {t} : todo'[u] = todo[u]
         /\ todo' = [u \in TaskName |-> todo'[u]]
<1>1. todo' = [todo EXCEPT ![t] = Tail(todo[t])]
  BY DEF Perform
<1>2. fault' = fault
  BY Zenon DEF Perform
<1> QED
  BY <1>1, <1>2, OthersKeep DEF Perform, Base

\* The flag of a torn job stays one.
LEMMA TornType ==
  ASSUME Base, NEW t \in TaskName, Perform(t) PROVE torn' \in BOOLEAN
<1>1. torn' = Tears(t) \/ torn' = torn
  BY Zenon DEF Perform
<1>2. torn \in BOOLEAN
  BY Zenon DEF Base, Values
<1> QED
  BY Zenon, <1>1, <1>2 DEF Tears

\* The telemetry task writes the global tick, and nobody else has a job.
LEMMA PerformTelem ==
  ASSUME Base, Perform("telem")
  PROVE  /\ gTick' \in 0 .. tick /\ todo'["telem"] = <<>>
         /\ todo["ctrl"] = <<>> /\ todo["fast"] = <<>> /\ todo["health"] = <<>>
         /\ UNCHANGED <<duty, in1, pwm, lastCmd, cmdAge, idle>>
         /\ torn' = torn
<1>1. PICK n \in 0 .. tick : todo["telem"] = <<SetGlobalTick(n)>>
  BY DEF Base, TelemForm, Perform
<1>2. Head(todo["telem"]) = SetGlobalTick(n) /\ Tail(todo["telem"]) = <<>>
  BY <1>1
<1>3. /\ Head(todo["telem"]).op = "gtick" /\ Head(todo["telem"]).at = n
  BY <1>2 DEF SetGlobalTick
<1>4. torn' = torn
  BY Zenon, <1>3 DEF Perform
<1>5. todo'["telem"] = <<>>
  BY <1>2, PerformKeeps DEF TaskName
<1>6. /\ gTick' \in 0 .. tick
      /\ UNCHANGED <<duty, in1, pwm, lastCmd, cmdAge, idle>>
  BY <1>1, <1>3 DEF Perform
<1> QED
  BY <1>4, <1>5, <1>6, Preemption DEF Perform

\* An access of the control task is the tick of its job, or belongs to a
\* command of that tick and follows it; nothing of a higher priority is at work.
LEMMA PerformCtrl ==
  ASSUME Base, Perform("ctrl")
  PROVE  /\ todo["fast"] = <<>> /\ todo["health"] = <<>> /\ idle' = 0
         /\ \E n \in 0 .. tick :
              /\ todo'["ctrl"] \in Seq(Stamped(n)) /\ Len(todo'["ctrl"]) <= 24
              /\ \/ /\ Head(todo["ctrl"]) = SetGlobalTick(n)
                    /\ gTick' = n
                    /\ UNCHANGED <<duty, in1, pwm, lastCmd, cmdAge>>
                    /\ torn' = torn
                 \/ n <= gTick /\ Head(todo["ctrl"]) \in CmdWrite
                 \/ \E v \in n .. gTick : Head(todo["ctrl"]) = Stamp(n, v)
<1>1. PICK n \in 0 .. tick : \E s \in Seq(Stamped(n)) :
        /\ Len(s) <= 24
        /\ \/ todo["ctrl"] = <<SetGlobalTick(n)>> \o s
           \/ todo["ctrl"] = s /\ n <= gTick
           \/ \E v \in n .. gTick : todo["ctrl"] = <<Stamp(n, v)>> \o s
  BY DEF Base, CtrlForm
<1>2. PICK s \in Seq(Stamped(n)) :
        /\ Len(s) <= 24
        /\ \/ todo["ctrl"] = <<SetGlobalTick(n)>> \o s
           \/ todo["ctrl"] = s /\ n <= gTick
           \/ \E v \in n .. gTick : todo["ctrl"] = <<Stamp(n, v)>> \o s
  BY <1>1
<1>3. todo["fast"] = <<>> /\ todo["health"] = <<>>
  BY Preemption DEF Perform
<1>4. todo["ctrl"] # <<>> /\ todo'["ctrl"] = Tail(todo["ctrl"]) /\ idle' = 0
  <2>1. idle' = 0
    BY DEF Perform
  <2> QED
    BY <2>1, PerformKeeps DEF TaskName
<1>5. CASE todo["ctrl"] = <<SetGlobalTick(n)>> \o s
  <2>1. Head(todo["ctrl"]) = SetGlobalTick(n) /\ Tail(todo["ctrl"]) = s
    BY <1>5, OneMore
  <2>2. Head(todo["ctrl"]).op = "gtick" /\ Head(todo["ctrl"]).at = n
    BY <2>1 DEF SetGlobalTick
  <2>3. torn' = torn
    BY Zenon, <2>2 DEF Perform
  <2>4. gTick' = n /\ UNCHANGED <<duty, in1, pwm, lastCmd, cmdAge>>
    BY <2>2 DEF Perform
  <2> QED
    BY <1>2, <1>3, <1>4, <2>1, <2>3, <2>4
<1>6. CASE todo["ctrl"] = s /\ n <= gTick
  <2>1. Head(s) \in Stamped(n) /\ Tail(s) \in Seq(Stamped(n)) /\ Len(s) = Len(Tail(s)) + 1
    BY <1>4, <1>6, FirstOfSeq
  <2>2. Len(Tail(s)) <= 24
    BY <1>2, <2>1
  <2>3. Head(s) # LoadTick(n)
    BY <1>6 DEF Perform, LoadTick
  <2>4. Head(s) \in CmdWrite
    BY <2>1, <2>3 DEF Stamped
  <2> QED
    BY <1>3, <1>4, <1>6, <2>1, <2>2, <2>4
<1>7. ASSUME NEW v \in n .. gTick, todo["ctrl"] = <<Stamp(n, v)>> \o s
      PROVE  Head(todo["ctrl"]) = Stamp(n, v) /\ todo'["ctrl"] = s
  BY <1>4, <1>7, OneMore
<1> QED
  BY <1>2, <1>3, <1>4, <1>5, <1>6, <1>7

\* An access of the fast task is the tick of its job or belongs to a stop.
LEMMA PerformFast ==
  ASSUME Base, Perform("fast")
  PROVE  /\ todo["health"] = <<>> /\ idle' = idle /\ lastCmd' = lastCmd
         /\ cmdAge' = cmdAge
         /\ \/ /\ todo["fast"] \in Seq(StopWrite)
               /\ todo'["fast"] \in Seq(StopWrite) /\ Len(todo'["fast"]) <= 6
               /\ Head(todo["fast"]) \in StopWrite
            \/ \E n \in 0 .. tick :
                 /\ FastTime(n)
                 /\ todo["fast"] = <<SetGlobalTick(n), Safety(n)>>
                 /\ todo'["fast"] = <<Safety(n)>>
                 /\ gTick' = n
                 /\ UNCHANGED <<duty, in1, pwm>>
                 /\ torn' = torn
<1>1. todo["fast"] # <<>> /\ todo'["fast"] = Tail(todo["fast"])
  BY PerformKeeps DEF TaskName
<1>2. todo["health"] = <<>> /\ idle' = idle
  BY Preemption DEF Perform
<1>3. CASE todo["fast"] \in Seq(StopWrite) /\ Len(todo["fast"]) <= 6
  <2>1. /\ Head(todo["fast"]) \in StopWrite /\ Tail(todo["fast"]) \in Seq(StopWrite)
        /\ Len(todo["fast"]) = Len(Tail(todo["fast"])) + 1
    BY <1>1, <1>3, FirstOfSeq
  <2>2. Len(Tail(todo["fast"])) <= 6
    BY <1>3, <2>1
  <2>3. Head(todo["fast"]).op # "stamp"
    BY <2>1 DEF StopWrite
  <2>4. lastCmd' = lastCmd /\ cmdAge' = cmdAge
    BY <2>3 DEF Perform
  <2> QED
    BY <1>1, <1>2, <1>3, <2>1, <2>2, <2>4
<1>4. ASSUME NEW n \in 0 .. tick, FastTime(n),
             \/ todo["fast"] = <<SetGlobalTick(n), Safety(n)>>
             \/ todo["fast"] = <<Safety(n)>>
      PROVE  /\ todo["fast"] = <<SetGlobalTick(n), Safety(n)>>
             /\ todo'["fast"] = <<Safety(n)>> /\ gTick' = n
             /\ UNCHANGED <<duty, in1, pwm, lastCmd, cmdAge>>
             /\ torn' = torn
  <2>1. CASE todo["fast"] = <<Safety(n)>>
    <3>1. Head(todo["fast"]).op = "safety"
      BY <2>1 DEF Safety
    <3> QED
      BY <3>1 DEF Perform
  <2>2. CASE todo["fast"] = <<SetGlobalTick(n), Safety(n)>>
    <3>1. Head(todo["fast"]) = SetGlobalTick(n) /\ Tail(todo["fast"]) = <<Safety(n)>>
      BY <2>2
    <3>2. Head(todo["fast"]).op = "gtick" /\ Head(todo["fast"]).at = n
      BY <3>1 DEF SetGlobalTick
    <3>3. torn' = torn
      BY Zenon, <3>2 DEF Perform
    <3> QED
      BY <1>1, <2>2, <3>1, <3>2, <3>3 DEF Perform
  <2> QED
    BY <1>4, <2>1, <2>2
<1> QED
  BY <1>2, <1>3, <1>4 DEF Base, FastForm

\* What the health task has loaded of the tick, to be stored.
HealthStamp == {Stamp(0, v) : v \in 0 .. gTick}

\* An access of the health task belongs to a stop.
LEMMA PerformHealth ==
  ASSUME Base, Perform("health")
  PROVE  /\ fault /\ idle' = idle /\ cmdAge' = cmdAge
         /\ todo["health"] \in Seq(StopStamped(0) \cup HealthStamp)
         /\ todo'["health"] \in Seq(StopStamped(0)) /\ Len(todo'["health"]) <= 8
         /\ Head(todo["health"]) \in StopWrite \cup HealthStamp
<1>1. todo["health"] # <<>> /\ todo'["health"] = Tail(todo["health"])
  BY PerformKeeps DEF TaskName
<1>2. fault
  BY Zenon, <1>1 DEF Base
<1>3. idle' = idle /\ cmdAge' = cmdAge
  BY DEF Perform
<1>4. PICK s \in Seq(StopStamped(0)) :
        /\ Len(s) <= 8
        /\ \/ todo["health"] = s
           \/ \E v \in 0 .. gTick : todo["health"] = <<Stamp(0, v)>> \o s
  BY DEF Base, HealthForm
<1>5. CASE todo["health"] = s
  <2>1. Head(s) \in StopStamped(0) /\ Tail(s) \in Seq(StopStamped(0)) /\ Len(s) = Len(Tail(s)) + 1
    BY <1>1, <1>5, FirstOfSeq
  <2>2. Len(Tail(s)) <= 8
    BY <1>4, <2>1
  <2>3. Head(s) # LoadTick(0)
    BY <1>5 DEF Perform, LoadTick
  <2>4. Head(s) \in StopWrite
    BY <2>1, <2>3 DEF StopStamped
  <2>5. s \in Seq(StopStamped(0) \cup HealthStamp)
    BY SeqMono
  <2> QED
    BY <1>1, <1>2, <1>3, <1>5, <2>1, <2>2, <2>4, <2>5
<1>6. ASSUME NEW v \in 0 .. gTick, todo["health"] = <<Stamp(0, v)>> \o s
      PROVE  /\ todo["health"] \in Seq(StopStamped(0) \cup HealthStamp)
             /\ Head(todo["health"]) \in HealthStamp /\ todo'["health"] = s
  <2>1. Stamp(0, v) \in HealthStamp
    BY DEF HealthStamp
  <2>2. /\ todo["health"] \in Seq(StopStamped(0) \cup {Stamp(0, v)})
        /\ Head(todo["health"]) = Stamp(0, v) /\ Tail(todo["health"]) = s
    BY <1>6, OneMore
  <2>3. StopStamped(0) \cup {Stamp(0, v)} \subseteq StopStamped(0) \cup HealthStamp
    BY <2>1
  <2> QED
    BY <1>1, <2>1, <2>2, <2>3, SeqMono
<1> QED
  BY <1>2, <1>3, <1>4, <1>5, <1>6

\* A sleeping task has none of its accesses left.
LEMMA SleepIsForm ==
  /\ todo["health"] = <<>> => HealthForm
  /\ todo'["health"] = <<>> => HealthForm'
<1>1. <<>> \in Seq(StopStamped(0)) /\ Len(<<>>) <= 8
  OBVIOUS
<1> QED
  BY <1>1 DEF HealthForm

\* The job of the health task, with what it has loaded.
LEMMA HealthIsSeq ==
  ASSUME Base PROVE todo["health"] \in Seq(StopStamped(0) \cup HealthStamp)
<1>1. PICK s \in Seq(StopStamped(0)) :
        \/ todo["health"] = s
        \/ \E v \in 0 .. gTick : todo["health"] = <<Stamp(0, v)>> \o s
  BY DEF Base, HealthForm
<1>2. s \in Seq(StopStamped(0) \cup HealthStamp)
  BY SeqMono
<1>3. ASSUME NEW v \in 0 .. gTick, todo["health"] = <<Stamp(0, v)>> \o s
      PROVE  todo["health"] \in Seq(StopStamped(0) \cup HealthStamp)
  <2>1. Stamp(0, v) \in StopStamped(0) \cup HealthStamp
    BY DEF HealthStamp
  <2> QED
    BY <1>2, <1>3, <2>1, HeadAndTail
<1> QED
  BY <1>1, <1>2, <1>3

\* Accesses keep the forms of all jobs.
LEMMA PerformKeepsBase ==
  ASSUME Base, NEW t \in TaskName, Perform(t)
  PROVE  Base'
<1>1. CASE t = "telem"
  <2>1. Perform("telem")
    BY <1>1
  <2>2. /\ gTick' \in 0 .. tick /\ todo'["telem"] = <<>>
        /\ todo["ctrl"] = <<>> /\ todo["fast"] = <<>> /\ todo["health"] = <<>>
        /\ UNCHANGED <<duty, in1, pwm, lastCmd, cmdAge, idle>> /\ torn' = torn
    BY <2>1, PerformTelem
  <2>3. /\ tick' = tick /\ fault' = fault /\ fastWait' = fastWait
        /\ todo'["ctrl"] = <<>> /\ todo'["fast"] = <<>> /\ todo'["health"] = <<>>
        /\ todo' = [u \in TaskName |-> todo'[u]]
    BY <2>1, <2>2, PerformKeeps DEF TaskName
  <2>4. Values' /\ CommandAge'
    BY <2>2, <2>3 DEF Base, Values, CommandAge
  <2>5. CtrlForm'
    <3>1. /\ 0 \in 0 .. tick' /\ 0 <= gTick' /\ <<>> \in Seq(Stamped(0)) /\ Len(<<>>) <= 24
      BY <2>2, <2>3 DEF Base, Values
    <3>2. \A m : <<>> # <<SetGlobalTick(m), Safety(m)>>
      OBVIOUS
    <3> QED
      BY <2>3, <3>1, <3>2 DEF CtrlForm
  <2>6. FastForm' /\ TelemForm'
    BY <2>2, <2>3 DEF FastForm, TelemForm
  <2>7. HealthForm'
    BY <2>3, SleepIsForm
  <2> QED
    BY <2>2, <2>3, <2>4, <2>5, <2>6, <2>7 DEF Base
<1>2. CASE t = "ctrl"
  <2>1. Perform("ctrl")
    BY <1>2
  <2>2. PICK n \in 0 .. tick :
          /\ todo'["ctrl"] \in Seq(Stamped(n)) /\ Len(todo'["ctrl"]) <= 24
          /\ \/ /\ Head(todo["ctrl"]) = SetGlobalTick(n)
                /\ gTick' = n
                /\ UNCHANGED <<duty, in1, pwm, lastCmd, cmdAge>>
                /\ torn' = torn
             \/ n <= gTick /\ Head(todo["ctrl"]) \in CmdWrite
             \/ \E v \in n .. gTick : Head(todo["ctrl"]) = Stamp(n, v)
    BY <2>1, PerformCtrl
  <2>3. /\ tick' = tick /\ fault' = fault /\ fastWait' = fastWait /\ idle' = 0
        /\ todo["fast"] = <<>> /\ todo'["fast"] = <<>> /\ todo'["health"] = <<>>
        /\ todo'["telem"] = todo["telem"]
        /\ todo' = [u \in TaskName |-> todo'[u]]
    BY <2>1, PerformKeeps, PerformCtrl DEF TaskName
  <2>4. n <= gTick' /\ gTick' \in 0 .. tick
    BY <2>1, <2>2, OutputTypes DEF Base, Values, TaskName
  <2>5. /\ duty' \in [Channel -> Duty] /\ pwm' \in [Channel -> Duty]
        /\ in1' \in [Channel -> {0, 1}] /\ torn' \in BOOLEAN
    <3>1. torn' \in BOOLEAN
      BY <2>1, TornType DEF TaskName
    <3> QED
      BY <2>1, <2>2, <3>1, OutputTypes DEF Base, Values, TaskName
  <2>6. \/ lastCmd' = lastCmd /\ cmdAge' = cmdAge
        \/ /\ lastCmd' \in n .. gTick
           /\ cmdAge' = Capped(tick - n, CmdCap)
    <3>1. CASE UNCHANGED <<duty, in1, pwm, lastCmd, cmdAge>>
      BY <3>1
    <3>2. CASE n <= gTick /\ Head(todo["ctrl"]) \in CmdWrite
      <4>1. Head(todo["ctrl"]).op # "stamp"
        BY <3>2 DEF CmdWrite
      <4> QED
        BY <2>1, <4>1 DEF Perform
    <3>3. ASSUME NEW v \in n .. gTick, Head(todo["ctrl"]) = Stamp(n, v)
          PROVE  lastCmd' = v /\ cmdAge' = Capped(tick - n, CmdCap)
      <4>1. /\ Head(todo["ctrl"]).op = "stamp" /\ Head(todo["ctrl"]).at = n
            /\ Head(todo["ctrl"]).val = v
        BY <3>3 DEF Stamp
      <4> QED
        BY <2>1, <4>1 DEF Perform
    <3> QED
      BY <2>2, <3>1, <3>2, <3>3
  <2>7. /\ lastCmd' \in 0 .. tick /\ cmdAge' \in 0 .. CmdCap
        /\ (CommandAge => (~fault => cmdAge' = CmdCap \/ tick - lastCmd' <= cmdAge'))
    <3>1. CmdCap \in Nat
      BY MotorAssumption DEF CmdCap
    <3> QED
      BY <2>6, <3>1 DEF Base, Values, CommandAge, Capped
  <2>8. Values' /\ CommandAge'
    <3>1. 0 \in 0 .. IdleCap
      BY MotorAssumption DEF IdleCap
    <3>2. CommandAge'
      BY <2>3, <2>7 DEF CommandAge, Base
    <3> QED
      BY <2>3, <2>4, <2>5, <2>7, <3>1, <3>2 DEF Base, Values
  <2>9. CtrlForm'
    <3>1. \A m : <<>> # <<SetGlobalTick(m), Safety(m)>>
      OBVIOUS
    <3> QED
      BY <2>2, <2>3, <2>4, <3>1 DEF CtrlForm
  <2>10. FastForm' /\ TelemForm' /\ HealthForm'
    BY <2>3, SleepIsForm DEF Base, FastForm, TelemForm
  <2> QED
    BY <2>3, <2>8, <2>9, <2>10 DEF Base
<1>3. CASE t = "fast"
  <2>1. Perform("fast")
    BY <1>3
  <2>2. /\ idle' = idle /\ lastCmd' = lastCmd /\ cmdAge' = cmdAge
    BY <2>1, PerformFast
  <2>3. /\ tick' = tick /\ fault' = fault /\ fastWait' = fastWait
        /\ todo'["ctrl"] = todo["ctrl"] /\ todo'["health"] = <<>>
        /\ todo'["telem"] = todo["telem"]
        /\ todo' = [u \in TaskName |-> todo'[u]]
    BY <2>1, PerformKeeps, PerformFast DEF TaskName
  <2>4. CASE /\ todo'["fast"] \in Seq(StopWrite) /\ Len(todo'["fast"]) <= 6
             /\ Head(todo["fast"]) \in StopWrite
             /\ todo["fast"] \in Seq(StopWrite)
    <3>1. Head(todo["fast"]) \in CmdWrite
      BY <2>4, StopIsCommand
    <3>2. /\ duty' \in [Channel -> Duty] /\ pwm' \in [Channel -> Duty]
          /\ in1' \in [Channel -> {0, 1}] /\ torn' \in BOOLEAN /\ gTick' = gTick
      BY <2>1, <3>1, OutputTypes, TornType DEF TaskName
    <3>3. Values' /\ CommandAge'
      BY <2>2, <2>3, <3>2 DEF Base, Values, CommandAge
    <3>4. FastForm'
      BY <2>4 DEF FastForm
    <3>5. \A m : todo'["fast"] # <<SetGlobalTick(m), Safety(m)>>
      <4> SUFFICES ASSUME NEW m, todo'["fast"] = <<SetGlobalTick(m), Safety(m)>>
                   PROVE  FALSE
        OBVIOUS
      <4>1. SetGlobalTick(m) \in StopWrite
        <5>1. Head(todo'["fast"]) = SetGlobalTick(m) /\ todo'["fast"] # <<>>
          OBVIOUS
        <5> QED
          BY <2>4, <5>1, FirstOfSeq
      <4> QED
        BY <4>1 DEF StopWrite, SetGlobalTick
    <3>6. CtrlForm'
      BY <2>3, <3>2, <3>5 DEF Base, CtrlForm
    <3>7. TelemForm' /\ HealthForm'
      BY <2>3, SleepIsForm DEF Base, TelemForm
    <3> QED
      BY <2>2, <2>3, <3>3, <3>4, <3>6, <3>7 DEF Base
  <2>5. ASSUME NEW n \in 0 .. tick, FastTime(n),
               todo["fast"] = <<SetGlobalTick(n), Safety(n)>>,
               todo'["fast"] = <<Safety(n)>>, gTick' = n,
               UNCHANGED <<duty, in1, pwm>>, torn' = torn
        PROVE  Base'
    <3>1. Values' /\ CommandAge'
      BY <2>2, <2>3, <2>5 DEF Base, Values, CommandAge
    <3>2. FastForm'
      <4>1. /\ n \in 0 .. tick' /\ tick' - n <= fastWait' /\ lastCmd' <= n /\ gTick' <= n
        BY <2>2, <2>3, <2>5 DEF FastTime
      <4> QED
        BY <2>5, <4>1 DEF FastForm, FastTime
    <3>3. CtrlForm'
      <4>1. PICK k \in 0 .. tick : \E s \in Seq(Stamped(k)) :
              /\ Len(s) <= 24
              /\ \/ todo["ctrl"] = <<SetGlobalTick(k)>> \o s
                 \/ todo["ctrl"] = s /\ k <= gTick
                 \/ \E v \in k .. gTick : todo["ctrl"] = <<Stamp(k, v)>> \o s
              /\ \A m \in 0 .. tick : todo["fast"] = <<SetGlobalTick(m), Safety(m)>> => k <= m
        BY DEF Base, CtrlForm
      <4>2. k <= n
        BY <2>5, <4>1
      <4>3. \A m : <<Safety(n)>> # <<SetGlobalTick(m), Safety(m)>>
        <5>1. \A m : Len(<<Safety(n)>>) # Len(<<SetGlobalTick(m), Safety(m)>>)
          OBVIOUS
        <5> QED
          BY <5>1
      <4> QED
        <5>1. gTick <= gTick' /\ gTick \in Int /\ gTick' \in Int
          BY <2>5 DEF FastTime, Base, Values
        <5>2. \A v \in k .. gTick : v \in k .. gTick'
          BY <5>1
        <5> QED
          BY <2>3, <2>5, <4>1, <4>2, <4>3, <5>2 DEF CtrlForm
    <3>4. TelemForm' /\ HealthForm'
      BY <2>3, SleepIsForm DEF Base, TelemForm
    <3> QED
      BY <2>2, <2>3, <3>1, <3>2, <3>3, <3>4 DEF Base
  <2> QED
    BY <2>1, <2>4, <2>5, PerformFast
<1>4. CASE t = "health"
  <2>1. Perform("health")
    BY <1>4
  <2>2. /\ todo'["health"] \in Seq(StopStamped(0)) /\ Len(todo'["health"]) <= 8
        /\ Head(todo["health"]) \in StopWrite \cup HealthStamp
    BY <2>1, PerformHealth
  <2>3. /\ tick' = tick /\ fault' = fault /\ fastWait' = fastWait
        /\ todo'["ctrl"] = todo["ctrl"] /\ todo'["fast"] = todo["fast"]
        /\ todo'["telem"] = todo["telem"]
        /\ todo' = [u \in TaskName |-> todo'[u]]
    BY <2>1, PerformKeeps DEF TaskName
  <2>4. /\ duty' \in [Channel -> Duty] /\ pwm' \in [Channel -> Duty]
        /\ in1' \in [Channel -> {0, 1}] /\ torn' \in BOOLEAN /\ gTick' = gTick
    BY <2>1, <2>2, StopIsCommand, OutputTypes, TornType DEF TaskName, HealthStamp
  <2>5. /\ lastCmd' = lastCmd \/ lastCmd' \in 0 .. gTick
        /\ idle' = idle /\ cmdAge' = cmdAge
    <3>1. CASE Head(todo["health"]) \in StopWrite
      <4>1. Head(todo["health"]).op # "stamp"
        BY <3>1 DEF StopWrite
      <4> QED
        BY <2>1, <4>1, PerformHealth DEF Perform
    <3>2. ASSUME NEW v \in 0 .. gTick, Head(todo["health"]) = Stamp(0, v)
          PROVE  lastCmd' = v
      BY <2>1, <3>2 DEF Perform, Stamp
    <3> QED
      BY <2>1, <2>2, <3>1, <3>2, PerformHealth DEF HealthStamp
  <2>6. fault
    BY <2>1, PerformHealth
  <2>7. Values'
    BY <2>3, <2>4, <2>5 DEF Base, Values
  <2>8. CommandAge' /\ fault'
    BY Zenon, <2>3, <2>6 DEF CommandAge
  <2>9. FastForm'
    <3>1. CASE todo["fast"] \in Seq(StopWrite) /\ Len(todo["fast"]) <= 6
      BY <2>3, <3>1 DEF FastForm
    <3>2. ASSUME NEW m \in 0 .. tick, FastTime(m)
          PROVE  m \in 0 .. tick' /\ tick' - m <= fastWait' /\ lastCmd' <= m /\ gTick' <= m
      BY <2>3, <2>4, <2>5, <3>2 DEF FastTime, Base, Values
    <3> QED
      BY <2>3, <3>1, <3>2 DEF Base, FastForm, FastTime
  <2>10. CtrlForm' /\ TelemForm'
    BY <2>3, <2>4 DEF Base, CtrlForm, TelemForm
  <2>11. HealthForm'
    BY <2>2, <2>3 DEF HealthForm
  <2>12. (todo["ctrl"] # <<>> => idle = 0)'
    BY <2>3, <2>5 DEF Base
  <2> QED
    BY <2>7, <2>8, <2>9, <2>10, <2>11, <2>12 DEF Base
<1> QED
  BY <1>1, <1>2, <1>3, <1>4 DEF TaskName

\* What is to be loaded is at the head of a job of the control task, which
\* has written the tick of its job, or of the health task.
LEMMA LoadIsFirst ==
  ASSUME Base, NEW t \in TaskName, LoadGlobalTick(t)
  PROVE  /\ t \in {"ctrl", "health"}
         /\ t = "ctrl" =>
              /\ todo["fast"] = <<>> /\ todo["health"] = <<>>
              /\ \E n \in 0 .. tick :
                   /\ n <= gTick /\ Head(todo[t]) = LoadTick(n)
                   /\ Tail(todo[t]) \in Seq(Stamped(n)) /\ Len(Tail(todo[t])) <= 24
         /\ t = "health" =>
              /\ Head(todo[t]) = LoadTick(0)
              /\ Tail(todo[t]) \in Seq(StopStamped(0)) /\ Len(Tail(todo[t])) <= 8
<1>1. HasProcessor(t) /\ todo[t] # <<>> /\ Head(todo[t]).op = "load"
  BY DEF LoadGlobalTick, Executes
<1>2. \A n, v : /\ SetGlobalTick(n).op # "load" /\ Safety(n).op # "load"
               /\ Stamp(n, v).op # "load"
  BY DEF SetGlobalTick, Safety, Stamp
<1>3. \A a \in CmdWrite : a.op # "load"
  BY DEF CmdWrite
<1>4. t # "telem"
  <2>1. ASSUME NEW n, todo["telem"] = <<SetGlobalTick(n)>>
        PROVE  Head(todo["telem"]).op # "load"
    BY <1>2, <2>1
  <2> QED
    BY <1>1, <2>1 DEF Base, TelemForm
<1>5. t # "fast"
  <2>1. ASSUME todo["fast"] \in Seq(StopWrite), todo["fast"] # <<>>
        PROVE  Head(todo["fast"]).op # "load"
    <3>1. Head(todo["fast"]) \in StopWrite
      BY <2>1, FirstOfSeq
    <3> QED
      BY <1>3, <3>1, StopIsCommand
  <2>2. ASSUME NEW n, \/ todo["fast"] = <<SetGlobalTick(n), Safety(n)>>
                      \/ todo["fast"] = <<Safety(n)>>
        PROVE  Head(todo["fast"]).op # "load"
    <3>1. Head(todo["fast"]) \in {SetGlobalTick(n), Safety(n)}
      BY <2>2
    <3> QED
      BY <1>2, <3>1
  <2> QED
    BY <1>1, <2>1, <2>2 DEF Base, FastForm
<1>6. CASE t = "ctrl"
  <2>1. todo["fast"] = <<>> /\ todo["health"] = <<>>
    BY <1>1, <1>6, Preemption
  <2>2. PICK n \in 0 .. tick : \E s \in Seq(Stamped(n)) :
          /\ Len(s) <= 24
          /\ \/ todo["ctrl"] = <<SetGlobalTick(n)>> \o s
             \/ todo["ctrl"] = s /\ n <= gTick
             \/ \E v \in n .. gTick : todo["ctrl"] = <<Stamp(n, v)>> \o s
    BY DEF Base, CtrlForm
  <2>3. PICK s \in Seq(Stamped(n)) :
          /\ Len(s) <= 24
          /\ \/ todo["ctrl"] = <<SetGlobalTick(n)>> \o s
             \/ todo["ctrl"] = s /\ n <= gTick
             \/ \E v \in n .. gTick : todo["ctrl"] = <<Stamp(n, v)>> \o s
    BY <2>2
  <2>4. todo["ctrl"] = s /\ n <= gTick
    <3>1. todo["ctrl"] # <<SetGlobalTick(n)>> \o s
      BY <1>1, <1>2, <1>6, OneMore
    <3>2. \A v : todo["ctrl"] # <<Stamp(n, v)>> \o s
      BY <1>1, <1>2, <1>6, OneMore
    <3> QED
      BY <2>3, <3>1, <3>2
  <2>5. Head(s) \in Stamped(n) /\ Tail(s) \in Seq(Stamped(n)) /\ Len(s) = Len(Tail(s)) + 1
    BY <1>1, <1>6, <2>4, FirstOfSeq
  <2>6. Len(Tail(s)) <= 24
    BY <2>3, <2>5
  <2>7. Head(s) = LoadTick(n)
    BY <1>1, <1>3, <1>6, <2>4, <2>5 DEF Stamped
  <2> QED
    BY <1>6, <2>1, <2>4, <2>5, <2>6, <2>7
<1>7. CASE t = "health"
  <2>1. PICK s \in Seq(StopStamped(0)) :
          /\ Len(s) <= 8
          /\ \/ todo["health"] = s
             \/ \E v \in 0 .. gTick : todo["health"] = <<Stamp(0, v)>> \o s
    BY DEF Base, HealthForm
  <2>2. todo["health"] = s
    <3>1. \A v : todo["health"] # <<Stamp(0, v)>> \o s
      BY <1>1, <1>2, <1>7, OneMore
    <3> QED
      BY <2>1, <3>1
  <2>3. /\ Head(s) \in StopStamped(0) /\ Tail(s) \in Seq(StopStamped(0))
        /\ Len(s) = Len(Tail(s)) + 1
    BY <1>1, <1>7, <2>2, FirstOfSeq
  <2>4. Len(Tail(s)) <= 8
    BY <2>1, <2>3
  <2>5. Head(s) = LoadTick(0)
    BY <1>1, <1>3, <1>7, <2>2, <2>3, StopIsCommand DEF StopStamped
  <2> QED
    BY <1>7, <2>2, <2>3, <2>4, <2>5
<1> QED
  BY <1>4, <1>5, <1>6, <1>7 DEF TaskName

\* The load puts the stamp in the place of its access and changes nothing else.
LEMMA LoadKeeps ==
  ASSUME Base, NEW t \in TaskName, LoadGlobalTick(t)
  PROVE  /\ UNCHANGED <<tick, gTick, duty, in1, pwm, lastCmd, fastWait, idle, cmdAge>>
         /\ fault' = fault /\ torn' = torn
         /\ todo[t] # <<>>
         /\ todo'[t] = <<Stamp(Head(todo[t]).at, gTick)>> \o Tail(todo[t])
         /\ \A u \in TaskName \ {t} : todo'[u] = todo[u]
         /\ todo' = [u \in TaskName |-> todo'[u]]
<1> DEFINE e == <<Stamp(Head(todo[t]).at, gTick)>> \o Tail(todo[t])
<1>1. todo' = [todo EXCEPT ![t] = e]
  BY DEF LoadGlobalTick
<1> HIDE DEF e
<1>2. /\ todo'[t] = e /\ \A u \in TaskName \ {t} : todo'[u] = todo[u]
      /\ todo' = [u \in TaskName |-> todo'[u]]
  BY <1>1, OthersKeep DEF Base
<1>3. fault' = fault /\ torn' = torn
  BY Zenon DEF LoadGlobalTick
<1>4. UNCHANGED <<tick, gTick, duty, in1, pwm, lastCmd, fastWait, idle, cmdAge>>
  BY DEF LoadGlobalTick, hardware
<1>5. todo[t] # <<>>
  BY DEF LoadGlobalTick, Executes
<1> QED
  BY <1>2, <1>3, <1>4, <1>5 DEF e

\* The load keeps the forms of all jobs.
LEMMA LoadKeepsBase ==
  ASSUME Base, NEW t \in TaskName, LoadGlobalTick(t)
  PROVE  Base'
<1>1. /\ UNCHANGED <<tick, gTick, duty, in1, pwm, lastCmd, fastWait, idle, cmdAge>>
      /\ fault' = fault /\ torn' = torn /\ todo[t] # <<>>
      /\ todo'[t] = <<Stamp(Head(todo[t]).at, gTick)>> \o Tail(todo[t])
      /\ \A u \in TaskName \ {t} : todo'[u] = todo[u]
      /\ todo' = [u \in TaskName |-> todo'[u]]
  BY LoadKeeps
<1>2. fault \in BOOLEAN /\ torn \in BOOLEAN
  BY Zenon DEF Base, Values
<1>3. Values' /\ CommandAge'
  BY <1>1, <1>2 DEF Base, Values, CommandAge
<1>4. TelemForm' /\ FastForm' /\ todo'["fast"] = todo["fast"]
  <2>1. todo'["telem"] = todo["telem"] /\ todo'["fast"] = todo["fast"]
    BY <1>1, LoadIsFirst DEF TaskName
  <2> QED
    BY <1>1, <2>1 DEF Base, TelemForm, FastForm, FastTime
<1>5. CASE t = "ctrl"
  <2>1. PICK n \in 0 .. tick :
          /\ n <= gTick /\ Head(todo["ctrl"]) = LoadTick(n)
          /\ Tail(todo["ctrl"]) \in Seq(Stamped(n)) /\ Len(Tail(todo["ctrl"])) <= 24
    BY <1>5, LoadIsFirst
  <2>2. todo["fast"] = <<>> /\ todo["health"] = <<>> /\ todo'["health"] = <<>>
    BY <1>1, <1>5, LoadIsFirst DEF TaskName
  <2>3. todo'["ctrl"] = <<Stamp(n, gTick)>> \o Tail(todo["ctrl"])
    BY <1>1, <1>5, <2>1 DEF LoadTick
  <2>4. CtrlForm'
    <3>1. \A m : todo'["fast"] # <<SetGlobalTick(m), Safety(m)>>
      BY <1>4, <2>2
    <3>2. gTick' \in n .. gTick' /\ gTick' = gTick /\ tick' = tick
      BY <1>1, <2>1 DEF Base, Values
    <3> QED
      BY <2>1, <2>3, <3>1, <3>2 DEF CtrlForm
  <2>5. HealthForm'
    BY <2>2, SleepIsForm
  <2>6. (todo["ctrl"] # <<>> => idle = 0)'
    BY <1>1, <1>5 DEF Base
  <2> QED
    BY <1>3, <1>4, <2>2, <2>4, <2>5, <2>6 DEF Base
<1>6. CASE t = "health"
  <2>1. /\ Head(todo["health"]) = LoadTick(0)
        /\ Tail(todo["health"]) \in Seq(StopStamped(0)) /\ Len(Tail(todo["health"])) <= 8
    BY <1>6, LoadIsFirst
  <2>2. todo'["ctrl"] = todo["ctrl"]
    BY <1>1, <1>6 DEF TaskName
  <2>3. todo'["health"] = <<Stamp(0, gTick)>> \o Tail(todo["health"])
    BY <1>1, <1>6, <2>1 DEF LoadTick
  <2>4. HealthForm'
    <3>1. gTick' \in 0 .. gTick' /\ gTick' = gTick
      BY <1>1 DEF Base, Values
    <3> QED
      BY <2>1, <2>3, <3>1 DEF HealthForm
  <2>5. CtrlForm' /\ (todo["ctrl"] # <<>> => idle = 0)'
    BY <1>1, <1>4, <2>2 DEF Base, CtrlForm
  <2>6. fault'
    BY Zenon, <1>1, <1>6 DEF Base
  <2> QED
    BY <1>3, <1>4, <2>4, <2>5, <2>6 DEF Base
<1> QED
  BY <1>5, <1>6, LoadIsFirst

\* The fast task comes to BSP_Motor_SafetyTick with nothing else to do.
LEMMA SafetyIsLast ==
  ASSUME Base, SafetyTick
  PROVE  /\ todo["health"] = <<>>
         /\ \E n \in 0 .. tick :
              /\ FastTime(n) /\ todo["fast"] = <<Safety(n)>>
              /\ Head(todo["fast"]).at = n
              /\ todo'["fast"] = IF CommandIsStale(n) THEN SafetyStops ELSE <<>>
         /\ \A u \in TaskName \ {"fast"} : todo'[u] = todo[u]
         /\ todo' = [u \in TaskName |-> todo'[u]]
         /\ UNCHANGED <<tick, gTick, duty, in1, pwm, lastCmd, idle, cmdAge>>
         /\ fault' = fault /\ torn' = torn
<1>1. HasProcessor("fast") /\ todo["fast"] # <<>> /\ Head(todo["fast"]).op = "safety"
  BY DEF SafetyTick, Executes
<1>2. todo["fast"] \notin Seq(StopWrite)
  <2>1. ASSUME todo["fast"] \in Seq(StopWrite) PROVE FALSE
    <3>1. Head(todo["fast"]) \in StopWrite
      BY <1>1, <2>1, FirstOfSeq
    <3> QED
      BY <1>1, <3>1 DEF StopWrite
  <2> QED
    BY <2>1
<1>3. PICK n \in 0 .. tick :
        /\ FastTime(n)
        /\ \/ todo["fast"] = <<SetGlobalTick(n), Safety(n)>>
           \/ todo["fast"] = <<Safety(n)>>
  BY <1>2 DEF Base, FastForm
<1>4. todo["fast"] = <<Safety(n)>> /\ Head(todo["fast"]).at = n
  <2>1. todo["fast"] # <<SetGlobalTick(n), Safety(n)>>
    <3>1. ASSUME todo["fast"] = <<SetGlobalTick(n), Safety(n)>> PROVE FALSE
      <4>1. Head(todo["fast"]) = SetGlobalTick(n)
        BY <3>1
      <4> QED
        BY <1>1, <4>1 DEF SetGlobalTick
    <3> QED
      BY <3>1
  <2>2. todo["fast"] = <<Safety(n)>>
    BY <1>3, <2>1
  <2>3. Head(todo["fast"]) = Safety(n)
    BY <2>2
  <2> QED
    BY <2>2, <2>3 DEF Safety
<1> DEFINE e == IF CommandIsStale(Head(todo["fast"]).at) THEN SafetyStops ELSE <<>>
<1>5. todo' = [todo EXCEPT !["fast"] = e]
  BY DEF SafetyTick, SafetyStops
<1>6. e = IF CommandIsStale(n) THEN SafetyStops ELSE <<>>
  BY <1>4
<1> HIDE DEF e
<1>7. /\ todo'["fast"] = e /\ (\A u \in TaskName \ {"fast"} : todo'[u] = todo[u])
      /\ todo' = [u \in TaskName |-> todo'[u]]
  BY <1>5, OthersKeep DEF Base, TaskName
<1>8. fault' = fault /\ torn' = torn
  BY Zenon DEF SafetyTick
<1>9. UNCHANGED <<tick, gTick, duty, in1, pwm, lastCmd, idle, cmdAge>>
  BY DEF SafetyTick, hardware
<1> QED
  BY <1>1, <1>3, <1>4, <1>6, <1>7, <1>8, <1>9, Preemption

\* The test of the timeout keeps the forms of all jobs.
LEMMA SafetyKeepsBase ==
  ASSUME Base, SafetyTick PROVE Base'
<1>1. /\ todo'["fast"] \in {SafetyStops, <<>>}
      /\ todo'["ctrl"] = todo["ctrl"] /\ todo'["health"] = todo["health"]
      /\ todo'["telem"] = todo["telem"]
      /\ todo' = [u \in TaskName |-> todo'[u]]
      /\ UNCHANGED <<tick, gTick, duty, in1, pwm, lastCmd, idle, cmdAge>>
      /\ fault' = fault /\ torn' = torn
  BY SafetyIsLast DEF TaskName
<1>2. fastWait' \in 0 .. FastWindow
  BY MotorAssumption DEF SafetyTick
<1>3. Values' /\ CommandAge'
  BY <1>1, <1>2 DEF Base, Values, CommandAge
<1>4. todo'["fast"] \in Seq(StopWrite) /\ Len(todo'["fast"]) <= 6
  <2>1. SafetyStops \in Seq(StopWrite) /\ Len(SafetyStops) <= 6
    BY SafetyStopsForm
  <2>2. <<>> \in Seq(StopWrite) /\ Len(<<>>) <= 6
    OBVIOUS
  <2> QED
    BY <1>1, <2>1, <2>2
<1>5. FastForm'
  BY <1>4 DEF FastForm
<1>6. \A m : todo'["fast"] # <<SetGlobalTick(m), Safety(m)>>
  <2> SUFFICES ASSUME NEW m, todo'["fast"] = <<SetGlobalTick(m), Safety(m)>> PROVE FALSE
    OBVIOUS
  <2>1. Head(todo'["fast"]) = SetGlobalTick(m) /\ todo'["fast"] # <<>>
    OBVIOUS
  <2>2. SetGlobalTick(m) \in StopWrite
    BY <1>4, <2>1, FirstOfSeq
  <2> QED
    BY <2>2 DEF StopWrite, SetGlobalTick
<1>7. CtrlForm' /\ TelemForm' /\ HealthForm'
  BY <1>1, <1>6 DEF Base, CtrlForm, TelemForm, HealthForm
<1>8. (todo["health"] # <<>> => fault)'
  BY Zenon, <1>1 DEF Base
<1>9. (todo["ctrl"] # <<>> => idle = 0)'
  BY <1>1 DEF Base
<1> QED
  BY <1>3, <1>5, <1>7, <1>8, <1>9 DEF Base

\* A millisecond makes jobs and stamps older.
LEMMA TickKeepsBase ==
  ASSUME Base, Tick PROVE Base'
<1>1. /\ tick' = tick + 1 /\ tick < MaxTick
      /\ fastWait' = fastWait + 1 /\ fastWait < FastWindow
      /\ idle' = (IF todo["ctrl"] = <<>> THEN Capped(idle + 1, IdleCap) ELSE 0)
      /\ cmdAge' = Capped(cmdAge + 1, CmdCap)
      /\ UNCHANGED <<gTick, duty, in1, pwm, lastCmd, todo>>
  BY DEF Tick, hardware
<1>2. fault' = fault /\ torn' = torn /\ fault \in BOOLEAN /\ torn \in BOOLEAN
  BY Zenon DEF Tick, Base, Values
<1>3. /\ tick \in 0 .. MaxTick /\ gTick \in 0 .. tick /\ lastCmd \in 0 .. tick
      /\ fastWait \in 0 .. FastWindow /\ idle \in 0 .. IdleCap /\ cmdAge \in 0 .. CmdCap
  BY DEF Base, Values
<1>4. IdleCap \in Nat /\ CmdCap \in Nat /\ FastWindow \in Nat /\ MaxTick \in Nat
  BY MotorAssumption DEF IdleCap, CmdCap
<1>5. idle' \in 0 .. IdleCap /\ cmdAge' \in 0 .. CmdCap
  BY <1>1, <1>3, <1>4 DEF Capped
<1>6. /\ tick' \in 0 .. MaxTick /\ gTick' \in 0 .. tick' /\ lastCmd' \in 0 .. tick'
      /\ fastWait' \in 0 .. FastWindow
  BY <1>1, <1>3, <1>4
<1>7. Values'
  BY <1>1, <1>2, <1>5, <1>6 DEF Base, Values
<1>8. CommandAge'
  <2>1. CASE fault
    BY Zenon, <1>2, <2>1 DEF CommandAge
  <2>2. CASE ~fault
    <3>1. cmdAge = CmdCap \/ tick - lastCmd <= cmdAge
      BY <2>2 DEF Base, CommandAge
    <3> QED
      BY <1>1, <1>3, <1>4, <3>1 DEF CommandAge, Capped
  <2> QED
    BY <2>1, <2>2
<1>9. \A n \in 0 .. tick :
        /\ n \in 0 .. tick'
        /\ FastTime(n) => tick' - n <= fastWait' /\ lastCmd' <= n /\ gTick' <= n
  BY <1>1, <1>3 DEF FastTime
<1>10. FastForm' /\ TelemForm' /\ HealthForm'
  <2>1. CASE todo["fast"] \in Seq(StopWrite) /\ Len(todo["fast"]) <= 6
    BY <1>1, <1>9, <2>1 DEF Base, FastForm, TelemForm, HealthForm
  <2>2. CASE \E n \in 0 .. tick :
               /\ FastTime(n)
               /\ \/ todo["fast"] = <<SetGlobalTick(n), Safety(n)>>
                  \/ todo["fast"] = <<Safety(n)>>
    <3>1. FastForm'
      BY <1>1, <1>9, <2>2 DEF FastForm, FastTime
    <3> QED
      BY <1>1, <1>9, <3>1 DEF Base, TelemForm, HealthForm
  <2> QED
    BY <2>1, <2>2 DEF Base, FastForm
<1>11. CtrlForm'
  <2>1. PICK n \in 0 .. tick : \E s \in Seq(Stamped(n)) :
          /\ Len(s) <= 24
          /\ \/ todo["ctrl"] = <<SetGlobalTick(n)>> \o s
             \/ todo["ctrl"] = s /\ n <= gTick
             \/ \E v \in n .. gTick : todo["ctrl"] = <<Stamp(n, v)>> \o s
          /\ \A m \in 0 .. tick : todo["fast"] = <<SetGlobalTick(m), Safety(m)>> => n <= m
    BY DEF Base, CtrlForm
  <2>2. \A m \in 0 .. tick' : todo["fast"] = <<SetGlobalTick(m), Safety(m)>> => n <= m
    <3> SUFFICES ASSUME NEW m \in 0 .. tick', todo["fast"] = <<SetGlobalTick(m), Safety(m)>>
                 PROVE  n <= m
      OBVIOUS
    <3>1. m \in 0 .. tick \/ m = tick + 1
      BY <1>1, <1>3
    <3> QED
      BY <1>3, <2>1, <3>1
  <2> QED
    BY <1>1, <1>9, <2>1, <2>2 DEF CtrlForm
<1>12. (todo["health"] # <<>> => fault)'
  BY Zenon, <1>1, <1>2 DEF Base
<1>13. (todo["ctrl"] # <<>> => idle = 0)'
  BY <1>1
<1> QED
  BY <1>7, <1>8, <1>10, <1>11, <1>12, <1>13 DEF Base

\* The forms of the jobs are an invariant on their own.
LEMMA BaseKept ==
  ASSUME Base, [Next]_vars PROVE Base'
<1>1. CASE \E t \in TaskName : TaskStep(t)
  BY <1>1, StepIsAccess, StartKeepsBase, PerformKeepsBase, LoadKeepsBase
<1>2. CASE SafetyTick
  BY <1>2, SafetyKeepsBase
<1>3. CASE Tick
  BY <1>3, TickKeepsBase
<1>4. CASE UNCHANGED vars
  <2>1. Values' /\ TelemForm' /\ CtrlForm' /\ HealthForm'
    BY <1>4 DEF Base, Values, TelemForm, CtrlForm, HealthForm, vars, hardware
  <2>2. FastForm' /\ CommandAge' /\ (todo["ctrl"] # <<>> => idle = 0)'
    BY <1>4 DEF Base, FastForm, FastTime, CommandAge, vars, hardware
  <2>3. (todo["health"] # <<>> => fault)'
    BY Zenon, <1>4 DEF Base, vars
  <2> QED
    BY <2>1, <2>2, <2>3 DEF Base
<1> QED
  BY <1>1, <1>2, <1>3, <1>4 DEF Next

\* At start nobody has a job.
LEMMA BaseAtStart == ASSUME Init PROVE Base
<1>1. /\ tick = 0 /\ gTick = 0 /\ lastCmd = 0 /\ fastWait = 0 /\ idle = 0 /\ cmdAge = 0
      /\ todo = [t \in TaskName |-> <<>>]
  BY DEF Init
<1>2. fault \in BOOLEAN /\ torn \in BOOLEAN
  BY Zenon DEF Init
<1>3. 0 \in 0 .. IdleCap /\ 0 \in 0 .. CmdCap /\ 0 \in 0 .. FastWindow /\ 0 \in 0 .. MaxTick
  BY MotorAssumption DEF IdleCap, CmdCap
<1>4. \A t \in TaskName : todo[t] = <<>>
  BY <1>1
<1>5. /\ todo["telem"] = <<>> /\ todo["ctrl"] = <<>> /\ todo["fast"] = <<>>
      /\ todo["health"] = <<>>
  BY <1>4 DEF TaskName
<1>6. /\ duty \in [Channel -> Duty] /\ pwm \in [Channel -> Duty]
      /\ in1 \in [Channel -> {0, 1}]
  BY ZeroIsDuty DEF Init
<1>7. Values
  BY <1>1, <1>2, <1>3, <1>6 DEF Values
<1>8. TelemForm /\ FastForm /\ CommandAge
  <2>1. <<>> \in Seq(StopWrite) /\ Len(<<>>) <= 6
    OBVIOUS
  <2>2. tick - lastCmd <= cmdAge
    BY <1>1
  <2> QED
    BY <1>5, <2>1, <2>2 DEF TelemForm, FastForm, CommandAge
<1>9. CtrlForm
  <2>1. \A m : <<>> # <<SetGlobalTick(m), Safety(m)>>
    OBVIOUS
  <2>2. 0 \in 0 .. tick /\ <<>> \in Seq(Stamped(0)) /\ Len(<<>>) <= 24 /\ 0 <= gTick
    BY <1>1
  <2> QED
    BY <1>5, <2>1, <2>2 DEF CtrlForm
<1>10. HealthForm
  BY <1>5, SleepIsForm
<1>11. todo["health"] # <<>> => fault
  BY Zenon, <1>5
<1>12. todo["ctrl"] # <<>> => idle = 0
  BY <1>1
<1> QED
  BY <1>7, <1>8, <1>9, <1>10, <1>11, <1>12 DEF Base

-----------------------------------------------------------------------------
(* The second part: stops.                                                 *)

\* What the rest of a job does not write any more, its first access has
\* written.
LEMMA PendingRest ==
  ASSUME NEW A, NEW s \in Seq(A), s # <<>>, NEW c,
         \E i \in DOMAIN s : Match(s[i], "duty", c),
         ~Match(Head(s), "duty", c)
  PROVE  \E i \in DOMAIN Tail(s) : Match(Tail(s)[i], "duty", c)
<1>1. PICK i \in DOMAIN s : Match(s[i], "duty", c)
  OBVIOUS
<1>2. i # 1 /\ i \in 1 .. Len(s)
  BY <1>1
<1>3. i - 1 \in DOMAIN Tail(s) /\ Tail(s)[i - 1] = s[i]
  BY <1>2
<1> QED
  BY <1>1, <1>3

\* A job with the tick and the test of the timeout writes no duty.
LEMMA NoStopInFast ==
  ASSUME NEW n,
         \/ todo["fast"] = <<>>
         \/ todo["fast"] = <<SetGlobalTick(n), Safety(n)>>
         \/ todo["fast"] = <<Safety(n)>>,
         NEW c
  PROVE  ~Pending("fast", c)
<1>1. ~Match(SetGlobalTick(n), "duty", c) /\ ~Match(Safety(n), "duty", c)
  BY DEF Match, SetGlobalTick, Safety
<1>2. CASE todo["fast"] = <<>>
  BY <1>2 DEF Pending
<1>3. CASE todo["fast"] = <<SetGlobalTick(n), Safety(n)>>
  <2>1. \A i \in DOMAIN todo["fast"] : todo["fast"][i] \in {SetGlobalTick(n), Safety(n)}
    BY <1>3
  <2> QED
    BY <1>1, <2>1 DEF Pending
<1>4. CASE todo["fast"] = <<Safety(n)>>
  <2>1. \A i \in DOMAIN todo["fast"] : todo["fast"][i] = Safety(n)
    BY <1>4
  <2> QED
    BY <1>1, <2>1 DEF Pending
<1> QED
  BY <1>2, <1>3, <1>4

\* A duty that a stop writes is 0; any other keeps its value.
LEMMA StopLowers ==
  ASSUME Base, NEW t \in TaskName, Perform(t), NEW n, NEW v,
         Head(todo[t]) \in StopWrite \cup {Stamp(n, v)}, NEW c \in Channel
  PROVE  IF Match(Head(todo[t]), "duty", c) THEN duty'[c] = 0 ELSE duty'[c] = duty[c]
<1> DEFINE a == Head(todo[t])
<1>1. duty \in [Channel -> Duty]
  BY DEF Base, Values
<1>2. CASE a = Stamp(n, v)
  <2>1. a.op = "stamp"
    BY <1>2 DEF Stamp
  <2> QED
    BY <2>1 DEF Perform, Match
<1>3. CASE a \in StopWrite
  <2>1. a.op \in {"duty", "pwm", "in1"} /\ a.ch \in Channel /\ a.val = 0
    BY <1>3 DEF StopWrite
  <2>2. duty' = IF a.op = "duty" THEN [duty EXCEPT ![a.ch] = a.val] ELSE duty
    BY DEF Perform
  <2>3. Match(a, "duty", c) <=> a.op = "duty" /\ a.ch = c
    BY DEF Match
  <2> HIDE DEF a
  <2>4. IF Match(a, "duty", c) THEN duty'[c] = 0 ELSE duty'[c] = duty[c]
    BY <1>1, <2>1, <2>2, <2>3
  <2> QED
    BY <2>4 DEF a
<1> QED
  BY <1>2, <1>3

\* A stop that is half done is still going to be one.
LEMMA OffSoonKept ==
  ASSUME Base, NEW t \in {"fast", "health"}, Perform(t), NEW c \in Channel
  PROVE  /\ OffSoon(c) => OffSoon(c)'
         /\ (duty[c] = 0 \/ Pending("fast", c)) => (duty[c] = 0 \/ Pending("fast", c))'
<1> t \in TaskName
  BY DEF TaskName
<1>1. ASSUME NEW v, Head(todo[t]) \in StopWrite \cup {Stamp(0, v)},
             NEW A, todo[t] \in Seq(A)
      PROVE  /\ duty[c] = 0 => duty'[c] = 0
             /\ Pending(t, c) => duty'[c] = 0 \/ Pending(t, c)'
  <2>1. IF Match(Head(todo[t]), "duty", c) THEN duty'[c] = 0 ELSE duty'[c] = duty[c]
    BY <1>1, StopLowers
  <2>2. todo[t] # <<>> /\ todo'[t] = Tail(todo[t])
    BY PerformKeeps
  <2>3. ASSUME Pending(t, c), ~Match(Head(todo[t]), "duty", c) PROVE Pending(t, c)'
    <3>1. \E i \in DOMAIN Tail(todo[t]) : Match(Tail(todo[t])[i], "duty", c)
      BY <1>1, <2>2, <2>3, PendingRest DEF Pending
    <3> QED
      BY <2>2, <3>1 DEF Pending
  <2> QED
    BY <2>1, <2>3
<1>2. CASE t = "health"
  <2>1. PICK v : /\ Head(todo["health"]) \in StopWrite \cup {Stamp(0, v)}
                 /\ todo["health"] \in Seq(StopStamped(0) \cup HealthStamp)
    BY <1>2, PerformHealth DEF HealthStamp
  <2>2. /\ duty[c] = 0 => duty'[c] = 0
        /\ Pending("health", c) => duty'[c] = 0 \/ Pending("health", c)'
    BY <1>1, <1>2, <2>1
  <2>3. todo'["fast"] = todo["fast"]
    BY <1>2, PerformKeeps DEF TaskName
  <2>4. Pending("fast", c)' <=> Pending("fast", c)
    BY <2>3 DEF Pending
  <2> QED
    BY <2>2, <2>4 DEF OffSoon
<1>3. CASE t = "fast"
  <2>1. todo'["health"] = todo["health"]
    BY <1>3, PerformKeeps DEF TaskName
  <2>2. Pending("health", c)' <=> Pending("health", c)
    BY <2>1 DEF Pending
  <2>3. CASE todo["fast"] \in Seq(StopWrite) /\ Head(todo["fast"]) \in StopWrite
    <3>1. /\ duty[c] = 0 => duty'[c] = 0
          /\ Pending("fast", c) => duty'[c] = 0 \/ Pending("fast", c)'
      BY <1>1, <1>3, <2>3
    <3> QED
      BY <2>2, <3>1 DEF OffSoon
  <2>4. ASSUME NEW n \in 0 .. tick,
               todo["fast"] = <<SetGlobalTick(n), Safety(n)>>, duty' = duty
        PROVE  /\ duty[c] = 0 => duty'[c] = 0
               /\ ~Pending("fast", c)
    BY <2>4, NoStopInFast
  <2> QED
    BY <1>3, <2>2, <2>3, <2>4, PerformFast DEF OffSoon
<1> QED
  BY <1>2, <1>3

\* A write to a duty field is pending in a job that leaves a channel at a duty.
LEMMA StopIsPending ==
  ASSUME NEW t, NEW c, Leaves(todo[t], c, 0) PROVE Pending(t, c)
BY DEF Leaves, Fixes, Pending

\* While the health task sleeps and the fast task has no stop, the duties are
\* all that counts.
LEMMA OffSoonIsOff ==
  ASSUME todo["health"] = <<>>, todo["fast"] = <<>>, NEW c
  PROVE  OffSoon(c) <=> duty[c] = 0
BY DEF OffSoon, Pending

\* Starts keep the second part.
LEMMA StartKeepsStops ==
  ASSUME Base, Stops, NEW t \in TaskName, Start(t)
  PROVE  Stops'
<1>0. /\ lastCmd \in 0 .. tick /\ idle \in 0 .. IdleCap /\ tick \in Int
      /\ fastWait \in 0 .. FastWindow /\ Timeout \in Nat /\ FastWindow \in Nat
      /\ IdleCap \in Nat
  BY MotorAssumption DEF Base, Values, IdleCap
<1>1. CASE t = "telem"
  <2>1. /\ StartKeeps /\ idle' = idle /\ todo'["ctrl"] = todo["ctrl"]
        /\ todo'["fast"] = todo["fast"] /\ todo'["health"] = todo["health"]
    BY <1>1, StartTelem DEF TaskName
  <2>2. \A c : OffSoon(c)' <=> OffSoon(c)
    BY <2>1 DEF OffSoon, Pending, StartKeeps
  <2>3. \A c : Pending("fast", c)' <=> Pending("fast", c)
    BY <2>1 DEF Pending
  <2> QED
    BY <2>1, <2>2, <2>3 DEF Stops, HealthStops, SilenceAges, TimeoutWorks, StartKeeps
<1>2. CASE t = "ctrl"
  <2>1. PICK rest \in Seq(Stamped(tick)) : todo'["ctrl"] = <<SetGlobalTick(tick)>> \o rest
    BY <1>2, StartCtrl
  <2>2. todo'["ctrl"] # <<>>
    <3> DEFINE A == Stamped(tick) \cup {SetGlobalTick(tick)}
    <3>1. SetGlobalTick(tick) \in A /\ rest \in Seq(A)
      BY SeqMono
    <3> HIDE DEF A
    <3> QED
      BY <2>1, <3>1, HeadAndTail
  <2>3. idle' = 0 /\ fastWait' = fastWait /\ todo'["health"] = <<>>
    BY <1>2, StartCtrl DEF StartKeeps, TaskName
  <2> QED
    BY <1>0, <2>2, <2>3 DEF Stops, HealthStops, SilenceAges, TimeoutWorks
<1>3. CASE t = "fast"
  <2>1. /\ StartKeeps /\ idle' = idle /\ todo'["ctrl"] = todo["ctrl"]
        /\ todo["fast"] = <<>> /\ todo["health"] = <<>> /\ todo'["health"] = <<>>
    BY <1>3, StartFast DEF TaskName
  <2>2. \A c : ~Pending("fast", c)
    BY <2>1, NoStopInFast
  <2>3. \A c : OffSoon(c) => OffSoon(c)'
    BY <2>1, OffSoonIsOff DEF OffSoon, StartKeeps
  <2> QED
    BY <2>1, <2>2, <2>3 DEF Stops, HealthStops, SilenceAges, TimeoutWorks, StartKeeps
<1>4. CASE t = "health"
  <2>1. /\ StartKeeps /\ idle' = idle /\ todo'["ctrl"] = todo["ctrl"]
        /\ todo'["fast"] = todo["fast"] /\ todo'["health"] = StopBoth(0)
    BY <1>4, StartHealth DEF TaskName
  <2>2. \A c \in Channel : Leaves(todo'["health"], c, 0)
    BY <2>1, StopBothForm
  <2>3. \A c \in Channel : OffSoon(c)'
    BY <2>2 DEF OffSoon, Pending, Leaves, Fixes
  <2>4. \A c : Pending("fast", c)' <=> Pending("fast", c)
    BY <2>1 DEF Pending
  <2>5. TimeoutWorks'
    BY <2>1, <2>4 DEF Stops, TimeoutWorks, StartKeeps
  <2> QED
    BY <2>3, <2>5 DEF Stops, HealthStops, SilenceAges
<1> QED
  BY <1>1, <1>2, <1>3, <1>4 DEF TaskName

\* Accesses keep the second part.
LEMMA PerformKeepsStops ==
  ASSUME Base, Stops, NEW t \in TaskName, Perform(t)
  PROVE  Stops'
<1>0. /\ lastCmd \in 0 .. tick /\ gTick \in 0 .. tick /\ idle \in 0 .. IdleCap /\ tick \in Int
      /\ fastWait \in 0 .. FastWindow /\ Timeout \in Nat /\ FastWindow \in Nat
      /\ IdleCap \in Nat
  BY MotorAssumption DEF Base, Values, IdleCap
<1>1. CASE t = "telem"
  <2>1. /\ UNCHANGED <<duty, lastCmd, idle>> /\ tick' = tick /\ fastWait' = fastWait
        /\ todo'["ctrl"] = todo["ctrl"]
        /\ todo'["fast"] = todo["fast"] /\ todo'["health"] = todo["health"]
    BY <1>1, PerformTelem, PerformKeeps DEF TaskName
  <2>2. \A c : OffSoon(c)' <=> OffSoon(c)
    BY <2>1 DEF OffSoon, Pending
  <2>3. \A c : Pending("fast", c)' <=> Pending("fast", c)
    BY <2>1 DEF Pending
  <2> QED
    BY <2>1, <2>2, <2>3 DEF Stops, HealthStops, SilenceAges, TimeoutWorks
<1>2. CASE t = "ctrl"
  <2>1. /\ idle' = 0 /\ tick' = tick /\ fastWait' = fastWait /\ todo'["health"] = <<>>
        /\ lastCmd' \in 0 .. tick
    <3>1. lastCmd' \in 0 .. tick
      BY <1>2, PerformKeepsBase, PerformKeeps DEF Base, Values
    <3> QED
      BY <1>2, <3>1, PerformCtrl, PerformKeeps DEF TaskName
  <2> QED
    BY <1>0, <2>1 DEF Stops, HealthStops, SilenceAges, TimeoutWorks
<1>3. CASE t = "fast"
  <2>1. /\ idle' = idle /\ lastCmd' = lastCmd /\ tick' = tick /\ fastWait' = fastWait
        /\ todo'["ctrl"] = todo["ctrl"] /\ todo'["health"] = todo["health"]
    BY <1>3, PerformFast, PerformKeeps DEF TaskName
  <2>2. \A c \in Channel :
          /\ OffSoon(c) => OffSoon(c)'
          /\ (duty[c] = 0 \/ Pending("fast", c)) => (duty[c] = 0 \/ Pending("fast", c))'
    BY <1>3, OffSoonKept
  <2> QED
    BY <2>1, <2>2 DEF Stops, HealthStops, SilenceAges, TimeoutWorks
<1>4. CASE t = "health"
  <2>1. /\ idle' = idle /\ tick' = tick /\ fastWait' = fastWait
        /\ todo'["ctrl"] = todo["ctrl"] /\ todo["health"] # <<>>
    BY <1>4, PerformHealth, PerformKeeps DEF TaskName
  <2>2. \A c \in Channel :
          /\ OffSoon(c) => OffSoon(c)'
          /\ (duty[c] = 0 \/ Pending("fast", c)) => (duty[c] = 0 \/ Pending("fast", c))'
    BY <1>4, OffSoonKept
  <2>3. \A c \in Channel : OffSoon(c)'
    BY <2>1, <2>2 DEF Stops, HealthStops
  <2> QED
    BY <2>1, <2>2, <2>3 DEF Stops, HealthStops, SilenceAges, TimeoutWorks
<1> QED
  BY <1>1, <1>2, <1>3, <1>4 DEF TaskName

\* The age that BSP_Motor_SafetyTick computes is the true one.
LEMMA AgeIsExact ==
  ASSUME Base, NEW n \in 0 .. tick, FastTime(n)
  PROVE  (n - lastCmd) % Wrap = n - lastCmd
<1>1. n - lastCmd \in 0 .. MaxTick /\ MaxTick \in Nat /\ Wrap \in Nat /\ Wrap > MaxTick
  BY MotorAssumption DEF Base, Values, FastTime
<1> QED
  BY <1>1

\* The test of the timeout keeps the second part: a late one finds the last
\* command old enough, or the duties 0.
LEMMA SafetyKeepsStops ==
  ASSUME Base, Stops, SafetyTick
  PROVE  Stops'
<1>1. PICK n \in 0 .. tick :
        /\ FastTime(n) /\ todo["fast"] = <<Safety(n)>>
        /\ todo'["fast"] = IF CommandIsStale(n) THEN SafetyStops ELSE <<>>
  BY SafetyIsLast
<1>2. /\ todo["health"] = <<>> /\ todo'["health"] = <<>> /\ todo'["ctrl"] = todo["ctrl"]
      /\ UNCHANGED <<tick, duty, lastCmd, idle>>
  BY SafetyIsLast DEF TaskName
<1>3. fastWait' = 0
  BY DEF SafetyTick
<1>4. \A c \in Channel : ~Pending("fast", c) /\ ~Pending("health", c)
  BY <1>1, <1>2, NoStopInFast DEF Pending
<1>5. \A c \in Channel : OffSoon(c) => duty'[c] = 0
  BY <1>2, <1>4 DEF OffSoon
<1>6. HealthStops' /\ SilenceAges'
  BY <1>2, <1>5 DEF Stops, HealthStops, SilenceAges, OffSoon
<1>7. TimeoutWorks'
  <2> SUFFICES ASSUME idle > Timeout + FastWindow, NEW c \in Channel, duty[c] # 0
               PROVE  Pending("fast", c)'
    <3>1. idle' - fastWait' = idle
      BY <1>2, <1>3 DEF Base, Values
    <3> QED
      BY <1>2, <3>1 DEF TimeoutWorks
  <2>1. todo["ctrl"] = <<>>
    BY MotorAssumption DEF Base, Values
  <2>2. lastCmd <= tick - idle
    BY <1>4, <2>1 DEF Stops, SilenceAges, OffSoon
  <2>3. n - lastCmd > Timeout
    <3>1. /\ lastCmd \in Int /\ tick \in Int /\ idle \in Int /\ n \in Int
          /\ fastWait \in Int /\ fastWait <= FastWindow /\ Timeout \in Int
          /\ FastWindow \in Int /\ tick - n <= fastWait
      BY <1>1, MotorAssumption DEF Base, Values, FastTime
    <3> QED
      BY <2>2, <3>1
  <2>4. CommandIsStale(n)
    BY <1>1, <2>3, AgeIsExact DEF CommandIsStale
  <2>5. Leaves(todo'["fast"], c, 0)
    BY <1>1, <2>4, SafetyStopsForm
  <2> QED
    BY <2>5 DEF Leaves, Fixes, Pending
<1> QED
  BY <1>6, <1>7 DEF Stops

\* A millisecond of silence is a millisecond of age.
LEMMA TickKeepsStops ==
  ASSUME Base, Stops, Tick
  PROVE  Stops'
<1>1. /\ tick' = tick + 1 /\ fastWait' = fastWait + 1
      /\ idle' = (IF todo["ctrl"] = <<>> THEN Capped(idle + 1, IdleCap) ELSE 0)
      /\ UNCHANGED <<duty, lastCmd, todo>>
  BY DEF Tick
<1>2. /\ idle \in 0 .. IdleCap /\ IdleCap \in Nat /\ fastWait \in Int /\ tick \in Int
      /\ lastCmd \in Int /\ Timeout \in Int /\ FastWindow \in Int
  BY MotorAssumption DEF Base, Values, IdleCap
<1>3. idle' <= idle + 1 /\ idle' \in Int
  BY <1>1, <1>2 DEF Capped
<1>4. \A c : (OffSoon(c)' <=> OffSoon(c)) /\ (Pending("fast", c)' <=> Pending("fast", c))
  BY <1>1 DEF OffSoon, Pending
<1>5. HealthStops'
  BY <1>1, <1>4 DEF Stops, HealthStops
<1>6. SilenceAges'
  BY <1>1, <1>2, <1>3, <1>4 DEF Stops, SilenceAges
<1>7. TimeoutWorks'
  <2>1. idle' - fastWait' > Timeout + FastWindow => idle - fastWait > Timeout + FastWindow
    BY <1>1, <1>2, <1>3
  <2> QED
    BY <1>1, <1>4, <2>1 DEF Stops, TimeoutWorks
<1> QED
  BY <1>5, <1>6, <1>7 DEF Stops

\* Another first access, if neither it nor the old one writes a duty, leaves
\* the same writes pending.
LEMMA PendingReplaced ==
  ASSUME NEW A, NEW s \in Seq(A), s # <<>>, NEW x, NEW c,
         ~Match(Head(s), "duty", c), ~Match(x, "duty", c)
  PROVE  (\E i \in DOMAIN (<<x>> \o Tail(s)) : Match((<<x>> \o Tail(s))[i], "duty", c))
         <=> (\E i \in DOMAIN s : Match(s[i], "duty", c))
<1> DEFINE r == Tail(s)
           w == <<x>> \o r
<1>1. r \in Seq(A)
  OBVIOUS
<1>2. Tail(w) = r /\ Head(w) = x /\ w # <<>> /\ w \in Seq(A \cup {x})
  BY <1>1, OneMore
<1> HIDE DEF w
<1>3. ASSUME NEW B, NEW z \in Seq(B), z # <<>>, NEW i \in DOMAIN Tail(z)
      PROVE  i + 1 \in DOMAIN z /\ z[i + 1] = Tail(z)[i]
  BY <1>3
<1>4. (\E i \in DOMAIN s : Match(s[i], "duty", c))
        <=> (\E i \in DOMAIN r : Match(r[i], "duty", c))
  BY <1>3, PendingRest
<1>5. (\E i \in DOMAIN w : Match(w[i], "duty", c))
        <=> (\E i \in DOMAIN r : Match(r[i], "duty", c))
  BY <1>2, <1>3, PendingRest
<1> QED
  BY <1>4, <1>5 DEF w

\* The load leaves the same stops pending.
LEMMA LoadKeepsPending ==
  ASSUME Base, NEW t \in TaskName, LoadGlobalTick(t), NEW u \in {"fast", "health"}, NEW c
  PROVE  Pending(u, c)' <=> Pending(u, c)
<1> u \in TaskName
  BY DEF TaskName
<1>1. CASE u # t
  BY <1>1, LoadKeeps DEF Pending
<1>2. CASE u = t
  <2>1. t = "health"
    BY <1>2, LoadIsFirst
  <2>2. /\ Head(todo[t]) = LoadTick(0)
        /\ todo["health"] \in Seq(StopStamped(0) \cup HealthStamp)
    BY <2>1, LoadIsFirst, HealthIsSeq
  <2>3. todo[t] # <<>> /\ todo'[t] = <<Stamp(Head(todo[t]).at, gTick)>> \o Tail(todo[t])
    BY LoadKeeps
  <2>4. ~Match(Head(todo[t]), "duty", c) /\ ~Match(Stamp(Head(todo[t]).at, gTick), "duty", c)
    BY <2>2 DEF Match, LoadTick, Stamp
  <2> DEFINE s == todo["health"]
             x == Stamp(Head(s).at, gTick)
  <2>5. /\ s \in Seq(StopStamped(0) \cup HealthStamp) /\ s # <<>>
        /\ ~Match(Head(s), "duty", c) /\ ~Match(x, "duty", c)
        /\ todo'["health"] = <<x>> \o Tail(s)
    BY <2>1, <2>2, <2>3, <2>4
  <2> HIDE DEF s, x
  <2>6. (\E i \in DOMAIN (<<x>> \o Tail(s)) : Match((<<x>> \o Tail(s))[i], "duty", c))
        <=> (\E i \in DOMAIN s : Match(s[i], "duty", c))
    BY <2>5, PendingReplaced
  <2> QED
    BY <1>2, <2>1, <2>5, <2>6 DEF Pending, s
<1> QED
  BY <1>1, <1>2

\* The load keeps the second part.
LEMMA LoadKeepsStops ==
  ASSUME Base, Stops, NEW t \in TaskName, LoadGlobalTick(t)
  PROVE  Stops'
<1>1. /\ UNCHANGED <<tick, duty, lastCmd, idle, fastWait>>
      /\ todo[t] # <<>> /\ \A u \in TaskName \ {t} : todo'[u] = todo[u]
  BY LoadKeeps
<1>2. \A c : (Pending("fast", c)' <=> Pending("fast", c))
             /\ (Pending("health", c)' <=> Pending("health", c))
  BY LoadKeepsPending
<1>3. \A c : OffSoon(c)' <=> OffSoon(c)
  BY <1>1, <1>2 DEF OffSoon
<1>4. \A u \in TaskName : todo'[u] # <<>> => todo[u] # <<>>
  BY <1>1
<1>5. todo'["ctrl"] = <<>> => todo["ctrl"] = <<>>
  <2>1. CASE t = "ctrl"
    <3>1. PICK n : Tail(todo["ctrl"]) \in Seq(Stamped(n))
      BY <2>1, LoadIsFirst
    <3>2. \A x : <<x>> \o Tail(todo["ctrl"]) # <<>>
      BY <3>1, OneMore
    <3>3. PICK x : todo'["ctrl"] = <<x>> \o Tail(todo["ctrl"])
      BY <2>1, LoadKeeps
    <3> QED
      BY <3>2, <3>3
  <2>2. CASE t # "ctrl"
    BY <1>1, <2>2 DEF TaskName
  <2> QED
    BY <2>1, <2>2
<1>6. HealthStops'
  BY <1>3, <1>4 DEF Stops, HealthStops, TaskName
<1>7. SilenceAges' /\ TimeoutWorks'
  BY <1>1, <1>2, <1>3, <1>5 DEF Stops, SilenceAges, TimeoutWorks
<1> QED
  BY <1>6, <1>7 DEF Stops

\* Every step keeps the second part.
LEMMA StopsKept ==
  ASSUME Base, Stops, [Next]_vars PROVE Stops'
<1>1. CASE \E t \in TaskName : TaskStep(t)
  BY <1>1, StepIsAccess, StartKeepsStops, PerformKeepsStops, LoadKeepsStops
<1>2. CASE SafetyTick
  BY <1>2, SafetyKeepsStops
<1>3. CASE Tick
  BY <1>3, TickKeepsStops
<1>4. CASE UNCHANGED vars
  BY <1>4 DEF Stops, HealthStops, SilenceAges, TimeoutWorks, OffSoon, Pending, vars
<1> QED
  BY <1>1, <1>2, <1>3, <1>4 DEF Next

\* All duties are 0 at the start.
LEMMA StopsAtStart == ASSUME Init PROVE Stops
BY DEF Init, Stops, HealthStops, SilenceAges, TimeoutWorks, OffSoon

-----------------------------------------------------------------------------
(* The third part: software and registers.                                 *)

Access == CmdWrite \cup {LoadTick(n) : n \in Nat} \cup {Stamp(n, v) : n \in Nat, v \in Nat}
          \cup {SetGlobalTick(n) : n \in Nat} \cup {Safety(n) : n \in Nat}

\* Whatever a job of some tick makes is an access.
LEMMA AccessesOfTick ==
  ASSUME NEW n \in Nat
  PROVE  /\ Stamped(n) \subseteq Access /\ StopStamped(n) \subseteq Access
         /\ StopWrite \subseteq Access
         /\ SetGlobalTick(n) \in Access /\ Safety(n) \in Access
         /\ \A v \in Nat : Stamp(n, v) \in Access
<1>1. /\ Stamped(n) \subseteq Access /\ SetGlobalTick(n) \in Access
      /\ Safety(n) \in Access
  BY DEF Stamped, Access
<1>2. StopStamped(n) \subseteq Access /\ StopWrite \subseteq Access
  BY <1>1, StopIsCommand DEF StopStamped
<1>3. \A v \in Nat : Stamp(n, v) \in Access
  BY DEF Access
<1> QED
  BY <1>1, <1>2, <1>3

\* Jobs are sequences of accesses.
LEMMA JobsAreSequences ==
  ASSUME Base
  PROVE  /\ todo["health"] \in Seq(Access) /\ todo["fast"] \in Seq(Access)
         /\ todo["ctrl"] \in Seq(Access)
<1>1. tick \in Nat /\ 0 .. tick \subseteq Nat /\ 0 .. gTick \subseteq Nat
  BY DEF Base, Values
<1>2. \A n \in Nat : /\ Stamped(n) \subseteq Access /\ SetGlobalTick(n) \in Access
                     /\ Safety(n) \in Access
                     /\ \A v \in Nat : Stamp(n, v) \in Access
  BY AccessesOfTick
<1>3. \A n \in Nat : StopStamped(n) \subseteq Access
  BY AccessesOfTick
<1>4. StopWrite \subseteq Access
  BY AccessesOfTick
<1>5. todo["health"] \in Seq(Access)
  <2>1. HealthStamp \subseteq Access /\ StopStamped(0) \subseteq Access
    BY <1>1, <1>2, <1>3 DEF HealthStamp
  <2> QED
    BY <2>1, HealthIsSeq, SeqMono
<1>6. todo["fast"] \in Seq(Access)
  <2>1. CASE todo["fast"] \in Seq(StopWrite)
    BY <1>4, <2>1, SeqMono
  <2>2. ASSUME NEW n \in 0 .. tick,
               \/ todo["fast"] = <<SetGlobalTick(n), Safety(n)>>
               \/ todo["fast"] = <<Safety(n)>>
        PROVE  todo["fast"] \in Seq(Access)
    <3>1. SetGlobalTick(n) \in Access /\ Safety(n) \in Access
      BY <1>1, <1>2
    <3>2. /\ <<SetGlobalTick(n), Safety(n)>> \in Seq(Access)
          /\ <<Safety(n)>> \in Seq(Access)
      <4> HIDE DEF Access
      <4> QED
        BY <3>1
    <3> QED
      BY <2>2, <3>2
  <2> QED
    BY <2>1, <2>2 DEF Base, FastForm
<1>7. todo["ctrl"] \in Seq(Access)
  <2>1. PICK n \in 0 .. tick : \E s \in Seq(Stamped(n)) :
          \/ todo["ctrl"] = s
          \/ \E x \in {SetGlobalTick(n)} \cup {Stamp(n, v) : v \in n .. gTick} :
               todo["ctrl"] = <<x>> \o s
    BY DEF Base, CtrlForm
  <2>2. PICK s \in Seq(Stamped(n)) :
          \/ todo["ctrl"] = s
          \/ \E x \in {SetGlobalTick(n)} \cup {Stamp(n, v) : v \in n .. gTick} :
               todo["ctrl"] = <<x>> \o s
    BY <2>1
  <2>3. n \in Nat /\ s \in Seq(Access) /\ n .. gTick \subseteq Nat
    BY <1>1, <1>2, SeqMono DEF Base, Values
  <2>4. \A x \in {SetGlobalTick(n)} \cup {Stamp(n, v) : v \in n .. gTick} : x \in Access
    BY <1>2, <2>3
  <2>5. \A x \in Access : <<x>> \o s \in Seq(Access)
    BY <2>3, HeadAndTail
  <2> QED
    BY <2>2, <2>3, <2>4, <2>5
<1> QED
  BY <1>5, <1>6, <1>7

\* The first of two sequences that are executed one after the other.
LEMMA TailOfBoth ==
  ASSUME NEW A, NEW a \in Seq(A), NEW b \in Seq(A), a # <<>>
  PROVE  /\ a \o b \in Seq(A) /\ a \o b # <<>>
         /\ Head(a \o b) = Head(a) /\ Tail(a \o b) = Tail(a) \o b
<1> DEFINE s == a \o b
           n == Len(a)
<1>1. /\ s \in Seq(A) /\ n \in Nat \ {0} /\ Len(b) \in Nat /\ Len(s) = n + Len(b)
      /\ \A i \in 1 .. n + Len(b) : s[i] = IF i <= n THEN a[i] ELSE b[i - n]
  <2>1. /\ a \o b \in Seq(A) /\ Len(a \o b) = Len(a) + Len(b)
        /\ \A i \in 1 .. Len(a) + Len(b) :
             (a \o b)[i] = IF i <= Len(a) THEN a[i] ELSE b[i - Len(a)]
    BY ConcatProperties
  <2> QED
    BY <2>1
<1>2. /\ Tail(a) \in Seq(A) /\ Len(Tail(a)) = n - 1
      /\ \A i \in 1 .. n - 1 : Tail(a)[i] = a[i + 1]
  OBVIOUS
<1> DEFINE u == Tail(a) \o b
           w == Tail(s)
<1>3. /\ u \in Seq(A) /\ Len(u) = (n - 1) + Len(b)
      /\ \A i \in 1 .. (n - 1) + Len(b) :
           u[i] = IF i <= n - 1 THEN Tail(a)[i] ELSE b[i - (n - 1)]
  <2>1. /\ u \in Seq(A) /\ Len(u) = Len(Tail(a)) + Len(b)
        /\ \A i \in 1 .. Len(Tail(a)) + Len(b) :
             u[i] = IF i <= Len(Tail(a)) THEN Tail(a)[i] ELSE b[i - Len(Tail(a))]
    BY <1>2, ConcatProperties
  <2> QED
    BY <1>2, <2>1
<1> HIDE DEF s, n, u
<1>4. /\ s # <<>> /\ w \in Seq(A) /\ Len(w) = Len(s) - 1 /\ Head(s) = s[1]
      /\ \A i \in 1 .. Len(w) : w[i] = s[i + 1]
  <2>1. s # <<>> /\ s \in Seq(A)
    BY <1>1
  <2> QED
    BY <2>1
<1>5. Head(s) = Head(a)
  BY <1>1, <1>4
<1> HIDE DEF w
<1>6. Len(w) = Len(u)
  BY <1>1, <1>3, <1>4
<1>7. ASSUME NEW i \in 1 .. Len(w) PROVE w[i] = u[i]
  <2>1. w[i] = s[i + 1] /\ i + 1 \in 1 .. n + Len(b) /\ i \in 1 .. (n - 1) + Len(b)
    BY <1>1, <1>3, <1>4, <1>6
  <2>2. CASE i <= n - 1
    <3>1. i + 1 <= n /\ i \in 1 .. n - 1
      BY <1>1, <2>1, <2>2
    <3>2. s[i + 1] = a[i + 1] /\ u[i] = Tail(a)[i]
      BY <1>1, <1>3, <2>1, <2>2, <3>1
    <3> QED
      BY <1>2, <2>1, <3>1, <3>2
  <2>3. CASE i > n - 1
    <3>1. (i + 1) - n = i - (n - 1) /\ ~(i + 1 <= n) /\ ~(i <= n - 1)
      BY <1>1, <2>1, <2>3
    <3>2. s[i + 1] = b[(i + 1) - n] /\ u[i] = b[i - (n - 1)]
      BY <1>1, <1>3, <2>1, <3>1
    <3> QED
      BY <2>1, <3>1, <3>2
  <2> QED
    BY <1>1, <2>1, <2>2, <2>3
<1>8. w = u
  BY <1>3, <1>4, <1>6, <1>7, SeqEqual
<1> QED
  BY <1>1, <1>4, <1>5, <1>8 DEF s, u, w

\* An access makes of the outputs what the rest of the sequence starts from.
LEMMA AccessEnds ==
  ASSUME Base, NEW t \in TaskName, Perform(t),
         NEW s \in Seq(Access), s # <<>>, Head(s) = Head(todo[t]),
         NEW c \in Channel, NEW v, EndsAt(s, c, v)
  PROVE  /\ Ends(Tail(s), "duty", c, v, duty'[c])
         /\ Ends(Tail(s), "pwm", c, v, pwm'[c])
         /\ Ends(Tail(s), "in1", c, PinOf(v), in1'[c])
<1> DEFINE a == Head(s)
<1>1. /\ duty \in [Channel -> Duty] /\ pwm \in [Channel -> Duty]
      /\ in1 \in [Channel -> {0, 1}]
  BY DEF Base, Values
<1>2. /\ duty' = IF a.op = "duty" THEN [duty EXCEPT ![a.ch] = a.val] ELSE duty
      /\ in1' = IF a.op = "in1" THEN [in1 EXCEPT ![a.ch] = a.val] ELSE in1
      /\ pwm' = IF a.op = "pwm" THEN [pwm EXCEPT ![a.ch] = a.val] ELSE pwm
  BY DEF Perform
<1> HIDE DEF a
<1>3. /\ duty'[c] = (IF Match(a, "duty", c) THEN a.val ELSE duty[c])
      /\ in1'[c] = (IF Match(a, "in1", c) THEN a.val ELSE in1[c])
      /\ pwm'[c] = (IF Match(a, "pwm", c) THEN a.val ELSE pwm[c])
  BY <1>1, <1>2 DEF Match
<1> QED
  BY <1>3, EndsTail DEF EndsAt, a

\* Accesses to nothing in a channel may come first.
LEMMA EndsAfterSpare ==
  ASSUME NEW A, NEW a \in Seq(A), NEW b \in Seq(A), NEW c, NEW op \in {"duty", "pwm", "in1"},
         NEW v, NEW cur, Spares(a, c), Ends(b, op, c, v, cur)
  PROVE  Ends(a \o b, op, c, v, cur)
<1>1. CASE Fixes(b, op, c, v)
  BY <1>1, FixesAfter DEF Ends
<1>2. CASE cur = v /\ \A j \in DOMAIN b : Match(b[j], op, c) => b[j].val = v
  <2> DEFINE s == a \o b
             n == Len(a)
  <2>1. \A i \in DOMAIN s : \/ i \in DOMAIN a /\ s[i] = a[i]
                            \/ s[i] = b[i - n] /\ i - n \in DOMAIN b
    OBVIOUS
  <2> HIDE DEF s, n
  <2>2. \A i \in DOMAIN s : Match(s[i], op, c) => s[i].val = v
    BY <1>2, <2>1 DEF Spares
  <2> QED
    BY <1>2, <2>2 DEF Ends, s
<1> QED
  BY <1>1, <1>2 DEF Ends

\* An empty sequence leaves things as they are.
LEMMA EndsOfNothing ==
  ASSUME NEW op, NEW c, NEW v, NEW cur
  PROVE  Ends(<<>>, op, c, v, cur) <=> cur = v
BY DEF Ends, Fixes

\* A sequence that leaves a channel at a duty ends with it, whatever was there.
LEMMA LeavesEnds ==
  ASSUME NEW s, NEW c, NEW v, Leaves(s, c, v), NEW x, NEW y, NEW z
  PROVE  /\ Ends(s, "duty", c, v, x) /\ Ends(s, "pwm", c, v, y)
         /\ Ends(s, "in1", c, PinOf(v), z)
BY DEF Leaves, Ends

\* What is left when tasks of a higher priority sleep.
LEMMA RestOfSleepers ==
  ASSUME Base
  PROVE  /\ todo["health"] = <<>> => Rest = todo["fast"] \o todo["ctrl"]
         /\ todo["health"] = <<>> /\ todo["fast"] = <<>> => Rest = todo["ctrl"]
         /\ todo["health"] = <<>> /\ todo["ctrl"] = <<>> => Rest = todo["fast"]
         /\ Rest \in Seq(Access)
<1>1. /\ todo["health"] \in Seq(Access) /\ todo["fast"] \in Seq(Access)
      /\ todo["ctrl"] \in Seq(Access)
  BY JobsAreSequences
<1>2. todo["fast"] \o todo["ctrl"] \in Seq(Access)
  BY <1>1, ConcatProperties
<1>3. Rest \in Seq(Access)
  BY <1>1, <1>2, ConcatProperties DEF Rest
<1> QED
  BY <1>1, <1>2, <1>3, ConcatEmptySeq DEF Rest

\* Nothing that a step leaves alone ends otherwise.
LEMMA AgreesUntouched ==
  ASSUME AgreesInTheEnd, UNCHANGED <<duty, in1, pwm>>, torn' = torn,
         todo'["ctrl"] = todo["ctrl"], todo'["fast"] = todo["fast"],
         todo'["health"] = todo["health"]
  PROVE  AgreesInTheEnd'
<1>1. \A c : (Pending("fast", c)' <=> Pending("fast", c))
             /\ (Pending("health", c)' <=> Pending("health", c))
  BY DEF Pending
<1>2. Intrudes' <=> Intrudes
  BY <1>1 DEF Intrudes
<1>3. Undisturbed' <=> Undisturbed
  BY Zenon, <1>2 DEF Undisturbed
<1>4. Rest' = Rest
  BY DEF Rest
<1>5. \A c, v : EndsAt(Rest, c, v)' <=> EndsAt(Rest, c, v)
  BY <1>4 DEF EndsAt
<1> QED
  BY <1>3, <1>5 DEF AgreesInTheEnd

\* Starts keep the third part.
LEMMA StartKeepsAgreement ==
  ASSUME Base, AgreesInTheEnd, NEW t \in TaskName, Start(t)
  PROVE  AgreesInTheEnd'
<1>1. CASE t = "telem"
  BY <1>1, StartTelem, AgreesUntouched DEF StartKeeps, TaskName
<1>2. CASE t = "ctrl"
  <2>1. /\ todo'["health"] = <<>> /\ todo'["fast"] = <<>>
        /\ \E rest \in Seq(Stamped(tick)) :
              /\ todo'["ctrl"] = <<SetGlobalTick(tick)>> \o rest
              /\ \A c \in Channel : \E v \in Duty : Leaves(rest, c, v)
    BY <1>2, StartCtrl DEF TaskName
  <2>2. PICK rest \in Seq(Stamped(tick)) :
          /\ todo'["ctrl"] = <<SetGlobalTick(tick)>> \o rest
          /\ \A c \in Channel : \E v \in Duty : Leaves(rest, c, v)
    BY <2>1
  <2> DEFINE A == Stamped(tick) \cup {SetGlobalTick(tick)}
  <2>4. <<SetGlobalTick(tick)>> \in Seq(A) /\ rest \in Seq(A)
    BY SeqMono
  <2> HIDE DEF A
  <2>3. Rest' = <<SetGlobalTick(tick)>> \o rest
    <3> DEFINE job == <<SetGlobalTick(tick)>> \o rest
    <3>1. job \in Seq(A)
      BY <2>4, ConcatProperties
    <3> HIDE DEF job
    <3>2. <<>> \o (<<>> \o job) = job
      BY <3>1, ConcatEmptySeq
    <3>3. todo'["ctrl"] = job
      BY <2>2 DEF job
    <3>4. Rest' = <<>> \o (<<>> \o job)
      BY <2>1, <3>3 DEF Rest
    <3> QED
      BY <3>2, <3>4 DEF job
  <2>5. \A c \in Channel : \E v \in Duty : Leaves(Rest', c, v)
    BY <2>2, <2>3, <2>4, LeavesAfter
  <2>6. \A c \in Channel : \E v \in Duty : EndsAt(Rest, c, v)'
    BY <2>5, LeavesEnds DEF EndsAt
  <2> QED
    BY <2>6 DEF AgreesInTheEnd
<1>3. CASE t = "fast"
  <2> DEFINE job == <<SetGlobalTick(tick), Safety(tick)>>
  <2>1. /\ UNCHANGED <<duty, in1, pwm>> /\ torn' = torn
        /\ todo["health"] = <<>> /\ todo["fast"] = <<>> /\ todo'["health"] = <<>>
        /\ todo'["fast"] = job /\ todo'["ctrl"] = todo["ctrl"]
    BY <1>3, StartFast DEF StartKeeps, TaskName
  <2>2. ~Intrudes
    BY <2>1 DEF Intrudes, Pending
  <2>3. Undisturbed' => Undisturbed
    BY Zenon, <2>1, <2>2 DEF Undisturbed
  <2>5. job \in Seq(Access) /\ todo["ctrl"] \in Seq(Access)
    <3>1. SetGlobalTick(tick) \in Access /\ Safety(tick) \in Access
      BY AccessesOfTick DEF Base, Values
    <3> HIDE DEF Access
    <3>2. job \in Seq(Access)
      BY <3>1
    <3> QED
      BY <3>2, JobsAreSequences
  <2>4. Rest = todo["ctrl"] /\ Rest' = job \o todo["ctrl"]
    <3> HIDE DEF job
    <3>1. Rest' = <<>> \o (job \o todo["ctrl"])
      BY <2>1 DEF Rest
    <3>2. job \o todo["ctrl"] \in Seq(Access)
      BY <2>5, ConcatProperties
    <3> QED
      BY <2>1, <3>1, <3>2, RestOfSleepers, ConcatEmptySeq
  <2>6. \A c : Spares(job, c)
    <3>1. \A i \in DOMAIN job : job[i] \in {SetGlobalTick(tick), Safety(tick)}
      OBVIOUS
    <3>2. \A op \in {"duty", "pwm", "in1"} : \A c :
            ~Match(SetGlobalTick(tick), op, c) /\ ~Match(Safety(tick), op, c)
      BY DEF Match, SetGlobalTick, Safety
    <3> QED
      BY <3>1, <3>2 DEF Spares
  <2> HIDE DEF job
  <2>7. \A c, v : EndsAt(Rest, c, v) => EndsAt(Rest, c, v)'
    BY <2>1, <2>4, <2>5, <2>6, EndsAfterSpare DEF EndsAt
  <2> QED
    BY <2>3, <2>7 DEF AgreesInTheEnd
<1>4. CASE t = "health"
  <2>1. /\ torn' = torn /\ todo'["health"] = StopBoth(0)
        /\ todo["health"] = <<>> /\ todo'["fast"] = todo["fast"]
        /\ todo'["ctrl"] = todo["ctrl"]
    BY <1>4, StartHealth DEF TaskName
  <2>2. \A c \in Channel : Leaves(StopBoth(0), c, 0)
    BY StopBothForm
  <2>3. Intrudes'
    <3>1. 1 \in Channel /\ Leaves(todo'["health"], 1, 0)
      BY <2>1, <2>2 DEF Channel
    <3> QED
      BY <3>1 DEF Intrudes, Pending, Leaves, Fixes
  <2>4. Undisturbed' => todo["ctrl"] = <<>>
    BY Zenon, <2>1, <2>3 DEF Undisturbed
  <2>5. ASSUME todo["ctrl"] = <<>>, NEW c \in Channel PROVE EndsAt(Rest, c, 0)'
    <3>1. /\ todo["fast"] \in Seq(Access) /\ StopBoth(0) \in Seq(Access)
          /\ todo'["ctrl"] = <<>>
      <4>1. StopBoth(0) \in Seq(StopStamped(0)) /\ StopStamped(0) \subseteq Access
        BY StopBothForm, AccessesOfTick
      <4>2. StopBoth(0) \in Seq(Access)
        BY <4>1, SeqMono
      <4> QED
        BY <2>1, <2>5, <4>2, JobsAreSequences
    <3>2. Rest' = StopBoth(0) \o todo["fast"]
      <4>1. todo["fast"] \o <<>> = todo["fast"]
        BY <3>1, ConcatEmptySeq
      <4> QED
        BY <2>1, <3>1, <4>1 DEF Rest
    <3>3. \A j \in DOMAIN todo["fast"] :
            todo["fast"][j].op \in {"duty", "pwm", "in1"} => todo["fast"][j].val = 0
      <4>1. CASE todo["fast"] \in Seq(StopWrite)
        <5>1. \A j \in DOMAIN todo["fast"] : todo["fast"][j] \in StopWrite
          BY <4>1
        <5> QED
          BY <5>1 DEF StopWrite
      <4>2. ASSUME NEW n \in 0 .. tick,
                   \/ todo["fast"] = <<SetGlobalTick(n), Safety(n)>>
                   \/ todo["fast"] = <<Safety(n)>>
            PROVE  \A j \in DOMAIN todo["fast"] :
                     todo["fast"][j].op \notin {"duty", "pwm", "in1"}
        <5>1. \A j \in DOMAIN todo["fast"] : todo["fast"][j] \in {SetGlobalTick(n), Safety(n)}
          BY <4>2
        <5> QED
          BY <5>1 DEF SetGlobalTick, Safety
      <4> QED
        BY <4>1, <4>2 DEF Base, FastForm
    <3>4. ASSUME NEW op \in {"duty", "pwm", "in1"}
          PROVE  \A j \in DOMAIN todo["fast"] :
                   Match(todo["fast"][j], op, c) => todo["fast"][j].val = 0
      BY <3>3 DEF Match
    <3>5. PinOf(0) = 0
      BY DEF PinOf
    <3>6. Leaves(Rest', c, 0)
      BY <2>2, <3>1, <3>2, <3>4, <3>5, FixesBefore DEF Leaves
    <3> QED
      BY <3>6, LeavesEnds DEF EndsAt
  <2> QED
    BY <2>4, <2>5, ZeroIsDuty DEF AgreesInTheEnd
<1> QED
  BY <1>1, <1>2, <1>3, <1>4 DEF TaskName

\* The task that has the processor makes the first access of all that are left.
LEMMA RestShrinks ==
  ASSUME Base, NEW t \in {"ctrl", "fast", "health"}, Perform(t)
  PROVE  /\ Rest # <<>> /\ Head(Rest) = Head(todo[t]) /\ Rest' = Tail(Rest)
<1> t \in TaskName
  BY DEF TaskName
<1>1. /\ todo["health"] \in Seq(Access) /\ todo["fast"] \in Seq(Access)
      /\ todo["ctrl"] \in Seq(Access)
  BY JobsAreSequences
<1>2. /\ todo[t] # <<>> /\ todo'[t] = Tail(todo[t])
      /\ \A u \in TaskName \ {t} : todo'[u] = todo[u]
  BY PerformKeeps
<1>3. CASE t = "ctrl"
  <2>1. /\ todo["fast"] = <<>> /\ todo["health"] = <<>>
        /\ todo'["fast"] = <<>> /\ todo'["health"] = <<>>
    BY <1>2, <1>3, PerformCtrl DEF TaskName
  <2>2. Rest = todo["ctrl"]
    BY <2>1, RestOfSleepers
  <2>3. Tail(todo["ctrl"]) \in Seq(Access)
    BY <1>1, <1>2, <1>3
  <2>4. <<>> \o (<<>> \o Tail(todo["ctrl"])) = Tail(todo["ctrl"])
    BY <2>3, ConcatEmptySeq
  <2>5. Rest' = Tail(todo["ctrl"])
    BY <1>2, <1>3, <2>1, <2>4 DEF Rest
  <2> QED
    BY <1>2, <1>3, <2>2, <2>5
<1>4. CASE t = "fast"
  <2>1. /\ todo["health"] = <<>> /\ todo'["health"] = <<>> /\ todo'["ctrl"] = todo["ctrl"]
    BY <1>2, <1>4, PerformFast DEF TaskName
  <2>2. Rest = todo["fast"] \o todo["ctrl"]
    BY <2>1, RestOfSleepers
  <2>3. /\ Rest # <<>> /\ Head(Rest) = Head(todo["fast"])
        /\ Tail(Rest) = Tail(todo["fast"]) \o todo["ctrl"]
    <3> DEFINE a == todo["fast"]
               b == todo["ctrl"]
    <3>1. a \in Seq(Access) /\ b \in Seq(Access) /\ a # <<>>
      BY <1>1, <1>2, <1>4
    <3>2. Rest = a \o b
      BY <2>2
    <3> HIDE DEF a, b
    <3>3. Rest # <<>> /\ Head(Rest) = Head(a) /\ Tail(Rest) = Tail(a) \o b
      BY <3>1, <3>2, TailOfBoth
    <3> QED
      BY <3>3 DEF a, b
  <2>4. Tail(todo["fast"]) \o todo["ctrl"] \in Seq(Access)
    <3>1. Tail(todo["fast"]) \in Seq(Access)
      BY <1>1, <1>2, <1>4
    <3> QED
      BY <1>1, <3>1, ConcatProperties
  <2>5. Rest' = Tail(todo["fast"]) \o todo["ctrl"]
    BY <1>2, <1>4, <2>1, <2>4, ConcatEmptySeq DEF Rest
  <2> QED
    BY <1>4, <2>3, <2>5
<1>5. CASE t = "health"
  <2>1. todo'["fast"] = todo["fast"] /\ todo'["ctrl"] = todo["ctrl"]
    BY <1>2, <1>5 DEF TaskName
  <2>2. todo["fast"] \o todo["ctrl"] \in Seq(Access)
    BY <1>1, ConcatProperties
  <2>3. /\ Rest # <<>> /\ Head(Rest) = Head(todo["health"])
        /\ Tail(Rest) = Tail(todo["health"]) \o (todo["fast"] \o todo["ctrl"])
    <3> DEFINE a == todo["health"]
               b == todo["fast"] \o todo["ctrl"]
    <3>1. a \in Seq(Access) /\ b \in Seq(Access) /\ a # <<>>
      BY <1>1, <1>2, <1>5, <2>2
    <3>2. Rest = a \o b
      BY DEF Rest
    <3> HIDE DEF a, b
    <3>3. Rest # <<>> /\ Head(Rest) = Head(a) /\ Tail(Rest) = Tail(a) \o b
      BY <3>1, <3>2, TailOfBoth
    <3> QED
      BY <3>3 DEF a, b
  <2>4. Rest' = Tail(todo["health"]) \o (todo["fast"] \o todo["ctrl"])
    BY <1>2, <1>5, <2>1 DEF Rest
  <2> QED
    BY <1>5, <2>3, <2>4
<1> QED
  BY <1>3, <1>4, <1>5

\* An access leaves nothing disturbed that was not about to be.
LEMMA NoNewDisturbance ==
  ASSUME Base, NEW t \in {"ctrl", "fast", "health"}, Perform(t), Undisturbed'
  PROVE  Undisturbed
<1> t \in TaskName
  BY DEF TaskName
<1>1. /\ todo[t] # <<>> /\ todo'[t] = Tail(todo[t])
      /\ \A u \in TaskName \ {t} : todo'[u] = todo[u]
  BY PerformKeeps
<1>2. ~torn /\ (t # "ctrl" /\ Head(todo[t]).op = "duty" => todo["ctrl"] = <<>>)
  <2>1. torn' = IF Head(todo[t]).op = "duty" THEN Tears(t) ELSE torn
    BY Zenon DEF Perform
  <2>2. ~torn'
    BY Zenon DEF Undisturbed
  <2> QED
    BY Zenon, <2>1, <2>2 DEF Tears
<1>3. CASE t = "ctrl"
  <2>1. ~Intrudes
    BY <1>3, PerformCtrl DEF Intrudes, Pending
  <2> QED
    BY Zenon, <1>2, <2>1 DEF Undisturbed
<1>4. CASE t # "ctrl" /\ todo["ctrl"] # <<>>
  <2>1. todo'["ctrl"] # <<>>
    BY <1>1, <1>4 DEF TaskName
  <2>2. ~Intrudes'
    BY Zenon, <2>1 DEF Undisturbed
  <2>3. Head(todo[t]).op # "duty"
    BY Zenon, <1>2, <1>4
  <2>4. \A c : ~Match(Head(todo[t]), "duty", c)
    BY <2>3 DEF Match
  <2>5. todo[t] \in Seq(Access)
    BY JobsAreSequences
  <2>6. \A c : Pending(t, c) => Pending(t, c)'
    <3> SUFFICES ASSUME NEW c, Pending(t, c) PROVE Pending(t, c)'
      OBVIOUS
    <3>1. \E i \in DOMAIN Tail(todo[t]) : Match(Tail(todo[t])[i], "duty", c)
      BY <1>1, <2>4, <2>5, PendingRest DEF Pending
    <3> QED
      BY <1>1, <3>1 DEF Pending
  <2>7. \A u \in {"fast", "health"} : \A c : Pending(u, c) => Pending(u, c)'
    <3>1. \A u \in {"fast", "health"} \ {t} : todo'[u] = todo[u]
      BY <1>1 DEF TaskName
    <3> QED
      BY <2>6, <3>1 DEF Pending
  <2>8. ~Intrudes
    BY <2>2, <2>7 DEF Intrudes
  <2> QED
    BY Zenon, <1>2, <2>8 DEF Undisturbed
<1>5. CASE todo["ctrl"] = <<>>
  BY Zenon, <1>2, <1>5 DEF Undisturbed
<1> QED
  BY <1>3, <1>4, <1>5

\* Accesses keep the third part.
LEMMA PerformKeepsAgreement ==
  ASSUME Base, AgreesInTheEnd, NEW t \in TaskName, Perform(t)
  PROVE  AgreesInTheEnd'
<1>1. CASE t = "telem"
  BY <1>1, PerformTelem, PerformKeeps, AgreesUntouched DEF TaskName
<1>2. CASE t \in {"ctrl", "fast", "health"}
  <2>1. Rest # <<>> /\ Head(Rest) = Head(todo[t]) /\ Rest' = Tail(Rest)
    BY <1>2, RestShrinks
  <2>2. Rest \in Seq(Access)
    BY RestOfSleepers
  <2>3. ASSUME NEW c \in Channel, NEW v \in Duty, EndsAt(Rest, c, v)
        PROVE  EndsAt(Rest, c, v)'
    <3>1. /\ Ends(Tail(Rest), "duty", c, v, duty'[c])
          /\ Ends(Tail(Rest), "pwm", c, v, pwm'[c])
          /\ Ends(Tail(Rest), "in1", c, PinOf(v), in1'[c])
      BY <2>1, <2>2, <2>3, AccessEnds
    <3> QED
      BY <2>1, <3>1 DEF EndsAt
  <2>4. Undisturbed' => Undisturbed
    BY <1>2, NoNewDisturbance
  <2> QED
    BY <2>3, <2>4 DEF AgreesInTheEnd
<1> QED
  BY <1>1, <1>2 DEF TaskName

\* The test of the timeout keeps the third part.
LEMMA SafetyKeepsAgreement ==
  ASSUME Base, AgreesInTheEnd, SafetyTick
  PROVE  AgreesInTheEnd'
<1>1. PICK n \in 0 .. tick :
        /\ todo["fast"] = <<Safety(n)>>
        /\ todo'["fast"] = IF CommandIsStale(n) THEN SafetyStops ELSE <<>>
  BY SafetyIsLast
<1>2. /\ todo["health"] = <<>> /\ todo'["health"] = <<>> /\ todo'["ctrl"] = todo["ctrl"]
      /\ UNCHANGED <<duty, in1, pwm>> /\ torn' = torn
  BY SafetyIsLast DEF TaskName
<1>3. ~Intrudes
  BY <1>1, <1>2, NoStopInFast DEF Intrudes, Pending
<1>4. Undisturbed' => Undisturbed
  BY Zenon, <1>2, <1>3 DEF Undisturbed
<1>5. CASE todo'["fast"] = <<>>
  <2>1. todo["ctrl"] \in Seq(Access) /\ Safety(n) \in Access
    BY JobsAreSequences, AccessesOfTick DEF Base, Values
  <2>2. Rest = <<Safety(n)>> \o todo["ctrl"]
    BY <1>1, <1>2, RestOfSleepers
  <2>3. Rest' = todo["ctrl"]
    BY <1>2, <1>5, <2>1, ConcatEmptySeq DEF Rest
  <2>4. /\ Rest \in Seq(Access) /\ Rest # <<>> /\ Head(Rest) = Safety(n)
        /\ Tail(Rest) = todo["ctrl"]
    BY <2>1, <2>2, HeadAndTail
  <2>5. \A c : \A op \in {"duty", "pwm", "in1"} : ~Match(Safety(n), op, c)
    BY DEF Match, Safety
  <2>6. ASSUME NEW c \in Channel, NEW v \in Duty, EndsAt(Rest, c, v)
        PROVE  EndsAt(Rest, c, v)'
    <3>1. ASSUME NEW op \in {"duty", "pwm", "in1"}, NEW w, NEW cur, Ends(Rest, op, c, w, cur)
          PROVE  Ends(todo["ctrl"], op, c, w, cur)
      BY <2>4, <2>5, <3>1, EndsTail
    <3> QED
      BY <1>2, <2>3, <2>6, <3>1 DEF EndsAt
  <2> QED
    BY <1>4, <2>6 DEF AgreesInTheEnd
<1>6. CASE todo'["fast"] = SafetyStops
  <2>1. \A c \in Channel : Leaves(SafetyStops, c, 0)
    BY SafetyStopsForm
  <2>2. Intrudes'
    <3>1. 1 \in Channel /\ Leaves(todo'["fast"], 1, 0)
      BY <1>6, <2>1 DEF Channel
    <3> QED
      BY <3>1 DEF Intrudes, Pending, Leaves, Fixes
  <2>3. Undisturbed' => todo["ctrl"] = <<>>
    BY Zenon, <1>2, <2>2 DEF Undisturbed
  <2>4. ASSUME todo["ctrl"] = <<>>, NEW c \in Channel PROVE EndsAt(Rest, c, 0)'
    <3>1. Rest' = SafetyStops
      BY <1>2, <1>6, <2>4, SafetyStopsForm, ConcatEmptySeq DEF Rest
    <3> QED
      BY <2>1, <3>1, LeavesEnds DEF EndsAt
  <2> QED
    BY <2>3, <2>4, ZeroIsDuty DEF AgreesInTheEnd
<1> QED
  BY <1>1, <1>5, <1>6

\* The stamp takes the place of its load, the first access of all that are
\* left.
LEMMA LoadInRest ==
  ASSUME Base, NEW t \in TaskName, LoadGlobalTick(t)
  PROVE  /\ Rest \in Seq(Access) /\ Rest # <<>>
         /\ \E n \in Nat : /\ Head(Rest) = LoadTick(n)
                          /\ Stamp(n, gTick) \in Access
                          /\ Rest' = <<Stamp(n, gTick)>> \o Tail(Rest)
<1>1. /\ todo["health"] \in Seq(Access) /\ todo["fast"] \in Seq(Access)
      /\ todo["ctrl"] \in Seq(Access) /\ Rest \in Seq(Access)
  BY JobsAreSequences, RestOfSleepers
<1>2. gTick \in Nat /\ 0 .. tick \subseteq Nat
  BY DEF Base, Values
<1>3. /\ todo[t] # <<>> /\ todo'[t] = <<Stamp(Head(todo[t]).at, gTick)>> \o Tail(todo[t])
      /\ \A u \in TaskName \ {t} : todo'[u] = todo[u]
  BY LoadKeeps
<1>4. CASE t = "ctrl"
  <2>1. PICK n \in 0 .. tick : Head(todo["ctrl"]) = LoadTick(n)
    BY <1>4, LoadIsFirst
  <2>2. /\ todo["fast"] = <<>> /\ todo["health"] = <<>>
        /\ todo'["fast"] = <<>> /\ todo'["health"] = <<>>
    BY <1>3, <1>4, LoadIsFirst DEF TaskName
  <2>3. Rest = todo["ctrl"]
    BY <2>2, RestOfSleepers
  <2>4. Stamp(n, gTick) \in Access /\ n \in Nat
    BY <1>2, AccessesOfTick
  <2> DEFINE w == <<Stamp(n, gTick)>> \o Tail(todo["ctrl"])
  <2>5. todo'["ctrl"] = w
    BY <1>3, <1>4, <2>1 DEF LoadTick
  <2>6. w \in Seq(Access)
    <3>1. Tail(todo["ctrl"]) \in Seq(Access)
      BY <1>1, <1>3, <1>4, FirstOfSeq
    <3> QED
      BY <2>4, <3>1, HeadAndTail
  <2> HIDE DEF w
  <2>7. Rest' = w
    BY <2>2, <2>5, <2>6, ConcatEmptySeq DEF Rest
  <2> QED
    BY <1>1, <1>3, <1>4, <2>1, <2>3, <2>4, <2>7 DEF w
<1>5. CASE t = "health"
  <2> DEFINE h == todo["health"]
             b == todo["fast"] \o todo["ctrl"]
             x == Stamp(0, gTick)
  <2>1. Head(h) = LoadTick(0) /\ h # <<>>
    BY <1>3, <1>5, LoadIsFirst
  <2>2. h \in Seq(Access) /\ b \in Seq(Access) /\ Tail(h) \in Seq(Access) /\ Rest = h \o b
    <3>1. b \in Seq(Access)
      BY <1>1, ConcatProperties
    <3>2. Tail(h) \in Seq(Access)
      BY <1>1, <2>1, FirstOfSeq
    <3> QED
      BY <1>1, <3>1, <3>2 DEF Rest
  <2>3. x \in Access
    BY <1>2, AccessesOfTick
  <2>4. Rest' = (<<x>> \o Tail(h)) \o b
    <3>1. todo'["health"] = <<x>> \o Tail(h)
      BY <1>3, <1>5, <2>1 DEF LoadTick
    <3>2. todo'["fast"] = todo["fast"] /\ todo'["ctrl"] = todo["ctrl"]
      BY <1>3, <1>5 DEF TaskName
    <3> QED
      BY <3>1, <3>2 DEF Rest
  <2> HIDE DEF h, b, x
  <2>5. /\ Rest # <<>> /\ Head(Rest) = Head(h) /\ Tail(Rest) = Tail(h) \o b
    BY <2>1, <2>2, TailOfBoth
  <2>6. <<x>> \in Seq(Access)
    <3> HIDE DEF Access
    <3> QED
      BY <2>3
  <2>7. (<<x>> \o Tail(h)) \o b = <<x>> \o (Tail(h) \o b)
    BY <2>2, <2>6, ConcatAssociative
  <2> QED
    BY <1>1, <2>1, <2>3, <2>4, <2>5, <2>7 DEF x
<1> QED
  BY <1>4, <1>5, LoadIsFirst

\* The load keeps the third part.
LEMMA LoadKeepsAgreement ==
  ASSUME Base, AgreesInTheEnd, NEW t \in TaskName, LoadGlobalTick(t)
  PROVE  AgreesInTheEnd'
<1>1. /\ UNCHANGED <<duty, in1, pwm>> /\ torn' = torn /\ todo[t] # <<>>
      /\ \A u \in TaskName \ {t} : todo'[u] = todo[u]
  BY LoadKeeps
<1>2. PICK n \in Nat : /\ Head(Rest) = LoadTick(n) /\ Stamp(n, gTick) \in Access
                       /\ Rest' = <<Stamp(n, gTick)>> \o Tail(Rest)
  BY LoadInRest
<1> DEFINE x == <<Stamp(n, gTick)>>
<1>3. Rest \in Seq(Access) /\ Rest # <<>> /\ Tail(Rest) \in Seq(Access)
  BY LoadInRest, FirstOfSeq
<1>4. x \in Seq(Access)
  <2> HIDE DEF Access
  <2> QED
    BY <1>2
<1>5. \A c : Spares(x, c)
  BY StampSpares
<1> HIDE DEF x
<1>6. ASSUME NEW op \in {"duty", "pwm", "in1"}, NEW c, NEW v, NEW cur,
             Ends(Rest, op, c, v, cur)
      PROVE  Ends(x \o Tail(Rest), op, c, v, cur)
  <2>1. ~Match(Head(Rest), op, c)
    BY <1>2 DEF Match, LoadTick
  <2>2. Ends(Tail(Rest), op, c, v, cur)
    BY <1>3, <1>6, <2>1, EndsTail
  <2> QED
    BY <1>3, <1>4, <1>5, <2>2, EndsAfterSpare
<1>7. \A c, v : EndsAt(Rest, c, v) => EndsAt(Rest, c, v)'
  <2>1. Rest' = x \o Tail(Rest)
    BY <1>2 DEF x
  <2> QED
    BY <1>1, <1>6, <2>1 DEF EndsAt
<1>8. Undisturbed' => Undisturbed
  <2>1. CASE t = "ctrl"
    <3>1. todo["fast"] = <<>> /\ todo["health"] = <<>>
      BY <2>1, LoadIsFirst
    <3>2. ~Intrudes
      BY <3>1 DEF Intrudes, Pending
    <3> QED
      BY Zenon, <1>1, <3>2 DEF Undisturbed
  <2>2. CASE t # "ctrl"
    <3>1. todo'["ctrl"] = todo["ctrl"]
      BY <1>1, <2>2 DEF TaskName
    <3>2. Intrudes' <=> Intrudes
      BY LoadKeepsPending DEF Intrudes
    <3> QED
      BY Zenon, <1>1, <3>1, <3>2 DEF Undisturbed
  <2> QED
    BY <2>1, <2>2
<1> QED
  BY <1>7, <1>8 DEF AgreesInTheEnd

\* Every step keeps the third part.
LEMMA AgreementKept ==
  ASSUME Base, AgreesInTheEnd, [Next]_vars PROVE AgreesInTheEnd'
<1>1. CASE \E t \in TaskName : TaskStep(t)
  BY <1>1, StepIsAccess, StartKeepsAgreement, PerformKeepsAgreement, LoadKeepsAgreement
<1>2. CASE SafetyTick
  BY <1>2, SafetyKeepsAgreement
<1>3. CASE Tick
  <2>1. UNCHANGED <<duty, in1, pwm, todo>> /\ torn' = torn
    BY <1>3 DEF Tick, hardware
  <2> QED
    BY <2>1, AgreesUntouched
<1>4. CASE UNCHANGED vars
  <2>1. UNCHANGED <<duty, in1, pwm, todo>> /\ torn' = torn
    BY <1>4 DEF vars, hardware
  <2> QED
    BY <2>1, AgreesUntouched
<1> QED
  BY <1>1, <1>2, <1>3, <1>4 DEF Next

\* At the start nothing is left, and all outputs are 0.
LEMMA AgreementAtStart == ASSUME Init PROVE AgreesInTheEnd
<1>1. \A t \in TaskName : todo[t] = <<>>
  BY DEF Init
<1>2. /\ todo["ctrl"] = <<>> /\ todo["fast"] = <<>> /\ todo["health"] = <<>>
  BY <1>1 DEF TaskName
<1>3. <<>> \o (<<>> \o <<>>) = <<>>
  OBVIOUS
<1>4. Rest = <<>>
  BY <1>2, <1>3 DEF Rest
<1>5. \A c \in Channel : duty[c] = 0 /\ pwm[c] = 0 /\ in1[c] = PinOf(0)
  BY DEF Init, PinOf
<1>6. \A c \in Channel : EndsAt(Rest, c, 0)
  BY <1>4, <1>5, EndsOfNothing DEF EndsAt
<1> QED
  BY <1>6, ZeroIsDuty DEF AgreesInTheEnd

-----------------------------------------------------------------------------
(* The invariant and what follows from it.                                 *)

MotorInv == Base /\ Stops /\ AgreesInTheEnd

\* The three parts together are an inductive invariant of the motor module.
THEOREM MotorInvariant == Spec => []MotorInv
<1>1. Init => MotorInv
  BY BaseAtStart, StopsAtStart, AgreementAtStart DEF MotorInv
<1>2. MotorInv /\ [Next]_vars => MotorInv'
  BY BaseKept, StopsKept, AgreementKept DEF MotorInv
<1> QED
  BY <1>1, <1>2, PTL DEF Spec

\* A sequence of at most 25 accesses remains in every job: the longest is two
\* stops and a command after the global tick.
LEMMA LongestJob ==
  ASSUME Base, NEW t \in TaskName PROVE Len(todo[t]) <= 25
<1>1. CASE t = "telem"
  <2>1. PICK n \in 0 .. tick : todo["telem"] \in {<<>>, <<SetGlobalTick(n)>>}
    BY DEF Base, TelemForm, Values
  <2>2. Len(<<>>) <= 25 /\ Len(<<SetGlobalTick(n)>>) <= 25
    OBVIOUS
  <2> QED
    BY <1>1, <2>1, <2>2
<1>2. CASE t = "ctrl"
  <2>1. PICK n \in 0 .. tick : \E s \in Seq(Stamped(n)) :
          /\ Len(s) <= 24
          /\ todo["ctrl"] = s \/ \E x : todo["ctrl"] = <<x>> \o s
    BY DEF Base, CtrlForm
  <2>2. PICK s \in Seq(Stamped(n)) :
          /\ Len(s) <= 24
          /\ todo["ctrl"] = s \/ \E x : todo["ctrl"] = <<x>> \o s
    BY <2>1
  <2>4. \A x : Len(<<x>> \o s) = Len(s) + 1 /\ Len(s) \in Nat
    BY OneMore
  <2>5. (\A x : Len(<<x>> \o s) <= 25) /\ Len(s) <= 25
    BY <2>2, <2>4
  <2> QED
    BY <1>2, <2>2, <2>5
<1>3. CASE t = "fast"
  <2>1. CASE todo["fast"] \in Seq(StopWrite) /\ Len(todo["fast"]) <= 6
    BY <1>3, <2>1
  <2>2. ASSUME NEW n \in 0 .. tick,
               \/ todo["fast"] = <<SetGlobalTick(n), Safety(n)>>
               \/ todo["fast"] = <<Safety(n)>>
        PROVE  Len(todo["fast"]) <= 25
    <3>1. Len(<<SetGlobalTick(n), Safety(n)>>) <= 25 /\ Len(<<Safety(n)>>) <= 25
      OBVIOUS
    <3> QED
      BY <2>2, <3>1
  <2> QED
    BY <1>3, <2>1, <2>2 DEF Base, FastForm
<1>4. CASE t = "health"
  <2>1. PICK s \in Seq(StopStamped(0)) :
          /\ Len(s) <= 8
          /\ todo["health"] = s \/ \E x : todo["health"] = <<x>> \o s
    BY DEF Base, HealthForm
  <2>2. \A x : Len(<<x>> \o s) = Len(s) + 1 /\ Len(s) \in Nat
    BY OneMore
  <2>3. (\A x : Len(<<x>> \o s) <= 25) /\ Len(s) <= 25
    BY <2>1, <2>2
  <2> QED
    BY <1>4, <2>1, <2>3
<1> QED
  BY <1>1, <1>2, <1>3, <1>4 DEF TaskName

\* The state of the motor module keeps its types.
THEOREM MotorTypes == Spec => []TypeOK
<1>1. ASSUME MotorInv PROVE TypeOK
  <2>1. Base
    BY <1>1 DEF MotorInv
  <2>2. \A t \in TaskName : Len(todo[t]) <= 25
    BY <2>1, LongestJob
  <2>3. fault \in BOOLEAN /\ torn \in BOOLEAN
    BY Zenon, <2>1 DEF Base, Values
  <2>4. /\ tick \in 0 .. MaxTick /\ gTick \in 0 .. MaxTick /\ lastCmd \in 0 .. MaxTick
        /\ duty \in [Channel -> Duty] /\ pwm \in [Channel -> Duty]
        /\ in1 \in [Channel -> {0, 1}]
        /\ fastWait \in 0 .. FastWindow /\ idle \in 0 .. IdleCap /\ cmdAge \in 0 .. CmdCap
    BY <2>1, MotorAssumption DEF Base, Values
  <2> QED
    BY <2>2, <2>3, <2>4 DEF TypeOK
<1> QED
  BY <1>1, MotorInvariant, PTL

\* The stamp of the last command is never newer than the clock of the test
\* that it is compared with, so its age never wraps.
THEOREM MotorStampNotAhead == Spec => []StampNotAhead
<1>1. ASSUME MotorInv PROVE StampNotAhead
  <2> SUFFICES ASSUME todo["fast"] # <<>>, Head(todo["fast"]).op = "safety"
               PROVE  lastCmd <= Head(todo["fast"]).at
    BY DEF StampNotAhead
  <2>1. CASE todo["fast"] \in Seq(StopWrite)
    <3>1. Head(todo["fast"]) \in StopWrite
      BY <2>1, FirstOfSeq
    <3> QED
      BY <3>1 DEF StopWrite
  <2>2. ASSUME NEW n \in 0 .. tick, FastTime(n),
               \/ todo["fast"] = <<SetGlobalTick(n), Safety(n)>>
               \/ todo["fast"] = <<Safety(n)>>
        PROVE  lastCmd <= Head(todo["fast"]).at
    <3>1. Head(todo["fast"]) \in {SetGlobalTick(n), Safety(n)}
      BY <2>2
    <3>2. Head(todo["fast"]).at = n
      BY <3>1 DEF SetGlobalTick, Safety
    <3> QED
      BY <2>2, <3>2 DEF FastTime
  <2> QED
    BY <1>1, <2>1, <2>2 DEF MotorInv, Base, FastForm
<1> QED
  BY <1>1, MotorInvariant, PTL

\* The command timeout never stops motors whose last command is fresh.
THEOREM MotorNoSpuriousStop == Spec => NoSpuriousStop
<1> DEFINE Justified ==
      (/\ Executes("fast", "safety") /\ ~fault
       /\ todo'["fast"] \notin {todo["fast"], <<>>})
        => cmdAge - (tick - Head(todo["fast"]).at) > Timeout
<1>1. ASSUME MotorInv, [Next]_vars PROVE [Justified]_vars
  <2> SUFFICES ASSUME Executes("fast", "safety"), ~fault,
                      todo'["fast"] \notin {todo["fast"], <<>>}
               PROVE  cmdAge - (tick - Head(todo["fast"]).at) > Timeout
    OBVIOUS
  <2>1. Base
    BY <1>1 DEF MotorInv
  <2>2. SafetyTick
    <3>1. CASE \E t \in TaskName : TaskStep(t)
      <4>1. PICK t \in TaskName : Start(t) \/ Perform(t) \/ LoadGlobalTick(t)
        BY <3>1, StepIsAccess
      <4>2. CASE t = "fast"
        <5>1. ~Start(t) /\ ~Perform(t) /\ ~LoadGlobalTick(t)
          BY <4>2 DEF Executes, Start, Perform, LoadGlobalTick
        <5> QED
          BY <4>1, <5>1
      <4>3. CASE t # "fast"
        <5>1. todo'["fast"] = todo["fast"]
          <6>1. CASE Perform(t)
            BY <2>1, <4>3, <6>1, PerformKeeps DEF TaskName
          <6>2. CASE Start(t)
            BY <2>1, <4>3, <6>2, StartTelem, StartCtrl, StartHealth DEF TaskName
          <6>3. CASE LoadGlobalTick(t)
            BY <2>1, <4>3, <6>3, LoadKeeps DEF TaskName
          <6> QED
            BY <4>1, <6>1, <6>2, <6>3
        <5> QED
          BY <5>1
      <4> QED
        BY <4>2, <4>3
    <3>2. CASE Tick
      BY <3>2 DEF Tick
    <3>3. CASE UNCHANGED vars
      BY <3>3 DEF vars
    <3> QED
      BY <1>1, <3>1, <3>2, <3>3 DEF Next
  <2>3. PICK n \in 0 .. tick :
          /\ FastTime(n) /\ Head(todo["fast"]).at = n
          /\ todo'["fast"] = IF CommandIsStale(n) THEN SafetyStops ELSE <<>>
    BY <2>1, <2>2, SafetyIsLast
  <2>4. CommandIsStale(n)
    BY <2>3
  <2>5. n - lastCmd > Timeout
    BY <2>1, <2>3, <2>4, AgeIsExact DEF CommandIsStale
  <2>6. cmdAge = CmdCap \/ tick - lastCmd <= cmdAge
    BY <2>1 DEF Base, CommandAge
  <2>7. /\ tick \in Int /\ lastCmd \in Int /\ cmdAge \in Int /\ fastWait \in Int
        /\ n \in Int /\ tick - n <= fastWait /\ fastWait <= FastWindow
        /\ FastWindow \in Int /\ Timeout \in Int
    BY <2>1, <2>3, MotorAssumption DEF Base, Values, FastTime, CmdCap
  <2>8. cmdAge - (tick - n) > Timeout
    BY <2>5, <2>6, <2>7 DEF CmdCap
  <2> QED
    BY <2>3, <2>8
<1> QED
  BY <1>1, MotorInvariant, PTL DEF Spec, NoSpuriousStop

\* When commands have stopped for the timeout and the test after it, the
\* software's duties are 0.
THEOREM MotorStaleDutyCleared == Spec => []StaleDutyCleared
<1>1. ASSUME MotorInv PROVE StaleDutyCleared
  <2> SUFFICES ASSUME idle = IdleCap, todo["fast"] = <<>>, NEW c \in Channel
               PROVE  duty[c] = 0
    BY DEF StaleDutyCleared, CommandsStopped
  <2>1. idle - fastWait > Timeout + FastWindow
    BY <1>1, MotorAssumption DEF MotorInv, Base, Values, IdleCap
  <2>2. duty[c] = 0 \/ Pending("fast", c)
    BY <1>1, <2>1 DEF MotorInv, Stops, TimeoutWorks
  <2> QED
    BY <2>2, NoStopInFast
<1> QED
  BY <1>1, MotorInvariant, PTL

\* Between jobs the registers say what the software believes, unless a stop
\* fell into the last command.
THEOREM MotorOutputsMatchDuty == Spec => []OutputsMatchDuty
<1>1. ASSUME MotorInv PROVE OutputsMatchDuty
  <2> SUFFICES ASSUME \A t \in TaskName : todo[t] = <<>>, ~torn, NEW c \in Channel
               PROVE  pwm[c] = duty[c] /\ (duty[c] # 0 <=> in1[c] = 1)
    BY Zenon DEF OutputsMatchDuty
  <2>1. todo["ctrl"] = <<>> /\ todo["fast"] = <<>> /\ todo["health"] = <<>>
    BY DEF TaskName
  <2>2. Undisturbed
    BY Zenon, <2>1 DEF Undisturbed
  <2>3. Rest = <<>>
    BY <1>1, <2>1, RestOfSleepers DEF MotorInv
  <2>4. PICK v \in Duty : EndsAt(Rest, c, v)
    BY <1>1, <2>2 DEF MotorInv, AgreesInTheEnd
  <2>5. duty[c] = v /\ pwm[c] = v /\ in1[c] = PinOf(v)
    BY <2>3, <2>4, EndsOfNothing DEF EndsAt
  <2> QED
    BY <2>5 DEF PinOf
<1> QED
  BY <1>1, MotorInvariant, PTL

=============================================================================
