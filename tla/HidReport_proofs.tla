-------------------------- MODULE HidReport_proofs --------------------------
(***************************************************************************)
(* The reports show what the controller sent, for every input report and   *)
(* whatever a read buffer held before.                                     *)
(***************************************************************************)
EXTENDS HidReport, SequenceTheorems, NaturalsInduction,
        WellFoundedInduction, TLAPS

-----------------------------------------------------------------------------
(* The bytes of a report.                                                  *)

\* What the last conversion left in the buffer.
GamePadShown ==
    /\ \A k \in DOMAIN GamePadCopies :
          buffer[GamePadCopies[k][1]] = input[GamePadCopies[k][2]]
    /\ buffer[5] = FaceAndHat(input, 0)
    /\ buffer[6] = Remaining(input)
JoystickShown == \A k \in DOMAIN JoystickCopies :
    buffer[JoystickCopies[k][1]] = input[JoystickCopies[k][2]]

ReportInv ==
    /\ HidDeviceMode \in Modes
    /\ MuteDigitalPressureButtons \in BOOLEAN
    /\ input \in [0..25 -> Bytes]
    /\ DOMAIN buffer = Places
    /\ reportId \in 0..2
    /\ reportId = 1 => GamePadShown
    /\ reportId = 2 => HidDeviceMode = "MULTI" /\ JoystickShown

\* A table that writes no byte twice is copied as it says.
LEMMA CopiedFacts ==
    ASSUME NEW copies, NEW in, NEW out,
           \A k, l \in DOMAIN copies : copies[k][1] = copies[l][1] => k = l,
           \A k \in DOMAIN copies : copies[k][1] \in Places
    PROVE  /\ DOMAIN Copied(copies, in, out) = Places
           /\ \A k \in DOMAIN copies :
                 Copied(copies, in, out)[copies[k][1]] = in[copies[k][2]]
  <1>1. ASSUME NEW k \in DOMAIN copies
        PROVE  Copied(copies, in, out)[copies[k][1]] = in[copies[k][2]]
    <2>1. PICK l \in DOMAIN copies :
              /\ copies[l][1] = copies[k][1]
              /\ l = CHOOSE m \in DOMAIN copies : copies[m][1] = copies[k][1]
      OBVIOUS
    <2>2. l = k
      BY <2>1
    <2> QED BY <2>1, <2>2 DEF Copied
  <1> QED BY <1>1 DEF Copied

LEMMA GamePadTable ==
    /\ DOMAIN GamePadCopies = 1..17
    /\ \A k \in 1..17 : GamePadCopies[k] \in (1..19) \X (0..25)
    /\ \A k \in 1..17 : GamePadCopies[k][1] \notin {5, 6}
    /\ \A k, l \in 1..17 : GamePadCopies[k][1] = GamePadCopies[l][1] => k = l
  BY DEF GamePadCopies

LEMMA JoystickTable ==
    /\ DOMAIN JoystickCopies = 1..10
    /\ \A k \in 1..10 : JoystickCopies[k] \in (1..10) \X (0..25)
    /\ \A k, l \in 1..10 : JoystickCopies[k][1] = JoystickCopies[l][1] => k = l
  BY DEF JoystickCopies

\* A game pad report, whatever its id and whatever the buffer held.
LEMMA GamePadFacts ==
    ASSUME NEW id, NEW in, NEW out
    PROVE  /\ DOMAIN GamePad(id, in, out) = Places
           /\ GamePad(id, in, out)[0] = id
           /\ \A k \in DOMAIN GamePadCopies :
                 GamePad(id, in, out)[GamePadCopies[k][1]] = in[GamePadCopies[k][2]]
           /\ GamePad(id, in, out)[5] = FaceAndHat(in, 0)
           /\ GamePad(id, in, out)[6] = Remaining(in)
  <1> DEFINE C == Copied(GamePadCopies, in, out)
  <1>1. /\ DOMAIN C = Places
        /\ \A k \in DOMAIN GamePadCopies : C[GamePadCopies[k][1]] = in[GamePadCopies[k][2]]
    <2>1. \A k \in DOMAIN GamePadCopies : GamePadCopies[k][1] \in Places
      BY GamePadTable DEF Places, DS3_HID_INPUT_REPORT_SIZE
    <2> HIDE DEF C
    <2> QED BY <2>1, GamePadTable, CopiedFacts DEF C
  <1>2. FaceAndHat(in, out[5]) = FaceAndHat(in, 0)
    BY DEF FaceAndHat
  <1> DEFINE G == [C EXCEPT ![0] = id, ![5] = FaceAndHat(in, 0), ![6] = Remaining(in)]
  <1>3. GamePad(id, in, out) = G
    BY <1>2 DEF GamePad
  <1>4. 0 \in Places /\ 5 \in Places /\ 6 \in Places
    BY DEF Places, DS3_HID_INPUT_REPORT_SIZE
  <1> HIDE DEF C
  <1>5. DOMAIN G = Places /\ G[0] = id /\ G[5] = FaceAndHat(in, 0) /\ G[6] = Remaining(in)
    BY <1>1, <1>4
  <1>6. \A k \in DOMAIN GamePadCopies : G[GamePadCopies[k][1]] = in[GamePadCopies[k][2]]
    <2>1. \A i \in Places \ {0, 5, 6} : G[i] = C[i]
      BY <1>1
    <2>2. \A k \in DOMAIN GamePadCopies : GamePadCopies[k][1] \in Places \ {0, 5, 6}
      BY GamePadTable DEF Places, DS3_HID_INPUT_REPORT_SIZE
    <2> HIDE DEF G
    <2> QED BY <1>1, <2>1, <2>2
  <1> HIDE DEF G
  <1> QED BY <1>3, <1>5, <1>6

\* A joystick report, likewise.
LEMMA JoystickFacts ==
    ASSUME NEW in, NEW out
    PROVE  LET new == DS3_RAW_TO_SPLIT_HID_INPUT_REPORT_02(in, out) IN
           /\ DOMAIN new = Places
           /\ new[0] = 2
           /\ \A k \in DOMAIN JoystickCopies :
                 new[JoystickCopies[k][1]] = in[JoystickCopies[k][2]]
  <1> DEFINE C == Copied(JoystickCopies, in, out)
             G == [C EXCEPT ![0] = 2]
  <1>1. /\ DOMAIN C = Places
        /\ \A k \in DOMAIN JoystickCopies : C[JoystickCopies[k][1]] = in[JoystickCopies[k][2]]
    <2>1. \A k \in DOMAIN JoystickCopies : JoystickCopies[k][1] \in Places
      BY JoystickTable DEF Places, DS3_HID_INPUT_REPORT_SIZE
    <2> HIDE DEF C
    <2> QED BY <2>1, JoystickTable, CopiedFacts DEF C
  <1>2. DS3_RAW_TO_SPLIT_HID_INPUT_REPORT_02(in, out) = G
    BY DEF DS3_RAW_TO_SPLIT_HID_INPUT_REPORT_02
  <1>3. 0 \in Places
    BY DEF Places, DS3_HID_INPUT_REPORT_SIZE
  <1> HIDE DEF C
  <1>4. DOMAIN G = Places /\ G[0] = 2 /\ \A i \in Places \ {0} : G[i] = C[i]
    BY <1>1, <1>3
  <1>5. \A k \in DOMAIN JoystickCopies : JoystickCopies[k][1] \in Places \ {0}
    BY JoystickTable DEF Places, DS3_HID_INPUT_REPORT_SIZE
  <1> HIDE DEF G
  <1> QED BY <1>1, <1>2, <1>4, <1>5

LEMMA InitInv == Init => ReportInv
  BY ReportsAssumption, BuffersAssumption DEF Init, ReportInv

LEMMA StepInv == ReportInv /\ [Next]_vars => ReportInv'
  <1> SUFFICES ASSUME ReportInv, [Next]_vars PROVE ReportInv'
    OBVIOUS
  <1>1. ASSUME NEW raw \in Reports, First(raw) PROVE ReportInv'
    <2>1. raw \in [0..25 -> Bytes] /\ raw[0] = 1
      BY ReportsAssumption
    <2>2. buffer' = GamePad(1, raw, buffer)
      BY <1>1, <2>1 DEF First, DS3_RAW_TO_SPLIT_HID_INPUT_REPORT_01,
                        DS3_RAW_TO_SINGLE_HID_INPUT_REPORT
    <2>3. DOMAIN buffer' = Places /\ reportId' = 1
      BY <1>1, <2>2, GamePadFacts DEF First
    <2>4. UNCHANGED <<HidDeviceMode, MuteDigitalPressureButtons>> /\ input' = raw
      BY <1>1 DEF First
    <2>5. FaceAndHat(raw, 0)' = FaceAndHat(raw, 0) /\ Remaining(raw)' = Remaining(raw)
      BY <2>4 DEF FaceAndHat, Remaining
    <2>6. GamePadShown'
      BY <2>2, <2>4, <2>5, GamePadFacts DEF GamePadShown, FaceAndHat, Remaining
    <2> QED BY <2>1, <2>3, <2>4, <2>6 DEF ReportInv
  <1>2. CASE Second
    <2>1. DOMAIN buffer' = Places /\ reportId' = 2
      BY <1>2, JoystickFacts DEF Second
    <2>2. JoystickShown'
      BY <1>2, JoystickFacts DEF Second, JoystickShown
    <2> QED BY <1>2, <2>1, <2>2 DEF ReportInv, Second
  <1>3. CASE UNCHANGED vars
    BY <1>3 DEF vars, ReportInv, GamePadShown, JoystickShown, FaceAndHat, Remaining
  <1> QED BY <1>1, <1>2, <1>3 DEF Next

\* Whatever report came in and whatever the buffer held, each byte that the
\* conversion is responsible for holds what the last report says, never a byte
\* of an earlier one (DsHid.h:45-257).
THEOREM ConversionCorrect == Spec => []ReportInv
  BY InitInv, StepInv, PTL DEF Spec

-----------------------------------------------------------------------------
(* Where the fields of a descriptor begin.                                 *)

\* A non-empty set of numbers has a least one.
LEMMA LeastExists ==
    ASSUME NEW S \in SUBSET Nat, S # {}
    PROVE  \E x \in S : \A y \in S : x <= y
  <1> DEFINE R == OpToRel(<, Nat)
  <1>1. IsWellFoundedOn(R, Nat)
    BY NatLessThanWellFounded
  <1>2. PICK x \in S : \A y \in S : ~ (<<y, x>> \in R)
    <2> HIDE DEF R
    <2> QED BY <1>1, WFMin
  <1>3. ASSUME NEW y \in S PROVE x <= y
    <2>1. R = {ss \in Nat \X Nat : ss[1] < ss[2]}
      BY DEF OpToRel
    <2>2. ~(y < x)
      BY <1>2, <2>1
    <2> QED BY <2>2
  <1> QED BY <1>3

\* A table that gives the first field the bit 8 and every other one the bit
\* where its predecessor ends is the table of the places: an induction over
\* the fields of any descriptor.
LEMMA StartsUnique ==
    ASSUME NEW fields, NEW n \in Nat, DOMAIN fields = 1..n,
           NEW table,
           \A i \in 1..n : table[i] = IF i = 1 THEN 8
                                      ELSE table[i - 1] + fields[i - 1].size
    PROVE  \A i \in 1..n : BitsBefore(fields)[i] = table[i]
  <1> DEFINE Is(g) == g = [i \in DOMAIN fields |->
                              IF i = 1 THEN 8 ELSE g[i - 1] + fields[i - 1].size]
             start == CHOOSE g : Is(g)
  <1>1. BitsBefore(fields) = start
    BY DEF BitsBefore
  <1>2. Is([i \in 1..n |-> table[i]])
    <2> DEFINE g == [i \in 1..n |-> table[i]]
    <2>1. ASSUME NEW i \in 1..n, i # 1 PROVE i - 1 \in 1..n
      BY <2>1
    <2>2. \A i \in 1..n : g[i] = IF i = 1 THEN 8 ELSE g[i - 1] + fields[i - 1].size
      BY <2>1
    <2> QED BY <2>2
  <1>3. Is(start)
    <2> HIDE DEF Is
    <2> QED BY <1>2
  <1> HIDE DEF start
  <1>4. \A i \in 1..n : start[i] = IF i = 1 THEN 8 ELSE start[i - 1] + fields[i - 1].size
    BY <1>3
  <1> HIDE DEF Is
  <1>5. \A i \in 1..n : start[i] = table[i]
    <2> DEFINE Wrong == {i \in 1..n : start[i] # table[i]}
    <2>1. ASSUME Wrong # {} PROVE FALSE
      <3>1. PICK i \in Wrong : \A j \in Wrong : i <= j
        <4>1. Wrong \in SUBSET Nat
          OBVIOUS
        <4> HIDE DEF Wrong
        <4> QED BY <2>1, <4>1, LeastExists
      <3>2. i # 1
        BY <1>4
      <3>3. i - 1 \in 1..n /\ i - 1 \notin Wrong
        BY <3>1, <3>2
      <3>4. start[i - 1] = table[i - 1]
        BY <3>3
      <3> QED BY <1>4, <3>1, <3>2, <3>4
    <2> QED BY <2>1
  <1> QED BY <1>1, <1>5

Usages == {"X", "Y", "Z", "Rx", "Ry", "Rz", "Slider", "Dial", "Throttle", "Brake",
           "hat", "button", "padding", "vendor"}
FieldSet == [usage : Usages, size : Nat]
Descriptor == Seq(FieldSet)

\* The size of a game pad's field i, and where the field begins.
PadSize(i) == IF i = 5 THEN 4 ELSE IF i \in 6..19 THEN 1 ELSE IF i = 20 THEN 6 ELSE 8
PadStart(i) == IF i <= 5 THEN 8 * i ELSE IF i <= 20 THEN 38 + i ELSE 8 * (i - 13)

LEMMA FieldFacts ==
    ASSUME NEW u \in Usages, NEW n \in Nat
    PROVE  Field(u, n) \in FieldSet /\ Field(u, n).size = n /\ Field(u, n).usage = u
  BY DEF Field, FieldSet

LEMMA AxisFacts ==
    ASSUME NEW u \in Usages
    PROVE  Axis(u) \in FieldSet /\ Axis(u).size = 8 /\ Axis(u).usage = u
  BY FieldFacts DEF Axis

\* A field that occurs n times.
LEMMA RepeatFacts ==
    ASSUME NEW f \in FieldSet, NEW n \in Nat
    PROVE  /\ [i \in 1..n |-> f] \in Descriptor
           /\ Len([i \in 1..n |-> f]) = n
           /\ \A i \in 1..n : [j \in 1..n |-> f][i] = f
  BY DEF Descriptor

\* Descriptor c is d, of m fields, with e, of n fields, after it.
Joined(c, d, m, e, n) ==
    /\ c \in Descriptor /\ Len(c) = m + n
    /\ \A i \in 1..m : c[i] = d[i]
    /\ \A i \in 1..n : c[m + i] = e[i]

LEMMA JoinFacts ==
    ASSUME NEW d \in Descriptor, NEW e \in Descriptor,
           NEW m \in Nat, NEW n \in Nat, Len(d) = m, Len(e) = n
    PROVE  Joined(d \o e, d, m, e, n)
  <1>1. /\ d \o e \in Descriptor
        /\ Len(d \o e) = Len(d) + Len(e)
        /\ \A i \in 1..Len(d) : (d \o e)[i] = d[i]
        /\ \A i \in 1..Len(e) : (d \o e)[Len(d) + i] = e[i]
    BY ONLY d \in Descriptor, e \in Descriptor, ConcatProperties DEF Descriptor
  <1> QED BY <1>1 DEF Joined

LEMMA GamePadFieldFacts ==
    /\ GamePadFields \in Descriptor /\ Len(GamePadFields) = 22
    /\ \A i \in 1..22 : GamePadFields[i].size = PadSize(i)
    /\ \A i \in 1..22 :
          GamePadFields[i].usage \notin {"hat", "padding", "vendor"} <=> i \notin {5, 20}
  <1> DEFINE A == <<Axis("X"), Axis("Y"), Axis("Z"), Axis("Rz"), Field("hat", 4)>>
             M == [i \in 1..14 |-> Field("button", 1)]
             Z == <<Field("padding", 6), Axis("Rx"), Axis("Ry")>>
  <1>1. A \in Descriptor /\ Len(A) = 5
    <2>1. /\ Axis("X") \in FieldSet /\ Axis("Y") \in FieldSet /\ Axis("Z") \in FieldSet
          /\ Axis("Rz") \in FieldSet /\ Field("hat", 4) \in FieldSet
      BY DEF Axis, Field, FieldSet, Usages
    <2> QED BY <2>1 DEF Descriptor
  <1>2. Z \in Descriptor /\ Len(Z) = 3
    <2>1. Field("padding", 6) \in FieldSet /\ Axis("Rx") \in FieldSet /\ Axis("Ry") \in FieldSet
      BY DEF Axis, Field, FieldSet, Usages
    <2> QED BY <2>1 DEF Descriptor
  <1>3. M \in Descriptor /\ Len(M) = 14 /\ \A i \in 1..14 : M[i] = Field("button", 1)
    <2>1. Field("button", 1) \in FieldSet /\ 14 \in Nat
      BY DEF Field, FieldSet, Usages
    <2> QED BY <2>1, RepeatFacts
  <1>4. /\ \A i \in 1..5 : A[i].size = PadSize(i)
        /\ \A i \in 1..5 : A[i].usage \notin {"hat", "padding", "vendor"} <=> i # 5
    BY DEF Axis, Field, PadSize
  <1>5. /\ \A i \in 1..14 : M[i].size = 1
        /\ \A i \in 1..14 : M[i].usage \notin {"hat", "padding", "vendor"}
    BY DEF Field
  <1>6. /\ \A i \in 1..3 : Z[i].size = PadSize(19 + i)
        /\ \A i \in 1..3 : Z[i].usage \notin {"hat", "padding", "vendor"} <=> i # 1
    BY DEF Axis, Field, PadSize
  <1>7. GamePadFields = A \o M \o Z
    BY DEF GamePadFields
  <1> HIDE DEF A, M, Z
  <1>8. Joined(A \o M, A, 5, M, 14)
    BY <1>1, <1>3, JoinFacts
  <1>9. A \o M \in Descriptor /\ Len(A \o M) = 19
    BY <1>8 DEF Joined
  <1>10. Joined(GamePadFields, A \o M, 19, Z, 3)
    BY <1>2, <1>7, <1>9, JoinFacts
  <1>11. ASSUME NEW i \in 1..22
         PROVE  /\ GamePadFields[i].size = PadSize(i)
                /\ GamePadFields[i].usage \notin {"hat", "padding", "vendor"} <=> i \notin {5, 20}
    <2>1. CASE i \in 1..5
      <3>1. GamePadFields[i] = A[i]
        <4>1. i \in 1..19
          BY <2>1
        <4> QED BY <4>1, <2>1, <1>8, <1>10, Zenon DEF Joined
      <3> QED BY <2>1, <3>1, <1>4
    <2>2. CASE i \in 6..19
      <3>1. i - 5 \in 1..14 /\ i = 5 + (i - 5)
        BY <2>2
      <3>2. GamePadFields[i] = M[i - 5]
        <4>1. (A \o M)[5 + (i - 5)] = M[i - 5]
          BY <3>1, <1>8, Zenon DEF Joined
        <4>2. GamePadFields[i] = (A \o M)[i]
          <5>1. i \in 1..19
            BY <2>2
          <5> QED BY <5>1, <1>10, Zenon DEF Joined
        <4> QED BY <4>1, <4>2, <3>1, Zenon
      <3>3. GamePadFields[i].size = 1
        BY <3>1, <3>2, <1>5
      <3> QED BY <3>1, <3>2, <3>3, <2>2, <1>5 DEF PadSize
    <2>3. CASE i \in 20..22
      <3>1. i - 19 \in 1..3 /\ i = 19 + (i - 19)
        BY <2>3
      <3>2. GamePadFields[i] = Z[i - 19]
        BY <3>1, <1>10 DEF Joined
      <3> QED BY <3>1, <3>2, <1>6
    <2> QED BY <2>1, <2>2, <2>3
  <1>12. GamePadFields \in Descriptor /\ Len(GamePadFields) = 22
    BY <1>10 DEF Joined
  <1> QED BY <1>11, <1>12

LEMMA VendorFacts ==
    /\ Vendor \in Descriptor /\ Len(Vendor) = 29
    /\ \A i \in 1..29 : Vendor[i].size = 8 /\ Vendor[i].usage = "vendor"
  <1>1. Axis("vendor") \in FieldSet /\ Axis("vendor").size = 8
        /\ Axis("vendor").usage = "vendor" /\ 29 \in Nat
    BY DEF Axis, Field, FieldSet, Usages
  <1> QED BY <1>1, RepeatFacts DEF Vendor

LEMMA SliderFacts ==
    LET sliders == [i \in 1..10 |-> Axis("Slider")] IN
    /\ sliders \in Descriptor /\ Len(sliders) = 10
    /\ \A i \in 1..10 : sliders[i].size = 8 /\ sliders[i].usage = "Slider"
  <1>1. Axis("Slider") \in FieldSet /\ Axis("Slider").size = 8
        /\ Axis("Slider").usage = "Slider" /\ 10 \in Nat
    BY DEF Axis, Field, FieldSet, Usages
  <1> QED BY <1>1, RepeatFacts

\* The descriptor of a game pad with n fields, m of them not the vendor's.
PadLike(fields, m, n) ==
    /\ fields \in Descriptor /\ Len(fields) = n
    /\ \A i \in 1..n : fields[i].size = PadSize(i)
    /\ \A i \in 1..n : fields[i].usage \notin {"hat", "padding", "vendor"}
                        <=> i \notin {5, 20} /\ i <= m

\* More fields of a byte each, the vendor's or not.
LEMMA Longer ==
    ASSUME NEW fields, NEW m \in Nat, NEW n \in Nat, PadLike(fields, m, n), m <= n, 22 <= m,
           NEW more \in Descriptor, NEW k \in Nat, Len(more) = k,
           \A i \in 1..k : more[i].size = 8,
           NEW new \in Nat,
           \/ /\ new = m /\ \A i \in 1..k : more[i].usage = "vendor"
           \/ /\ m = n /\ new = n + k
              /\ \A i \in 1..k : more[i].usage \notin {"hat", "padding", "vendor"}
    PROVE  PadLike(fields \o more, new, n + k)
  <1> DEFINE F == fields \o more
  <1>1. Joined(F, fields, n, more, k)
    BY JoinFacts DEF PadLike
  <1> HIDE DEF F
  <1>2. ASSUME NEW i \in 1..(n + k)
        PROVE  /\ F[i].size = PadSize(i)
               /\ F[i].usage \notin {"hat", "padding", "vendor"} <=> i \notin {5, 20} /\ i <= new
    <2>1. CASE i <= n
      <3>1. i \in 1..n
        BY <2>1
      <3>2. F[i] = fields[i]
        BY <3>1, <1>1 DEF Joined
      <3>3. i <= new <=> i <= m
        BY <2>1
      <3> QED BY <3>1, <3>2, <3>3 DEF PadLike
    <2>2. CASE ~(i <= n)
      <3>1. i - n \in 1..k /\ i = n + (i - n)
        BY <2>2
      <3>2. F[i] = more[i - n]
        BY <3>1, <1>1, Zenon DEF Joined
      <3>3. i > 22 /\ PadSize(i) = 8
        BY <2>2 DEF PadSize
      <3>4. F[i].size = PadSize(i)
        BY <3>1, <3>2, <3>3
      <3>5. CASE new = m /\ \A j \in 1..k : more[j].usage = "vendor"
        <4>1. ~(i <= new)
          BY <3>5, <2>2
        <4> QED BY <4>1, <3>1, <3>2, <3>4, <3>5
      <3>6. CASE /\ m = n /\ new = n + k
                 /\ \A j \in 1..k : more[j].usage \notin {"hat", "padding", "vendor"}
        <4>1. i <= new /\ i \notin {5, 20}
          BY <3>6, <3>3
        <4> QED BY <4>1, <3>1, <3>2, <3>4, <3>6
      <3> QED BY <3>5, <3>6
    <2> QED BY <2>1, <2>2
  <1> QED BY <1>1, <1>2 DEF PadLike, Joined, F

LEMMA GamePadLike ==
    /\ PadLike(GamePadFields, 22, 22)
    /\ PadLike(SplitFields01, 22, 51)
    /\ PadLike(SingleFields, 32, 61)
  <1>1. PadLike(GamePadFields, 22, 22)
    <2>1. \A i \in 1..22 : i <= 22
      OBVIOUS
    <2> QED BY <2>1, GamePadFieldFacts DEF PadLike
  <1>2. PadLike(SplitFields01, 22, 22 + 29)
    <2>1. 22 \in Nat /\ 29 \in Nat /\ 22 <= 22
      OBVIOUS
    <2>2. \A i \in 1..29 : Vendor[i].size = 8
      BY VendorFacts
    <2>3. \A i \in 1..29 : Vendor[i].usage = "vendor"
      BY VendorFacts
    <2>4. Vendor \in Descriptor /\ Len(Vendor) = 29
      BY VendorFacts
    <2> QED BY <1>1, <2>1, <2>2, <2>3, <2>4, Longer, Zenon DEF SplitFields01
  <1> DEFINE L == [i \in 1..10 |-> Axis("Slider")]
  <1>3. PadLike(GamePadFields \o L, 22 + 10, 22 + 10)
    <2>1. /\ L \in Descriptor /\ Len(L) = 10
          /\ \A i \in 1..10 : L[i].size = 8
          /\ \A i \in 1..10 : L[i].usage \notin {"hat", "padding", "vendor"}
      BY SliderFacts
    <2>2. 22 \in Nat /\ 10 \in Nat /\ 22 + 10 \in Nat /\ 22 <= 22
      OBVIOUS
    <2> HIDE DEF L
    <2> QED BY <1>1, <2>1, <2>2, Longer, Zenon
  <1>4. PadLike(SingleFields, 32, 32 + 29)
    <2>1. SingleFields = GamePadFields \o L \o Vendor
      BY DEF SingleFields
    <2>2. 22 + 10 = 32 /\ 32 \in Nat /\ 29 \in Nat /\ 32 <= 32 /\ 22 <= 32
      OBVIOUS
    <2>3. PadLike(GamePadFields \o L, 32, 32)
      BY <1>3, <2>2
    <2>4. \A i \in 1..29 : Vendor[i].size = 8
      BY VendorFacts
    <2>5. \A i \in 1..29 : Vendor[i].usage = "vendor"
      BY VendorFacts
    <2>6. Vendor \in Descriptor /\ Len(Vendor) = 29
      BY VendorFacts
    <2> HIDE DEF L
    <2> QED BY <2>1, <2>2, <2>3, <2>4, <2>5, <2>6, Longer, Zenon
  <1> QED BY <1>1, <1>2, <1>4

LEMMA PadStarts ==
    ASSUME NEW fields, NEW m \in Nat, NEW n \in Nat, PadLike(fields, m, n)
    PROVE  DOMAIN fields = 1..n /\ \A i \in 1..n : BitsBefore(fields)[i] = PadStart(i)
  <1>1. DOMAIN fields = 1..n
    BY DEF PadLike, Descriptor
  <1> DEFINE table == [i \in 1..n |-> PadStart(i)]
  <1>2. ASSUME NEW i \in 1..n
        PROVE  table[i] = IF i = 1 THEN 8 ELSE table[i - 1] + fields[i - 1].size
    <2>1. CASE i = 1
      BY <2>1 DEF PadStart
    <2>2. CASE i # 1
      <3>1. i - 1 \in 1..n
        BY <2>2
      <3>2. fields[i - 1].size = PadSize(i - 1)
        BY <3>1 DEF PadLike
      <3>3. PadStart(i) = PadStart(i - 1) + PadSize(i - 1)
        BY <2>2 DEF PadStart, PadSize
      <3> QED BY <2>2, <3>1, <3>2, <3>3
    <2> QED BY <2>1, <2>2
  <1> HIDE DEF table
  <1>3. \A i \in 1..n : BitsBefore(fields)[i] = table[i]
    BY <1>1, <1>2, StartsUnique
  <1> QED BY <1>1, <1>3 DEF table

\* Fields of a byte each.
LEMMA ByteStarts ==
    ASSUME NEW fields, NEW n \in Nat, DOMAIN fields = 1..n,
           \A i \in 1..n : fields[i].size = 8
    PROVE  \A i \in 1..n : BitsBefore(fields)[i] = 8 * i
  <1> DEFINE table == [i \in 1..n |-> 8 * i]
  <1>1. ASSUME NEW i \in 1..n
        PROVE  table[i] = IF i = 1 THEN 8 ELSE table[i - 1] + fields[i - 1].size
    OBVIOUS
  <1> HIDE DEF table
  <1>2. \A i \in 1..n : BitsBefore(fields)[i] = table[i]
    BY <1>1, StartsUnique
  <1> QED BY <1>2 DEF table

LEMMA JoystickStarts ==
    /\ DOMAIN SplitFields02 = 1..10
    /\ \A i \in 1..10 : /\ SplitFields02[i].size = 8
                        /\ SplitFields02[i].usage \notin {"hat", "padding", "vendor"}
                        /\ BitsBefore(SplitFields02)[i] = 8 * i
  <1>1. /\ DOMAIN SplitFields02 = 1..10
        /\ \A i \in 1..10 : /\ SplitFields02[i].size = 8
                            /\ SplitFields02[i].usage \notin {"hat", "padding", "vendor"}
    BY DEF SplitFields02, Axis, Field
  <1>2. 10 \in Nat
    OBVIOUS
  <1>3. \A i \in 1..10 : BitsBefore(SplitFields02)[i] = 8 * i
    BY <1>1, <1>2, ByteStarts, Zenon
  <1> QED BY <1>1, <1>3

\* Which descriptor a reader uses, and what it finds where.
LEMMA ShownFacts ==
    ASSUME NEW mode \in Modes
    PROVE  /\ Shown(mode, 1) = (1..(IF mode = "SINGLE" THEN 32 ELSE 22)) \ {5, 20}
           /\ \A i \in 1..32 : i \in Shown(mode, 1) \cup {5} =>
                 /\ Starts[mode][1][i] = PadStart(i)
                 /\ Fields(mode, 1)[i].size = PadSize(i)
  <1> DEFINE F == Fields(mode, 1)
             m == IF mode = "SINGLE" THEN 32 ELSE 22
             n == IF mode = "SINGLE" THEN 61 ELSE 51
  <1>1. m \in Nat /\ n \in Nat /\ m <= n /\ 22 <= m /\ m <= 32
    OBVIOUS
  <1>2. PadLike(F, m, n)
    BY GamePadLike DEF Fields, Modes
  <1>3. Starts[mode][1] = BitsBefore(F)
    BY DEF Starts
  <1>4. Shown(mode, 1) =
            {i \in DOMAIN F : F[i].usage \notin {"hat", "padding", "vendor"}}
    BY DEF Shown
  <1> HIDE DEF F, m, n
  <1>5. DOMAIN F = 1..n /\ \A i \in 1..n : BitsBefore(F)[i] = PadStart(i)
    BY <1>1, <1>2, PadStarts
  <1>6. Shown(mode, 1) = (1..m) \ {5, 20}
    BY <1>1, <1>2, <1>4, <1>5 DEF PadLike
  <1>7. ASSUME NEW i \in 1..32, i \in Shown(mode, 1) \cup {5}
        PROVE  Starts[mode][1][i] = PadStart(i) /\ F[i].size = PadSize(i)
    <2>1. i \in 1..n
      BY <1>1, <1>6, <1>7
    <2> QED BY <2>1, <1>2, <1>3, <1>5 DEF PadLike
  <1> QED BY <1>6, <1>7 DEF F, m

LEMMA JoystickShownFacts ==
    /\ Shown("MULTI", 2) = 1..10
    /\ \A i \in 1..10 : /\ Starts["MULTI"][2][i] = 8 * i
                        /\ Fields("MULTI", 2)[i].size = 8
  <1>1. Fields("MULTI", 2) = SplitFields02
    BY DEF Fields
  <1>2. Starts["MULTI"][2] = BitsBefore(SplitFields02)
    BY <1>1 DEF Starts, Modes
  <1> QED BY <1>1, <1>2, JoystickStarts DEF Shown

-----------------------------------------------------------------------------
(* The hat switch.                                                         *)

\* The directions in the d-pad's half of a button byte.
DirectionsIn(h) == {d \in 1..4 : (h \div 2^(d - 1)) % 2 = 1}

LEMMA DirectionFacts ==
    ASSUME NEW h \in 0..15
    PROVE  /\ 1 \in DirectionsIn(h) <=> h % 2 = 1
           /\ 2 \in DirectionsIn(h) <=> (h \div 2) % 2 = 1
           /\ 3 \in DirectionsIn(h) <=> (h \div 4) % 2 = 1
           /\ 4 \in DirectionsIn(h) <=> (h \div 8) % 2 = 1
           /\ DirectionsIn(h) \subseteq {1, 2, 3, 4}
  <1>1. 2^(1 - 1) = 1 /\ 2^(2 - 1) = 2 /\ 2^(3 - 1) = 4 /\ 2^(4 - 1) = 8
    OBVIOUS
  <1>2. h \div 1 = h
    OBVIOUS
  <1> QED BY <1>1, <1>2 DEF DirectionsIn

\* A button byte is its d-pad half beside the other one.
LEMMA HalfFacts ==
    ASSUME NEW b \in Bytes
    PROVE  \E h \in 0..15 :
              /\ High(b) = 16 * h
              /\ {d \in 1..4 : Bits(b, 3 + d, 1) = 1} = DirectionsIn(h)
  <1> DEFINE h == b \div 16
  <1>1. h \in 0..15 /\ High(b) = 16 * h
    BY DEF Bytes, High
  <1>2. /\ Bits(b, 4, 1) = h % 2
        /\ Bits(b, 5, 1) = (h \div 2) % 2
        /\ Bits(b, 6, 1) = (h \div 4) % 2
        /\ Bits(b, 7, 1) = (h \div 8) % 2
    BY DEF Bytes, Bits
  <1> HIDE DEF h
  <1>3. ASSUME NEW d \in 1..4 PROVE Bits(b, 3 + d, 1) = 1 <=> d \in DirectionsIn(h)
    <2>1. CASE d = 1 BY <2>1, <1>1, <1>2, DirectionFacts
    <2>2. CASE d = 2 BY <2>2, <1>1, <1>2, DirectionFacts
    <2>3. CASE d = 3 BY <2>3, <1>1, <1>2, DirectionFacts
    <2>4. CASE d = 4 BY <2>4, <1>1, <1>2, DirectionFacts
    <2> QED BY <2>1, <2>2, <2>3, <2>4
  <1>4. DirectionsIn(h) \subseteq 1..4
    BY DEF DirectionsIn
  <1>5. {d \in 1..4 : Bits(b, 3 + d, 1) = 1} = DirectionsIn(h)
    BY <1>3, <1>4
  <1> QED BY <1>1, <1>5

\* Of the sixteen positions eight have a direction; the others have none or
\* two opposite ones.
LEMMA HatFacts ==
    ASSUME NEW h \in 0..15
    PROVE  /\ Hat(16 * h) \in 0..8
           /\ Hat(16 * h) \in 0..7 => Compass[Hat(16 * h) + 1] = DirectionsIn(h)
           /\ Hat(16 * h) \notin 0..7 => \/ DirectionsIn(h) = {}
                                         \/ {1, 3} \subseteq DirectionsIn(h)
                                         \/ {2, 4} \subseteq DirectionsIn(h)
  <1>1. CASE h = 0
    <2>1. Hat(16 * h) = 8 BY <1>1 DEF Hat
    <2>2. DirectionsIn(h) = {} BY <1>1, DirectionFacts
    <2> QED BY <2>1, <2>2
  <1>2. CASE h = 1
    <2>1. Hat(16 * h) = 0 BY <1>2 DEF Hat
    <2>2. DirectionsIn(h) = {1} BY <1>2, DirectionFacts
    <2> QED BY <2>1, <2>2 DEF Compass
  <1>3. CASE h = 2
    <2>1. Hat(16 * h) = 2 BY <1>3 DEF Hat
    <2>2. DirectionsIn(h) = {2} BY <1>3, DirectionFacts
    <2> QED BY <2>1, <2>2 DEF Compass
  <1>4. CASE h = 3
    <2>1. Hat(16 * h) = 1 BY <1>4 DEF Hat
    <2>2. DirectionsIn(h) = {1, 2} BY <1>4, DirectionFacts
    <2> QED BY <2>1, <2>2 DEF Compass
  <1>5. CASE h = 4
    <2>1. Hat(16 * h) = 4 BY <1>5 DEF Hat
    <2>2. DirectionsIn(h) = {3} BY <1>5, DirectionFacts
    <2> QED BY <2>1, <2>2 DEF Compass
  <1>6. CASE h = 6
    <2>1. Hat(16 * h) = 3 BY <1>6 DEF Hat
    <2>2. DirectionsIn(h) = {2, 3} BY <1>6, DirectionFacts
    <2> QED BY <2>1, <2>2 DEF Compass
  <1>7. CASE h = 8
    <2>1. Hat(16 * h) = 6 BY <1>7 DEF Hat
    <2>2. DirectionsIn(h) = {4} BY <1>7, DirectionFacts
    <2> QED BY <2>1, <2>2 DEF Compass
  <1>8. CASE h = 9
    <2>1. Hat(16 * h) = 7 BY <1>8 DEF Hat
    <2>2. DirectionsIn(h) = {4, 1} BY <1>8, DirectionFacts
    <2> QED BY <2>1, <2>2 DEF Compass
  <1>9. CASE h = 12
    <2>1. Hat(16 * h) = 5 BY <1>9 DEF Hat
    <2>2. DirectionsIn(h) = {3, 4} BY <1>9, DirectionFacts
    <2> QED BY <2>1, <2>2 DEF Compass
  <1>10. CASE h \in {5, 7, 13, 15}
    <2>1. Hat(16 * h) = 8 BY <1>10 DEF Hat
    <2>2. {1, 3} \subseteq DirectionsIn(h) BY <1>10, DirectionFacts
    <2> QED BY <2>1, <2>2
  <1>11. CASE h \in {10, 11, 14}
    <2>1. Hat(16 * h) = 8 BY <1>11 DEF Hat
    <2>2. {2, 4} \subseteq DirectionsIn(h) BY <1>11, DirectionFacts
    <2> QED BY <2>1, <2>2
  <1> QED BY <1>1, <1>2, <1>3, <1>4, <1>5, <1>6, <1>7, <1>8, <1>9, <1>10, <1>11

\* A whole byte, and its lower half.
LEMMA ByteFacts ==
    ASSUME NEW b \in Bytes
    PROVE  Bits(b, 0, 8) = b /\ Bits(b, 0, 4) = b % 16
  BY DEF Bytes, Bits

\* The hat's half of the byte it shares with the face buttons.
LEMMA HatInByte ==
    ASSUME NEW b \in Bytes, NEW hat \in 0..8
    PROVE  High(b) + hat \in Bytes /\ (High(b) + hat) % 16 = hat
  BY DEF Bytes, High

\* Whatever is pressed, the hat switch of both game pad descriptors shows it
\* or has its null value (DsHid.h:63-103 and 183-223, DsHid.c:36-81).
THEOREM HatCorrect == Spec => []HatShowsDPad
  <1>1. ReportInv => HatShowsDPad
    <2> SUFFICES ASSUME ReportInv, reportId = 1 PROVE HatShowsDPad
      BY DEF HatShowsDPad
    <2> DEFINE hat == Value(HidDeviceMode, 1, 5)
    <2>1. /\ HidDeviceMode \in Modes
          /\ buffer[5] = FaceAndHat(input, 0)
          /\ input[2] \in Bytes /\ input[3] \in Bytes
          /\ MuteDigitalPressureButtons \in BOOLEAN
      BY DEF ReportInv, GamePadShown
    <2>2. hat = Bits(buffer[5], 0, 4)
      <3>1. /\ Starts[HidDeviceMode][1][5] = PadStart(5)
            /\ Fields(HidDeviceMode, 1)[5].size = PadSize(5)
        BY <2>1, ShownFacts
      <3>2. PadStart(5) = 40 /\ PadSize(5) = 4 /\ 40 \div 8 = 5 /\ 40 % 8 = 0
        BY DEF PadStart, PadSize
      <3> QED BY <3>1, <3>2 DEF Value
    <2>3. CASE MuteDigitalPressureButtons
      <3>1. buffer[5] = 8
        BY <2>1, <2>3 DEF FaceAndHat
      <3>2. hat = 8
        BY <2>2, <3>1, ByteFacts DEF Bytes
      <3> HIDE DEF hat
      <3> QED BY <2>3, <3>2 DEF HatShowsDPad, hat
    <2>4. CASE ~MuteDigitalPressureButtons
      <3>1. PICK h \in 0..15 : High(input[2]) = 16 * h /\ Pressed = DirectionsIn(h)
        BY <2>1, HalfFacts DEF Pressed
      <3>2. buffer[5] = High(input[3]) + Hat(16 * h)
        BY <2>1, <2>4, <3>1 DEF FaceAndHat
      <3>3. hat = Hat(16 * h)
        BY <2>1, <2>2, <3>2, HatFacts, HatInByte, ByteFacts
      <3> HIDE DEF hat
      <3> QED BY <2>4, <3>1, <3>3, HatFacts DEF HatShowsDPad, hat, Contradictory
    <2> QED BY <2>1, <2>3, <2>4
  <1> QED BY <1>1, ConversionCorrect, PTL

-----------------------------------------------------------------------------
(* The other fields.                                                       *)

\* The bytes of the game pad's axes and pressure values, the PS button's byte.
LEMMA GamePadBytes ==
    ASSUME GamePadShown
    PROVE  /\ \A i \in 1..4 : buffer[i] = input[5 + i]
           /\ buffer[7] = input[4]
           /\ \A i \in 21..22 : buffer[i - 13] = input[i - 3]
           /\ \A i \in 23..26 : buffer[i - 13] = input[i - 9]
           /\ \A i \in 27..32 : buffer[i - 13] = input[i - 7]
  <1>1. \A k \in 1..17 : buffer[GamePadCopies[k][1]] = input[GamePadCopies[k][2]]
    BY GamePadTable DEF GamePadShown
  <1>2. /\ \A i \in 1..4 : GamePadCopies[i] = <<i, 5 + i>>
        /\ GamePadCopies[5] = <<7, 4>>
        /\ \A i \in 21..22 : GamePadCopies[i - 15] = <<i - 13, i - 3>>
        /\ \A i \in 23..26 : GamePadCopies[i - 15] = <<i - 13, i - 9>>
        /\ \A i \in 27..32 : GamePadCopies[i - 15] = <<i - 13, i - 7>>
    BY DEF GamePadCopies
  <1>3. ASSUME NEW i \in 1..4 PROVE buffer[i] = input[5 + i]
    BY <1>1, <1>2
  <1>4. buffer[7] = input[4]
    BY <1>1, <1>2
  <1>5. ASSUME NEW i \in 21..22 PROVE buffer[i - 13] = input[i - 3]
    <2>1. i - 15 \in 1..17
      OBVIOUS
    <2> QED BY <2>1, <1>1, <1>2
  <1>6. ASSUME NEW i \in 23..26 PROVE buffer[i - 13] = input[i - 9]
    <2>1. i - 15 \in 1..17
      OBVIOUS
    <2> QED BY <2>1, <1>1, <1>2
  <1>7. ASSUME NEW i \in 27..32 PROVE buffer[i - 13] = input[i - 7]
    <2>1. i - 15 \in 1..17
      OBVIOUS
    <2> QED BY <2>1, <1>1, <1>2
  <1> QED BY <1>3, <1>4, <1>5, <1>6, <1>7

LEMMA JoystickBytes ==
    ASSUME JoystickShown
    PROVE  \A i \in 1..10 : buffer[i] = input[SourceOf("MULTI", 2, i)[1]]
  <1>1. \A k \in 1..10 : buffer[JoystickCopies[k][1]] = input[JoystickCopies[k][2]]
    BY JoystickTable DEF JoystickShown
  <1>2. \A i \in 1..10 : JoystickCopies[i] = <<i, SourceOf("MULTI", 2, i)[1]>>
    BY DEF JoystickCopies, SourceOf
  <1> QED BY <1>1, <1>2

\* The buttons' bits.
LEMMA FaceBits ==
    ASSUME NEW b \in Bytes, NEW hat \in 0..8, NEW j \in 4..7
    PROVE  Bits(High(b) + hat, j, 1) = Bits(b, j, 1)
  <1>1. CASE j = 4 BY <1>1 DEF Bytes, Bits, High
  <1>2. CASE j = 5 BY <1>2 DEF Bytes, Bits, High
  <1>3. CASE j = 6 BY <1>3 DEF Bytes, Bits, High
  <1>4. CASE j = 7 BY <1>4 DEF Bytes, Bits, High
  <1> QED BY <1>1, <1>2, <1>3, <1>4

LEMMA LowBits ==
    ASSUME NEW n \in Nat, NEW l \in 0..15, NEW j \in 0..3
    PROVE  Bits(l + n * 16, j, 1) = Bits(l, j, 1)
  <1>1. CASE j = 0
    <2>1. (l + n * 16) % 2 = l % 2
      OBVIOUS
    <2> QED BY <1>1, <2>1 DEF Bits
  <1>2. CASE j = 1
    <2>1. (l + n * 16) \div 2 = (l \div 2) + n * 8
      OBVIOUS
    <2>2. ((l \div 2) + n * 8) % 2 = (l \div 2) % 2
      OBVIOUS
    <2> QED BY <1>2, <2>1, <2>2 DEF Bits
  <1>3. CASE j = 2
    <2>1. (l + n * 16) \div 4 = (l \div 4) + n * 4
      OBVIOUS
    <2>2. ((l \div 4) + n * 4) % 2 = (l \div 4) % 2
      OBVIOUS
    <2> QED BY <1>3, <2>1, <2>2 DEF Bits
  <1>4. CASE j = 3
    <2>1. (l + n * 16) \div 8 = (l \div 8) + n * 2
      OBVIOUS
    <2>2. ((l \div 8) + n * 2) % 2 = (l \div 8) % 2
      OBVIOUS
    <2> QED BY <1>4, <2>1, <2>2 DEF Bits
  <1> QED BY <1>1, <1>2, <1>3, <1>4

LEMMA HighBits ==
    ASSUME NEW l \in 0..15, NEW m \in 0..15, NEW j \in 0..3
    PROVE  Bits(l + m * 16, 4 + j, 1) = Bits(m, j, 1)
  <1>1. CASE j = 0
    <2>1. (l + m * 16) \div 16 = m
      OBVIOUS
    <2> QED BY <1>1, <2>1 DEF Bits
  <1>2. CASE j = 1
    <2>1. (l + m * 16) \div 32 = m \div 2
      OBVIOUS
    <2> QED BY <1>2, <2>1 DEF Bits
  <1>3. CASE j = 2
    <2>1. (l + m * 16) \div 64 = m \div 4
      OBVIOUS
    <2> QED BY <1>3, <2>1 DEF Bits
  <1>4. CASE j = 3
    <2>1. (l + m * 16) \div 128 = m \div 8
      OBVIOUS
    <2> QED BY <1>4, <2>1 DEF Bits
  <1> QED BY <1>1, <1>2, <1>3, <1>4

LEMMA OtherBits ==
    ASSUME NEW b \in Bytes, NEW c \in Bytes, NEW j \in 0..3
    PROVE  /\ Bits(Low(b) + Low(c) * 16, j, 1) = Bits(b, j, 1)
           /\ Bits(Low(b) + Low(c) * 16, 4 + j, 1) = Bits(c, j, 1)
  <1>1. /\ Low(b) \in 0..15 /\ b \div 16 \in Nat /\ b = Low(b) + (b \div 16) * 16
        /\ Low(c) \in 0..15 /\ c \div 16 \in Nat /\ c = Low(c) + (c \div 16) * 16
    BY DEF Bytes, Low
  <1>2. Bits(b, j, 1) = Bits(Low(b), j, 1) /\ Bits(c, j, 1) = Bits(Low(c), j, 1)
    BY <1>1, LowBits
  <1>3. Low(c) \in Nat
    BY <1>1
  <1> QED BY <1>1, <1>2, <1>3, LowBits, HighBits

\* Muted, the hat has its null value and no button is pressed.
LEMMA MutedBits ==
    /\ \A j \in 4..7 : Bits(8, j, 1) = 0
    /\ \A j \in 0..7 : Bits(0, j, 1) = 0
  <1>1. Bits(8, 4, 1) = 0 /\ Bits(8, 5, 1) = 0 /\ Bits(8, 6, 1) = 0 /\ Bits(8, 7, 1) = 0
    BY DEF Bits
  <1>2. /\ Bits(0, 0, 1) = 0 /\ Bits(0, 1, 1) = 0 /\ Bits(0, 2, 1) = 0 /\ Bits(0, 3, 1) = 0
        /\ Bits(0, 4, 1) = 0 /\ Bits(0, 5, 1) = 0 /\ Bits(0, 6, 1) = 0 /\ Bits(0, 7, 1) = 0
    BY DEF Bits
  <1>3. ASSUME NEW j \in 4..7 PROVE Bits(8, j, 1) = 0
    BY <1>1
  <1>4. ASSUME NEW j \in 0..7 PROVE Bits(0, j, 1) = 0
    BY <1>2
  <1> QED BY <1>3, <1>4

\* What a field's value is in a game pad report that the input was put into.
FieldShown(i) ==
    LET source == SourceOf(HidDeviceMode, 1, i) IN
    Value(HidDeviceMode, 1, i) =
        IF Muted(i) THEN 0
        ELSE Bits(input[source[1]], source[2], Fields(HidDeviceMode, 1)[i].size)

LEMMA GamePadFieldShown ==
    ASSUME ReportInv, reportId = 1, NEW i \in Shown(HidDeviceMode, 1)
    PROVE  FieldShown(i)
  <1> DEFINE source == SourceOf(HidDeviceMode, 1, i)
             value == Value(HidDeviceMode, 1, i)
  <1>1. /\ HidDeviceMode \in Modes /\ MuteDigitalPressureButtons \in BOOLEAN
        /\ \A j \in 0..25 : input[j] \in Bytes
        /\ GamePadShown
    BY DEF ReportInv
  <1>2. i \in 1..32 /\ i \notin {5, 20}
    BY <1>1, ShownFacts
  <1>3. /\ Starts[HidDeviceMode][1][i] = PadStart(i)
        /\ Fields(HidDeviceMode, 1)[i].size = PadSize(i)
    BY <1>1, <1>2, ShownFacts
  <1>4. /\ value = Bits(buffer[PadStart(i) \div 8], PadStart(i) % 8, PadSize(i))
        /\ FieldShown(i) <=>
              value = IF Muted(i) THEN 0 ELSE Bits(input[source[1]], source[2], PadSize(i))
    BY <1>3 DEF Value, FieldShown
  <1> HIDE DEF source, value
  <1>5. CASE i \in 1..4
    <2>1. PadStart(i) \div 8 = i /\ PadStart(i) % 8 = 0
      BY <1>5 DEF PadStart
    <2>2. ~Muted(i) /\ source = <<5 + i, 0>>
      BY <1>5 DEF Muted, SourceOf, source
    <2>3. buffer[i] = input[5 + i]
      BY <1>1, <1>5, GamePadBytes
    <2> QED BY <1>4, <2>1, <2>2, <2>3
  <1>6. CASE i \in 6..9
    <2>1. PadStart(i) \div 8 = 5 /\ PadStart(i) % 8 = i - 2 /\ PadSize(i) = 1
      BY <1>6 DEF PadStart, PadSize
    <2>2. source = <<3, i - 2>> /\ i - 2 \in 4..7
      BY <1>6 DEF SourceOf, source
    <2>3. CASE MuteDigitalPressureButtons
      <3>1. buffer[5] = 8 /\ Muted(i)
        BY <1>1, <1>6, <2>3 DEF GamePadShown, FaceAndHat, Muted
      <3>2. Bits(8, i - 2, 1) = 0
        BY <2>2, MutedBits
      <3> QED BY <1>4, <2>1, <3>1, <3>2
    <2>4. CASE ~MuteDigitalPressureButtons
      <3>1. ~Muted(i) /\ buffer[5] = High(input[3]) + Hat(High(input[2]))
        BY <1>1, <2>4 DEF GamePadShown, FaceAndHat, Muted
      <3>2. Hat(High(input[2])) \in 0..8
        BY <1>1, HalfFacts, HatFacts
      <3>3. Bits(buffer[5], i - 2, 1) = Bits(input[3], i - 2, 1)
        BY <1>1, <2>2, <3>1, <3>2, FaceBits
      <3> QED BY <1>4, <2>1, <2>2, <3>1, <3>3
    <2> QED BY <1>1, <2>3, <2>4
  <1>7. CASE i \in 10..17
    <2>1. PadStart(i) \div 8 = 6 /\ PadStart(i) % 8 = i - 10 /\ PadSize(i) = 1
      BY <1>7 DEF PadStart, PadSize
    <2>2. CASE MuteDigitalPressureButtons
      <3>1. buffer[6] = 0 /\ Muted(i)
        BY <1>1, <1>7, <2>2 DEF GamePadShown, Remaining, Muted
      <3>2. Bits(0, i - 10, 1) = 0
        BY <1>7, MutedBits
      <3> QED BY <1>4, <2>1, <3>1, <3>2
    <2>3. CASE ~MuteDigitalPressureButtons
      <3>1. ~Muted(i) /\ buffer[6] = Low(input[2]) + Low(input[3]) * 16
        BY <1>1, <2>3 DEF GamePadShown, Remaining, Muted
      <3>2. CASE i \in 10..13
        <4>1. source = <<2, i - 10>> /\ i - 10 \in 0..3
          BY <3>2 DEF SourceOf, source
        <4> QED BY <1>1, <1>4, <2>1, <3>1, <4>1, OtherBits
      <3>3. CASE i \in 14..17
        <4>1. source = <<3, i - 14>> /\ i - 14 \in 0..3 /\ i - 10 = 4 + (i - 14)
          BY <3>3 DEF SourceOf, source
        <4>2. Bits(buffer[6], 4 + (i - 14), 1) = Bits(input[3], i - 14, 1)
          BY <1>1, <3>1, <4>1, OtherBits
        <4> QED BY <1>4, <2>1, <3>1, <4>1, <4>2
      <3> QED BY <1>7, <3>2, <3>3
    <2> QED BY <1>1, <2>2, <2>3
  <1>8. CASE i \in 18..19
    <2>1. PadStart(i) \div 8 = 7 /\ PadStart(i) % 8 = i - 18 /\ PadSize(i) = 1
      BY <1>8 DEF PadStart, PadSize
    <2>2. ~Muted(i) /\ source = <<4, i - 18>>
      BY <1>8 DEF Muted, SourceOf, source
    <2>3. buffer[7] = input[4]
      BY <1>1, GamePadBytes
    <2> QED BY <1>4, <2>1, <2>2, <2>3
  <1>9. CASE i \in 21..32
    <2>1. PadStart(i) \div 8 = i - 13 /\ PadStart(i) % 8 = 0 /\ ~Muted(i)
      BY <1>9 DEF PadStart, Muted
    <2>2. CASE i \in 21..22
      <3>1. source = <<i - 3, 0>>
        BY <2>2 DEF SourceOf, source
      <3>2. buffer[i - 13] = input[i - 3]
        BY <1>1, <2>2, GamePadBytes
      <3> QED BY <1>4, <2>1, <3>1, <3>2
    <2>3. CASE i \in 23..26
      <3>1. source = <<i - 9, 0>>
        BY <2>3 DEF SourceOf, source
      <3>2. buffer[i - 13] = input[i - 9]
        BY <1>1, <2>3, GamePadBytes
      <3> QED BY <1>4, <2>1, <3>1, <3>2
    <2>4. CASE i \in 27..32
      <3>1. source = <<i - 7, 0>>
        BY <2>4 DEF SourceOf, source
      <3>2. buffer[i - 13] = input[i - 7]
        BY <1>1, <2>4, GamePadBytes
      <3> QED BY <1>4, <2>1, <3>1, <3>2
    <2> QED BY <1>9, <2>2, <2>3, <2>4
  <1>10. i \in 1..4 \/ i \in 6..9 \/ i \in 10..17 \/ i \in 18..19 \/ i \in 21..32
    BY <1>2
  <1> QED BY <1>5, <1>6, <1>7, <1>8, <1>9, <1>10

\* Whatever report came in and whatever the buffer held, every axis, button
\* and pressure value of the three descriptors shows what the controller sent;
\* muted, the buttons show nothing (DsHid.h:45-257, DsHid.c:36-327).
THEOREM FieldsCorrect == Spec => []FieldsShowInput
  <1>1. ReportInv => FieldsShowInput
    <2> SUFFICES ASSUME ReportInv, reportId # 0,
                        NEW i \in Shown(HidDeviceMode, reportId)
                 PROVE  LET source == SourceOf(HidDeviceMode, reportId, i) IN
                        Value(HidDeviceMode, reportId, i) =
                            IF reportId = 1 /\ Muted(i) THEN 0
                            ELSE Bits(input[source[1]], source[2],
                                      Fields(HidDeviceMode, reportId)[i].size)
      BY DEF FieldsShowInput
    <2>1. CASE reportId = 1
      BY <2>1, GamePadFieldShown DEF FieldShown
    <2>2. CASE reportId = 2
      <3>1. HidDeviceMode = "MULTI" /\ i \in 1..10
        BY <2>2, JoystickShownFacts DEF ReportInv
      <3>2. Value("MULTI", 2, i) = Bits(buffer[i], 0, 8)
        <4>1. Starts["MULTI"][2][i] = 8 * i /\ Fields("MULTI", 2)[i].size = 8
          BY <3>1, JoystickShownFacts
        <4>2. (8 * i) \div 8 = i /\ (8 * i) % 8 = 0
          BY <3>1
        <4> QED BY <4>1, <4>2 DEF Value
      <3>3. buffer[i] = input[SourceOf("MULTI", 2, i)[1]]
        BY <2>2, <3>1, JoystickBytes DEF ReportInv
      <3>4. SourceOf("MULTI", 2, i)[2] = 0 /\ Fields("MULTI", 2)[i].size = 8
        BY <3>1, JoystickShownFacts DEF SourceOf
      <3> QED BY <2>2, <3>1, <3>2, <3>3, <3>4
    <2> QED BY <2>1, <2>2 DEF ReportInv
  <1> QED BY <1>1, ConversionCorrect, PTL
=============================================================================
