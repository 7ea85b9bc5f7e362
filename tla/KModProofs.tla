----------------------------- MODULE KModProofs -----------------------------
(***************************************************************************)
(* kmodloader loads what the devices want, display drivers first, for      *)
(* every machine, every list of builtin modules, every dependency and every*)
(* fault of the tools.  The argument rests on what orderedSet() makes of a *)
(* sequence, a recursive function whose facts are shown by an induction    *)
(* over its length, and on an invariant about what is left of the plan.    *)
(***************************************************************************)
EXTENDS KModLoader, SequenceTheorems, WellFoundedInduction, TLAPS

-----------------------------------------------------------------------------
(* Induction up to L, over a set of numbers.                               *)
LEMMA SetInduction ==
  ASSUME NEW L \in Nat, NEW Q, 0 \in Q, \A n \in 1 .. L : n - 1 \in Q => n \in Q
  PROVE  0 .. L \subseteq Q
<1> SUFFICES ASSUME NEW T, T = (0 .. L) \ Q, T # {} PROVE FALSE
  OBVIOUS
<1> DEFINE R == OpToRel(<, Nat)
<1>1. IsWellFoundedOn(R, Nat)
  BY NatLessThanWellFounded, Zenon
<1>2. \A x, y \in Nat : y < x => <<y, x>> \in R
  BY DEF OpToRel
<1> HIDE DEF R
<1>3. T \subseteq Nat
  OBVIOUS
<1>4. PICK x \in T : \A y \in T : ~(<<y, x>> \in R)
  BY <1>1, <1>3, WFMin
<1>5. x # 0 /\ x \in 1 .. L /\ x - 1 \in 0 .. L /\ x - 1 < x
  BY <1>3
<1>6. x - 1 \notin T
  BY <1>2, <1>3, <1>4, <1>5
<1> QED
  BY <1>5, <1>6

-----------------------------------------------------------------------------
(* The recursion of orderedSet(), in two forms: as the equation that its   *)
(* function solves, and value by value.                                    *)
Stepped(s, r, n) ==
  IF s[n] \in ToSet(r[n - 1]) \cup {Blank} THEN r[n - 1] ELSE Append(r[n - 1], s[n])

Solves(s, L, r) == r = [n \in 0 .. L |-> IF n = 0 THEN <<>> ELSE Stepped(s, r, n)]

Steps(s, L, r) ==
  /\ r \in [0 .. L -> Seq(Kld)]
  /\ r[0] = <<>> /\ \A n \in 1 .. L : r[n] = Stepped(s, r, n)

(* A line that is no blank names a kernel module.                          *)
Names == Seq(Kld \cup {Blank})

(* One step keeps a sequence of modules one.                               *)
LEMMA SteppedType ==
  ASSUME NEW s \in Names, NEW r, NEW n \in 1 .. Len(s), r[n - 1] \in Seq(Kld)
  PROVE  Stepped(s, r, n) \in Seq(Kld)
<1>1. s[n] \in Kld \cup {Blank}
  BY DEF Names
<1>2. CASE s[n] \in ToSet(r[n - 1]) \cup {Blank}
  BY <1>2 DEF Stepped
<1>3. CASE s[n] \notin ToSet(r[n - 1]) \cup {Blank}
  <2>1. s[n] \in Kld /\ Stepped(s, r, n) = Append(r[n - 1], s[n])
    BY <1>1, <1>3 DEF Stepped
  <2> QED
    BY <2>1
<1> QED
  BY <1>2, <1>3

(* There is a function with these values.                                  *)
LEMMA StepsExist ==
  ASSUME NEW s \in Names
  PROVE  \E r : Steps(s, Len(s), r)
<1> DEFINE L == Len(s)
           Q == {n \in 0 .. L : \E g : Steps(s, n, g)}
<1>1. L \in Nat
  BY DEF Names
<1>2. 0 \in Q
  <2>1. Steps(s, 0, [n \in 0 .. 0 |-> <<>>])
    BY DEF Steps
  <2> QED
    BY <1>1, <2>1
<1>3. ASSUME NEW n \in 1 .. L, n - 1 \in Q PROVE n \in Q
  <2>1. PICK g : Steps(s, n - 1, g)
    BY <1>3
  <2> DEFINE h == [m \in 0 .. n |-> IF m = n THEN Stepped(s, g, n) ELSE g[m]]
  <2>2. n - 1 \in 0 .. n - 1 /\ g[n - 1] \in Seq(Kld)
    BY <1>1, <2>1 DEF Steps
  <2>3. Stepped(s, g, n) \in Seq(Kld)
    BY <2>2, SteppedType
  <2>4. h \in [0 .. n -> Seq(Kld)]
    BY <1>1, <2>1, <2>3 DEF Steps
  <2>5. \A m \in 0 .. n - 1 : h[m] = g[m]
    BY <1>1
  <2>6. h[0] = <<>> /\ h[n] = Stepped(s, g, n)
    BY <1>1, <2>1, <2>5 DEF Steps
  <2> HIDE DEF h
  <2>7. ASSUME NEW m \in 1 .. n PROVE h[m] = Stepped(s, h, m)
    <3>1. m - 1 \in 0 .. n - 1 /\ h[m - 1] = g[m - 1]
      BY <1>1, <2>5
    <3>2. Stepped(s, h, m) = Stepped(s, g, m)
      BY <3>1 DEF Stepped
    <3>3. CASE m = n
      BY <2>6, <3>2, <3>3
    <3>4. CASE m # n
      <4>1. m \in 1 .. n - 1 /\ m \in 0 .. n - 1
        BY <1>1, <3>4
      <4> QED
        BY <2>1, <2>5, <3>2, <4>1 DEF Steps
    <3> QED
      BY <3>3, <3>4
  <2>8. Steps(s, n, h)
    BY <2>4, <2>6, <2>7 DEF Steps
  <2>9. n \in 0 .. L
    BY <1>1
  <2> QED
    BY <2>8, <2>9
<1> HIDE DEF Q
<1>4. 0 .. L \subseteq Q
  BY <1>1, <1>2, <1>3, SetInduction
<1>5. L \in Q
  BY <1>1, <1>4
<1> QED
  BY <1>5 DEF Q

(* orderedSet() is the last value of a function that steps so.             *)
LEMMA OrderedDef ==
  ASSUME NEW s \in Names
  PROVE  \E r : Steps(s, Len(s), r) /\ orderedSet(s) = r[Len(s)]
<1> DEFINE L == Len(s)
           c == CHOOSE r : Solves(s, L, r)
<1>1. L \in Nat
  BY DEF Names
<1>2. PICK g : Steps(s, L, g)
  BY StepsExist
<1>3. Solves(s, L, g)
  <2>1. g = [n \in 0 .. L |-> g[n]]
    BY <1>2 DEF Steps
  <2>2. \A n \in 0 .. L : g[n] = IF n = 0 THEN <<>> ELSE Stepped(s, g, n)
    BY <1>1, <1>2 DEF Steps
  <2> QED
    BY <2>1, <2>2 DEF Solves
<1>4. Solves(s, L, c)
  BY <1>3
<1>5. orderedSet(s) = c[L]
  BY DEF orderedSet, Solves, Stepped
<1> HIDE DEF c
<1>6. c[0] = <<>> /\ c = [n \in 0 .. L |-> c[n]]
  BY <1>1, <1>4 DEF Solves
<1>7. \A n \in 1 .. L : c[n] = Stepped(s, c, n)
  BY <1>1, <1>4 DEF Solves
<1> DEFINE Q == {n \in 0 .. L : c[n] \in Seq(Kld)}
<1>8. 0 \in Q
  BY <1>1, <1>6
<1>9. ASSUME NEW n \in 1 .. L, n - 1 \in Q PROVE n \in Q
  <2>1. Stepped(s, c, n) \in Seq(Kld)
    BY <1>9, SteppedType
  <2> QED
    BY <1>1, <1>7, <2>1
<1> HIDE DEF Q
<1>10. 0 .. L \subseteq Q
  BY <1>1, <1>8, <1>9, SetInduction
<1>11. c \in [0 .. L -> Seq(Kld)]
  BY <1>6, <1>10 DEF Q
<1> QED
  BY <1>5, <1>6, <1>7, <1>11 DEF Steps
-----------------------------------------------------------------------------
(* What orderedSet() returns: after n steps the members of the result are  *)
(* the first n of the sequence, the blank left out.                        *)
Seen(s, n) == {s[i] : i \in 1 .. n} \ {Blank}

LEMMA SteppedMembers ==
  ASSUME NEW s \in Names, NEW r, NEW n \in 1 .. Len(s),
         r[n - 1] \in Seq(Kld), ToSet(r[n - 1]) = Seen(s, n - 1)
  PROVE  ToSet(Stepped(s, r, n)) = Seen(s, n)
<1>1. Len(s) \in Nat /\ s[n] \in Kld \cup {Blank}
  BY DEF Names
<1>2. Seen(s, n) = (Seen(s, n - 1) \cup {s[n]}) \ {Blank}
  BY <1>1 DEF Seen
<1>3. CASE s[n] \in ToSet(r[n - 1]) \cup {Blank}
  <2>1. Stepped(s, r, n) = r[n - 1]
    BY <1>3 DEF Stepped
  <2>2. Blank \notin Seen(s, n - 1)
    BY DEF Seen
  <2> QED
    BY <1>2, <1>3, <2>1, <2>2
<1>4. CASE s[n] \notin ToSet(r[n - 1]) \cup {Blank}
  <2>1. Stepped(s, r, n) = Append(r[n - 1], s[n])
    BY <1>4 DEF Stepped
  <2> DEFINE q == r[n - 1]
             z == Append(q, s[n])
  <2>2. Len(q) \in Nat /\ DOMAIN q = 1 .. Len(q) /\ DOMAIN z = 1 .. (Len(q) + 1)
        /\ z[Len(q) + 1] = s[n] /\ \A i \in 1 .. Len(q) : z[i] = q[i]
    BY <1>1, <1>4
  <2> HIDE DEF q, z
  <2>3. ToSet(z) = ToSet(q) \cup {s[n]}
    BY <2>2 DEF ToSet
  <2>4. Blank \notin Seen(s, n - 1)
    BY DEF Seen
  <2> QED
    BY <1>2, <1>4, <2>1, <2>3, <2>4 DEF q, z
<1> QED
  BY <1>3, <1>4

LEMMA StepsMembers ==
  ASSUME NEW s \in Names, NEW r, Steps(s, Len(s), r)
  PROVE  \A n \in 0 .. Len(s) : ToSet(r[n]) = Seen(s, n)
<1> DEFINE L == Len(s)
           Q == {n \in 0 .. L : ToSet(r[n]) = Seen(s, n)}
<1>1. L \in Nat /\ r \in [0 .. L -> Seq(Kld)]
  BY DEF Names, Steps
<1>2. 0 \in Q
  BY <1>1 DEF Steps, Seen, ToSet
<1>3. ASSUME NEW n \in 1 .. L, n - 1 \in Q PROVE n \in Q
  <2>1. n - 1 \in 0 .. L /\ n \in 0 .. L
    BY <1>1
  <2>2. r[n - 1] \in Seq(Kld) /\ ToSet(r[n - 1]) = Seen(s, n - 1)
    BY <1>1, <1>3, <2>1
  <2>3. ToSet(Stepped(s, r, n)) = Seen(s, n)
    BY <2>2, SteppedMembers
  <2>4. r[n] = Stepped(s, r, n)
    BY DEF Steps
  <2> QED
    BY <2>1, <2>3, <2>4
<1> HIDE DEF Q
<1>4. 0 .. L \subseteq Q
  BY <1>1, <1>2, <1>3, SetInduction
<1> QED
  BY <1>4 DEF Q

(* A later result continues an earlier one.                                *)
Continues(q, p) == Len(p) =< Len(q) /\ \A i \in 1 .. Len(p) : q[i] = p[i]

LEMMA StepsContinue ==
  ASSUME NEW s \in Names, NEW r, Steps(s, Len(s), r), NEW m \in 0 .. Len(s)
  PROVE  Continues(r[Len(s)], r[m])
<1> DEFINE L == Len(s)
           Q == {n \in 0 .. L : m =< n => Continues(r[n], r[m])}
<1>1. L \in Nat /\ r \in [0 .. L -> Seq(Kld)]
  BY DEF Names, Steps
<1>2. Continues(r[m], r[m])
  BY <1>1 DEF Continues
<1>3. 0 \in Q
  <2>1. m =< 0 => m = 0
    BY <1>1
  <2> QED
    BY <1>1, <1>2, <2>1
<1>4. ASSUME NEW n \in 1 .. L, n - 1 \in Q PROVE n \in Q
  <2>1. n - 1 \in 0 .. L /\ n \in 0 .. L /\ (m =< n => m =< n - 1 \/ m = n)
    BY <1>1
  <2>2. ASSUME m =< n - 1 PROVE Continues(r[n], r[m])
    <3>1. Continues(r[n - 1], r[m])
      BY <1>4, <2>2
    <3>2. r[n] = Stepped(s, r, n) /\ r[n - 1] \in Seq(Kld) /\ r[m] \in Seq(Kld)
      BY <1>1, <2>1 DEF Steps
    <3>3. s[n] \in Kld \cup {Blank}
      BY DEF Names
    <3>4. CASE r[n] = r[n - 1]
      BY <3>1, <3>4
    <3>5. CASE r[n] # r[n - 1]
      <4>1. s[n] \in Kld /\ r[n] = Append(r[n - 1], s[n])
        BY <3>2, <3>3, <3>5 DEF Stepped
      <4> DEFINE q == r[n - 1]
                 p == r[m]
                 z == Append(q, s[n])
      <4>2. Len(q) \in Nat /\ Len(p) \in Nat /\ Len(z) = Len(q) + 1
            /\ \A i \in 1 .. Len(q) : z[i] = q[i]
        BY <3>2, <4>1
      <4> HIDE DEF q, p, z
      <4>3. Continues(z, p)
        BY <3>1, <4>2 DEF Continues, q, p
      <4> QED
        BY <4>1, <4>3 DEF q, p, z
    <3> QED
      BY <3>4, <3>5
  <2> QED
    BY <1>2, <2>1, <2>2
<1> HIDE DEF Q
<1>5. 0 .. L \subseteq Q
  BY <1>1, <1>3, <1>4, SetInduction
<1>6. L \in Q /\ m =< L
  BY <1>1, <1>5
<1> QED
  BY <1>6 DEF Q

(* orderedSet() keeps the names, without blanks, and of a sequence in two  *)
(* parts it puts the names of the first part before any other.             *)
LEMMA OrderedMembers ==
  ASSUME NEW s \in Names
  PROVE  orderedSet(s) \in Seq(Kld) /\ ToSet(orderedSet(s)) = ToSet(s) \ {Blank}
<1>1. PICK r : Steps(s, Len(s), r) /\ orderedSet(s) = r[Len(s)]
  BY OrderedDef
<1>2. Len(s) \in Nat /\ DOMAIN s = 1 .. Len(s) /\ Len(s) \in 0 .. Len(s)
  BY DEF Names
<1>3. r[Len(s)] \in Seq(Kld)
  BY <1>1, <1>2 DEF Steps
<1>4. ToSet(r[Len(s)]) = Seen(s, Len(s))
  BY <1>1, <1>2, StepsMembers
<1>5. Seen(s, Len(s)) = ToSet(s) \ {Blank}
  BY <1>2 DEF Seen, ToSet
<1> QED
  BY <1>1, <1>3, <1>4, <1>5

LEMMA OrderedFirst ==
  ASSUME NEW s \in Names, NEW m \in 0 .. Len(s),
         NEW i \in DOMAIN orderedSet(s), orderedSet(s)[i] \notin Seen(s, m)
  PROVE  Seen(s, m) \subseteq {orderedSet(s)[j] : j \in 1 .. i - 1}
<1>1. PICK r : Steps(s, Len(s), r) /\ orderedSet(s) = r[Len(s)]
  BY OrderedDef
<1> DEFINE p == r[m]
           q == orderedSet(s)
<1>2. Len(s) \in Nat
  BY DEF Names
<1>3. p \in Seq(Kld) /\ q \in Seq(Kld)
  BY <1>1, <1>2 DEF Steps
<1>4. Continues(q, p)
  BY <1>1, StepsContinue
<1>5. ToSet(p) = Seen(s, m)
  BY <1>1, StepsMembers
<1> HIDE DEF p, q
<1>6. Len(p) \in Nat /\ DOMAIN p = 1 .. Len(p) /\ i \in Nat /\ i \in 1 .. Len(q)
  BY <1>3 DEF q
<1>7. i > Len(p)
  BY <1>4, <1>5, <1>6 DEF Continues, ToSet, q
<1>8. ASSUME NEW k \in Seen(s, m) PROVE \E j \in 1 .. i - 1 : q[j] = k
  <2>1. PICK j \in 1 .. Len(p) : p[j] = k
    BY <1>5, <1>6 DEF ToSet
  <2>2. q[j] = k /\ j \in 1 .. i - 1
    BY <1>4, <1>6, <1>7, <2>1 DEF Continues
  <2> QED
    BY <2>2
<1> QED
  BY <1>8 DEF q
-----------------------------------------------------------------------------
(* What the tools report, as names.                                        *)
LEMMA MachineType ==
  ASSUME NEW c \in Machines
  PROVE  c.gpus \in Seq(Device) /\ c.matches \in Seq(Line)
BY KModLoaderConstants

LEMMA GpuKldType ==
  ASSUME NEW d \in Device
  PROVE  gpuKld(d) \in Kld \cup {Blank}
BY KModLoaderConstants DEF gpuKld, Device

(* The list of display drivers has the drivers of the devices that count,  *)
(* and the list of devmatch the modules it names.                          *)
LEMMA GpuList ==
  ASSUME NEW lines \in Seq(Device), NEW g, g = gpuKldsForDevices(lines, gpuDevices(lines))
  PROVE  /\ g \in Seq(Kld)
         /\ ToSet(g) = {gpuKld(d) : d \in {e \in ToSet(lines) : e.class = "0x0300" /\ e.vendor # None}} \ {Blank}
<1> DEFINE D == gpuDevices(lines)
           x == [i \in DOMAIN lines |-> IF i \in D THEN gpuKld(lines[i]) ELSE Blank]
           W == {gpuKld(d) : d \in {e \in ToSet(lines) : e.class = "0x0300" /\ e.vendor # None}}
<1>1. Len(lines) \in Nat /\ DOMAIN lines = 1 .. Len(lines)
      /\ \A i \in DOMAIN lines : lines[i] \in Device
  OBVIOUS
<1>2. \A i \in DOMAIN lines : x[i] \in Kld \cup {Blank}
  BY <1>1, GpuKldType
<1>3. DOMAIN x = DOMAIN lines /\ x \in Names
  BY <1>1, <1>2 DEF Names
<1>4. g = orderedSet(x)
  BY DEF gpuKldsForDevices
<1>5. \A i \in DOMAIN lines : x[i] = IF i \in D THEN gpuKld(lines[i]) ELSE Blank
  OBVIOUS
<1> HIDE DEF x
<1>6. g \in Seq(Kld) /\ ToSet(g) = ToSet(x) \ {Blank}
  BY <1>3, <1>4, OrderedMembers
<1>7. ASSUME NEW k, k # Blank PROVE k \in ToSet(x) <=> k \in W
  <2>1. ASSUME k \in ToSet(x) PROVE k \in W
    <3>1. PICK i \in DOMAIN lines : x[i] = k
      BY <1>3, <2>1 DEF ToSet
    <3>2. i \in D /\ k = gpuKld(lines[i])
      BY <1>5, <1>7, <3>1
    <3>3. lines[i] \in ToSet(lines) /\ lines[i].class = "0x0300" /\ lines[i].vendor # None
      BY <3>2 DEF gpuDevices, ToSet
    <3> QED
      BY <3>2, <3>3
  <2>2. ASSUME k \in W PROVE k \in ToSet(x)
    <3>1. PICK d \in ToSet(lines) : d.class = "0x0300" /\ d.vendor # None /\ k = gpuKld(d)
      BY <2>2
    <3>2. PICK i \in DOMAIN lines : lines[i] = d
      BY <3>1 DEF ToSet
    <3>3. i \in D
      BY <3>1, <3>2 DEF gpuDevices
    <3>4. x[i] = k
      BY <1>5, <3>1, <3>2, <3>3
    <3> QED
      BY <1>3, <3>2, <3>4 DEF ToSet
  <2> QED
    BY <2>1, <2>2
<1> QED
  BY <1>6, <1>7

LEMMA MatchList ==
  ASSUME NEW lines \in Seq(Line), NEW g, g = kldsFromDevmatch(lines)
  PROVE  /\ g \in Seq(Kld)
         /\ ToSet(g) = {l.kld : l \in ToSet(lines)} \ {Blank}
<1> DEFINE x == [i \in DOMAIN lines |-> lines[i].kld]
<1>1. Len(lines) \in Nat /\ DOMAIN lines = 1 .. Len(lines)
      /\ \A i \in DOMAIN lines : lines[i] \in Line
  OBVIOUS
<1>2. \A i \in DOMAIN lines : x[i] \in Kld \cup {Blank}
  BY <1>1 DEF Line
<1>3. DOMAIN x = DOMAIN lines /\ x \in Names
  BY <1>1, <1>2 DEF Names
<1>4. g = orderedSet(x)
  BY DEF kldsFromDevmatch
<1>5. ToSet(x) = {l.kld : l \in ToSet(lines)}
  BY DEF ToSet
<1> HIDE DEF x
<1> QED
  BY <1>3, <1>4, <1>5, OrderedMembers

(* The plan has the modules of both lists, and where it comes to one that  *)
(* is no display driver it has all of those behind it.                     *)
Before(s, i) == {s[j] : j \in 1 .. i - 1}

LEMMA PlanList ==
  ASSUME NEW g \in Seq(Kld), NEW m \in Seq(Kld), NEW p, p = Plan(g, m)
  PROVE  /\ p \in Seq(Kld) /\ ToSet(p) = ToSet(g) \cup ToSet(m)
         /\ \A i \in DOMAIN p : p[i] \notin ToSet(g) => ToSet(g) \subseteq Before(p, i)
<1> DEFINE s == g \o m
<1>1. /\ Len(g) \in Nat /\ Len(m) \in Nat /\ s \in Seq(Kld)
      /\ DOMAIN g = 1 .. Len(g) /\ DOMAIN m = 1 .. Len(m)
      /\ Len(s) = Len(g) + Len(m) /\ DOMAIN s = 1 .. Len(s)
  OBVIOUS
<1>2. /\ \A i \in 1 .. Len(g) : s[i] = g[i] /\ g[i] \in Kld
      /\ \A i \in 1 .. Len(m) : s[Len(g) + i] = m[i] /\ m[i] \in Kld
      /\ \A i \in 1 .. Len(s) : i > Len(g) => s[i] = m[i - Len(g)]
  OBVIOUS
<1>3. p = orderedSet(s)
  BY DEF Plan
<1> HIDE DEF s
<1>4. s \in Names
  BY <1>1 DEF Names
<1>5. ToSet(s) = ToSet(g) \cup ToSet(m)
  <2>1. ASSUME NEW i \in DOMAIN s PROVE s[i] \in ToSet(g) \cup ToSet(m)
    <3>1. CASE i =< Len(g)
      BY <1>1, <1>2, <3>1 DEF ToSet
    <3>2. CASE i > Len(g)
      <4>1. i - Len(g) \in 1 .. Len(m) /\ s[i] = m[i - Len(g)]
        BY <1>1, <1>2, <3>2
      <4> QED
        BY <1>1, <4>1 DEF ToSet
    <3> QED
      BY <1>1, <3>1, <3>2
  <2>2. ASSUME NEW i \in DOMAIN g PROVE g[i] \in ToSet(s)
    <3>1. i \in DOMAIN s /\ s[i] = g[i]
      BY <1>1, <1>2
    <3> QED
      BY <3>1 DEF ToSet
  <2>3. ASSUME NEW i \in DOMAIN m PROVE m[i] \in ToSet(s)
    <3>1. Len(g) + i \in DOMAIN s /\ s[Len(g) + i] = m[i]
      BY <1>1, <1>2
    <3> QED
      BY <3>1 DEF ToSet
  <2> QED
    BY <2>1, <2>2, <2>3 DEF ToSet
<1>6. Blank \notin ToSet(s)
  BY <1>1, KModLoaderConstants DEF ToSet
<1>7. p \in Seq(Kld) /\ ToSet(p) = ToSet(g) \cup ToSet(m)
  BY <1>3, <1>4, <1>5, <1>6, OrderedMembers
<1>8. Seen(s, Len(g)) = ToSet(g)
  BY <1>1, <1>2, KModLoaderConstants, ZenonT(60) DEF Seen, ToSet
<1>9. ASSUME NEW i \in DOMAIN p, p[i] \notin ToSet(g)
      PROVE  ToSet(g) \subseteq Before(p, i)
  <2>1. Len(g) \in 0 .. Len(s)
    BY <1>1
  <2>2. i \in DOMAIN orderedSet(s) /\ orderedSet(s)[i] \notin Seen(s, Len(g))
    BY <1>3, <1>8, <1>9
  <2>3. Seen(s, Len(g)) \subseteq {orderedSet(s)[j] : j \in 1 .. i - 1}
    BY <1>4, <2>1, <2>2, OrderedFirst
  <2> QED
    BY <1>3, <1>8, <2>3 DEF Before
<1> QED
  BY <1>7, <1>9

-----------------------------------------------------------------------------
(* The inductive invariant.  The lists hold what the devices want as far   *)
(* as the tools were heard, kldstat never lists more than is loaded, and   *)
(* while the plan is carried out what is still missing is in what is left  *)
(* of it, the display drivers in front.                                    *)
Handled == kernel \cup failed

Lists ==
  /\ gpuKlds \in Seq(Kld) /\ ToSet(gpuKlds) = Display
  /\ devmatchKlds \in Seq(Kld) /\ ToSet(devmatchKlds) = Other

Pending ==
  /\ plan \in Seq(Kld)
  /\ Display \cup Other \subseteq Handled \cup ToSet(plan)
  /\ \A i \in DOMAIN plan :
       plan[i] \notin Display => Display \subseteq Handled \cup Before(plan, i)

KInv ==
  /\ machine \in Machines /\ loaded \subseteq kernel /\ Lists
  /\ pc \in Tools \cup {"kldload", "done"}
  /\ (pc \notin Tools => Pending)
  /\ (pc = "done" => plan = <<>>)

(* A step that leaves lists, plan and place alone and loads nothing away.  *)
LEMMA KeepInv ==
  ASSUME KInv, loaded' \subseteq kernel', kernel \subseteq kernel',
         UNCHANGED <<machine, pc, gpuKlds, devmatchKlds, plan, failed, heard>>
  PROVE  KInv'
<1>1. Display' = Display /\ Other' = Other
  BY DEF Display, Other
<1>2. Lists'
  BY <1>1 DEF KInv, Lists
<1>3. Handled \subseteq Handled'
  BY DEF Handled
<1>4. Pending => Pending'
  BY <1>1, <1>3 DEF Pending
<1> QED
  BY <1>2, <1>4 DEF KInv

(* The end of a tool: its list is made, and after kldstat the plan.        *)
LEMMA ResultInv ==
  ASSUME KInv, pc \in Tools, NEW w \in BOOLEAN, NEW K \in SUBSET kernel, Result(w, K)
  PROVE  KInv'
<1>1. machine' = machine /\ kernel' = kernel /\ failed' = failed /\ loaded' = K
      /\ pc' = After(pc) /\ heard' = IF w THEN heard \cup {pc} ELSE heard
  BY DEF Result
<1>2. machine.gpus \in Seq(Device) /\ machine.matches \in Seq(Line)
  BY MachineType DEF KInv
<1>3. gpuKlds' \in Seq(Kld) /\ ToSet(gpuKlds') = Display'
  <2>1. CASE pc = "pciconf" /\ w
    <3>1. gpuKlds' = gpuKldsForDevices(machine.gpus, gpuDevices(machine.gpus))
      BY <2>1 DEF Result
    <3>2. "pciconf" \in heard'
      BY <1>1, <2>1
    <3>3. Display' = {gpuKld(d) : d \in {e \in ToSet(machine.gpus) :
                        e.class = "0x0300" /\ e.vendor # None}} \ {Blank}
      BY <1>1, <3>2 DEF Display
    <3> QED
      BY <1>2, <3>1, <3>3, GpuList
  <2>2. CASE ~(pc = "pciconf" /\ w)
    <3>1. gpuKlds' = gpuKlds
      BY <2>2 DEF Result
    <3>2. "pciconf" \in heard' <=> "pciconf" \in heard
      BY <1>1, <2>2
    <3>3. Display' = Display
      BY <1>1, <3>2 DEF Display
    <3> QED
      BY <3>1, <3>3 DEF KInv, Lists
  <2> QED
    BY <2>1, <2>2
<1>4. devmatchKlds' \in Seq(Kld) /\ ToSet(devmatchKlds') = Other'
  <2>1. CASE pc = "devmatch" /\ w
    <3>1. devmatchKlds' = kldsFromDevmatch(machine.matches)
      BY <2>1 DEF Result
    <3>2. "devmatch" \in heard'
      BY <1>1, <2>1
    <3>3. Other' = {l.kld : l \in ToSet(machine.matches)} \ {Blank}
      BY <1>1, <3>2 DEF Other
    <3> QED
      BY <1>2, <3>1, <3>3, MatchList
  <2>2. CASE ~(pc = "devmatch" /\ w)
    <3>1. devmatchKlds' = devmatchKlds
      BY <2>2 DEF Result
    <3>2. "devmatch" \in heard' <=> "devmatch" \in heard
      BY <1>1, <2>2
    <3>3. Other' = Other
      BY <1>1, <3>2 DEF Other
    <3> QED
      BY <3>1, <3>3 DEF KInv, Lists
  <2> QED
    BY <2>1, <2>2
<1>5. Lists'
  BY <1>3, <1>4 DEF Lists
<1>6. pc = "kldstat" => Pending'
  <2> SUFFICES ASSUME pc = "kldstat" PROVE Pending'
    OBVIOUS
  <2>1. plan' = Plan(gpuKlds, devmatchKlds) /\ gpuKlds' = gpuKlds /\ devmatchKlds' = devmatchKlds
    BY DEF Result
  <2>2. plan' = Plan(gpuKlds', devmatchKlds')
    BY <2>1
  <2>3. /\ plan' \in Seq(Kld) /\ ToSet(plan') = Display' \cup Other'
        /\ \A i \in DOMAIN plan' :
             plan'[i] \notin Display' => Display' \subseteq Before(plan', i)
    BY <1>3, <1>4, <2>2, PlanList
  <2> QED
    BY <2>3 DEF Pending
<1>7. pc' \in {"devmatch", "kldstat", "kldload"} /\ (pc' = "kldload" => pc = "kldstat")
  BY <1>1 DEF After, Tools
<1> QED
  BY <1>1, <1>5, <1>6, <1>7 DEF KInv, Tools

(* A module of the plan is done with: it is loaded, or it has failed.      *)
LEMMA PlanStep ==
  ASSUME KInv, pc = "kldload", plan # <<>>, plan' = Tail(plan),
         kernel \subseteq kernel', failed \subseteq failed', Head(plan) \in kernel' \cup failed',
         UNCHANGED <<machine, pc, gpuKlds, devmatchKlds, loaded, heard>>
  PROVE  KInv'
<1>1. Display' = Display /\ Other' = Other /\ Pending
  BY DEF Display, Other, KInv, Tools
<1>2. Lists'
  BY <1>1 DEF KInv, Lists
<1>3. plan \in Seq(Kld)
  BY <1>1 DEF Pending
<1>4. /\ Len(plan) \in Nat /\ Len(plan) >= 1 /\ DOMAIN plan = 1 .. Len(plan)
      /\ plan' \in Seq(Kld) /\ Len(plan') = Len(plan) - 1 /\ DOMAIN plan' = 1 .. (Len(plan) - 1)
      /\ Head(plan) = plan[1] /\ \A i \in DOMAIN plan' : plan'[i] = plan[i + 1]
  BY <1>3
<1>5. Handled \cup {plan[1]} \subseteq Handled'
  BY <1>4 DEF Handled
<1>6. ASSUME NEW i \in DOMAIN plan, i > 1 PROVE i - 1 \in DOMAIN plan' /\ plan'[i - 1] = plan[i]
  BY <1>4, <1>6
<1>7. ToSet(plan) \subseteq {plan[1]} \cup ToSet(plan')
  BY <1>4, <1>6 DEF ToSet
<1>8. ASSUME NEW i \in DOMAIN plan', plan'[i] \notin Display'
      PROVE  Display' \subseteq Handled' \cup Before(plan', i)
  <2>1. i + 1 \in DOMAIN plan /\ plan[i + 1] \notin Display
    BY <1>1, <1>4, <1>8
  <2>2. Display \subseteq Handled \cup Before(plan, i + 1)
    BY <1>1, <2>1 DEF Pending
  <2>3. ASSUME NEW j \in 1 .. (i + 1) - 1 PROVE plan[j] \in {plan[1]} \cup Before(plan', i)
    <3>1. CASE j = 1
      BY <3>1
    <3>2. CASE j # 1
      <4>1. j \in DOMAIN plan /\ j > 1 /\ j - 1 \in 1 .. i - 1
        BY <1>4, <3>2
      <4>2. plan'[j - 1] = plan[j]
        BY <1>6, <4>1
      <4> QED
        BY <4>1, <4>2 DEF Before
    <3> QED
      BY <3>1, <3>2
  <2>4. Before(plan, i + 1) \subseteq {plan[1]} \cup Before(plan', i)
    BY <2>3 DEF Before
  <2> QED
    BY <1>1, <1>5, <2>2, <2>4
<1>9. Display' \cup Other' \subseteq Handled' \cup ToSet(plan')
  BY <1>1, <1>5, <1>7 DEF Pending
<1>10. Pending'
  BY <1>4, <1>8, <1>9 DEF Pending
<1> QED
  BY <1>2, <1>10 DEF KInv

LEMMA InitInv == Init => KInv
<1> SUFFICES ASSUME Init PROVE KInv
  OBVIOUS
<1>1. Display = {} /\ Other = {}
  BY DEF Init, Display, Other
<1>2. Lists
  BY <1>1 DEF Init, Lists, ToSet
<1> QED
  BY <1>2 DEF Init, KInv, Tools

LEMMA NextInv == KInv /\ [Next]_vars => KInv'
<1> SUFFICES ASSUME KInv, [Next]_vars PROVE KInv'
  OBVIOUS
<1>1. loaded \subseteq kernel
  BY DEF KInv
<1>2. CASE launch
  BY <1>1, <1>2, KeepInv DEF launch
<1>3. CASE launchFails
  BY <1>3, ResultInv DEF launchFails
<1>4. CASE waitUntilExit
  <2>1. CASE Result(TRUE, loaded)
    BY <1>1, <1>4, <2>1, ResultInv DEF waitUntilExit
  <2>2. CASE \E K \in SUBSET loaded : Result(FALSE, K)
    <3>1. PICK K \in SUBSET loaded : Result(FALSE, K)
      BY <2>2
    <3>2. K \in SUBSET kernel /\ pc \in Tools
      BY <1>1, <1>4 DEF waitUntilExit
    <3> QED
      BY <3>1, <3>2, ResultInv
  <2> QED
    BY <1>4, <2>1, <2>2 DEF waitUntilExit
<1>5. CASE kldload
  <2>1. /\ plan' = Tail(plan) /\ kernel \subseteq kernel' /\ failed \subseteq failed'
        /\ Head(plan) \in kernel' \cup failed'
    BY <1>1, <1>5 DEF kldload, Rest, Loads
  <2> QED
    BY <1>5, <2>1, PlanStep DEF kldload
<1>6. CASE done
  <2>1. Display' = Display /\ Other' = Other /\ Lists' = Lists /\ Pending' = Pending /\ Pending
    BY <1>6 DEF done, results, Display, Other, Lists, Pending, Handled, KInv, Tools
  <2> QED
    BY <1>6, <2>1 DEF done, results, KInv
<1>7. CASE Tool
  <2>1. UNCHANGED <<machine, kernel, pc, results>>
    BY <1>7 DEF Tool, exit, write
  <2> QED
    BY <1>1, <2>1, KeepInv DEF results
<1>8. CASE otherLoads
  <2>1. kernel \subseteq kernel' /\ UNCHANGED <<machine, pc, results>>
    BY <1>8 DEF otherLoads, Loads
  <2> QED
    BY <1>1, <2>1, KeepInv DEF results
<1>9. CASE UNCHANGED vars
  BY <1>1, <1>9, KeepInv DEF vars, results
<1> QED
  BY <1>2, <1>3, <1>4, <1>5, <1>6, <1>7, <1>8, <1>9 DEF Next, Run

-----------------------------------------------------------------------------
(* The invariant holds in every state.                                     *)
THEOREM Invariance == Spec => []KInv
BY InitInv, NextInv, PTL DEF Spec

(* When kmodloader is done, what the devices want is loaded or has failed: *)
(* the plan of runOneShot leaves none out, on any machine.                 *)
THEOREM LoadsAll == Spec => []AllLoaded
<1>1. KInv => AllLoaded
  BY DEF KInv, Pending, Handled, AllLoaded, Tools, ToSet
<1> QED
  BY <1>1, Invariance, PTL

(* The loop over the plan comes to another module only when every display  *)
(* driver is loaded or has failed.                                         *)
THEOREM GpuComesFirst == Spec => GpuFirst
<1>1. ASSUME KInv, pc = "kldload", plan # <<>>, Head(plan) \notin Display
      PROVE  Display \subseteq kernel \cup failed
  <2>1. Pending
    BY <1>1 DEF KInv, Tools
  <2>2. plan \in Seq(Kld)
    BY <2>1 DEF Pending
  <2>3. 1 \in DOMAIN plan /\ plan[1] \notin Display
    BY <1>1, <2>2
  <2>4. Before(plan, 1) = {}
    BY DEF Before
  <2> QED
    BY <2>1, <2>3, <2>4 DEF Pending, Handled
<1>2. KInv => [pc = "kldload" /\ plan # <<>> /\ plan' # plan /\ Head(plan) \notin Display
                 => Display \subseteq kernel \cup failed]_vars
  BY <1>1
<1> QED
  BY <1>2, Invariance, PTL DEF GpuFirst
=============================================================================
