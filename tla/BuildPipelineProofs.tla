------------------------- MODULE BuildPipelineProofs --------------------------
(***************************************************************************)
(* Two results about builds.  What the strict executor's receipts rest on, *)
(* for trees of any size, any contents and any number of writes by others. *)
(* Files may be exchanged and put back between two looks, and only what is *)
(* put back is lost: a file that still is what it was, and was not put     *)
(* back meanwhile, has been that all the time, so two equal walks have     *)
(* seen one instant, and what a tool has read of a copy that is unchanged  *)
(* after it is what the copy was made of.  And what the commands that      *)
(* share .rextio and dist leave there, for any number of commands: a       *)
(* command's distance from the end of its script says whose the trees are  *)
(* and that no report stands over them.                                    *)
(***************************************************************************)
EXTENDS TwoBuild, BuildPipeline, Integers, TLAPS

-----------------------------------------------------------------------------
(* Two sequences one after the other.                                       *)
LEMMA Joined ==
  ASSUME NEW S, NEW s \in Seq(S), NEW t \in Seq(S)
  PROVE  /\ s \o t \in Seq(S) /\ Len(s \o t) = Len(s) + Len(t)
         /\ \A i \in 1..Len(s) : (s \o t)[i] = s[i]
         /\ \A i \in 1..Len(t) : (s \o t)[Len(s) + i] = t[i]
OBVIOUS

\* The two parts of r, when r is s and then t.
Joins(S, r, s, t, k, l) ==
  /\ r \in Seq(S) /\ Len(r) = k + l
  /\ \A i \in 1..k : r[i] = s[i]
  /\ \A i \in 1..l : r[k + i] = t[i]

LEMMA Joining ==
  ASSUME NEW S, NEW s \in Seq(S), NEW t \in Seq(S), NEW r, r = s \o t
  PROVE  Joins(S, r, s, t, Len(s), Len(t))
BY Joined DEF Joins

-----------------------------------------------------------------------------
(* The script, step by step: o steps open it, w steps make one build.       *)
Doings == {"freeze", "copy", "verify", "lock", "take", "source", "run", "post", "capture",
           "reverify", "compare", "recapture", "issue"}
Item == [do : Doings \cup {"support"}, n : 0..2, item : {"none", "pyo3", "cargo", "tools", "leaves"}]

LEMMA Made ==
  /\ \A what \in Doings, k \in 0..2 : Do(what, k) \in Item
  /\ \A x \in {"pyo3", "cargo", "tools", "leaves"} : Check(x) \in Item
BY DEF Do, Check, Item

LEMMA NativeOpening ==
  ASSUME Native, mode.locked
  PROVE  /\ Opening(mode) \in Seq(Item) /\ Len(Opening(mode)) = 5
         /\ Opening(mode)[1] = Check("tools") /\ Opening(mode)[2] = Check("leaves")
         /\ Opening(mode)[3] = Check("pyo3")
         /\ Opening(mode)[4] = Do("freeze", 0) /\ Opening(mode)[5] = Check("tools")
<1> DEFINE s == <<Check("tools"), Check("leaves"), Check("pyo3")>>
             \o <<Do("freeze", 0)>>
             \o <<>>
             \o <<Check("tools")>>
<1>1. Opening(mode) = s
  BY Zenon DEF Opening, If, Native, IsNative
<1>2. s[1] = Check("tools") /\ s[2] = Check("leaves") /\ s[3] = Check("pyo3") /\ s[4] = Do("freeze", 0)
  OBVIOUS
<1>3. s[5] = Check("tools")
  OBVIOUS
<1>4. Len(s) = 5
  OBVIOUS
<1>5. s \in Seq(Item)
  <2>1. <<Check("tools"), Check("leaves"), Check("pyo3")>> \in Seq(Item)
    BY Made DEF Doings, Builds
  <2>2. <<Do("freeze", 0)>> \in Seq(Item)
    BY Made DEF Doings, Builds
  <2>3. <<>> \in Seq(Item)
    BY Made DEF Doings, Builds
  <2>4. <<Check("tools")>> \in Seq(Item)
    BY Made DEF Doings, Builds
  <2> QED
    BY <2>1, <2>2, <2>3, <2>4, Joined
<1> HIDE DEF s
<1> QED
  BY <1>1, <1>2, <1>3, <1>4, <1>5

LEMMA LockedOpening ==
  ASSUME ~ Native, mode.locked
  PROVE  /\ Opening(mode) \in Seq(Item) /\ Len(Opening(mode)) = 1
         /\ Opening(mode)[1] = Do("freeze", 0)
<1> DEFINE s == <<>>
             \o <<Do("freeze", 0)>>
             \o <<>>
             \o <<>>
<1>1. Opening(mode) = s
  BY Zenon DEF Opening, If, Native, IsNative
<1>2. s[1] = Do("freeze", 0)
  OBVIOUS
<1>3. Len(s) = 1
  OBVIOUS
<1>4. s \in Seq(Item)
  <2>1. <<>> \in Seq(Item)
    BY Made DEF Doings, Builds
  <2>2. <<Do("freeze", 0)>> \in Seq(Item)
    BY Made DEF Doings, Builds
  <2>3. <<>> \in Seq(Item)
    BY Made DEF Doings, Builds
  <2>4. <<>> \in Seq(Item)
    BY Made DEF Doings, Builds
  <2> QED
    BY <2>1, <2>2, <2>3, <2>4, Joined
<1> HIDE DEF s
<1> QED
  BY <1>1, <1>2, <1>3, <1>4

LEMMA UnlockedOpening ==
  ASSUME ~ Native, ~ mode.locked
  PROVE  /\ Opening(mode) \in Seq(Item) /\ Len(Opening(mode)) = 5
         /\ Opening(mode)[1] = Do("freeze", 0) /\ Opening(mode)[2] = Do("copy", 0)
         /\ Opening(mode)[3] = Do("verify", 0)
         /\ Opening(mode)[4] = Do("lock", 0) /\ Opening(mode)[5] = Do("take", 0)
<1> DEFINE s == <<>>
             \o <<Do("freeze", 0)>>
             \o <<Do("copy", 0), Do("verify", 0), Do("lock", 0), Do("take", 0)>>
             \o <<>>
<1>1. Opening(mode) = s
  BY Zenon DEF Opening, If, Native, IsNative
<1>2. s[1] = Do("freeze", 0) /\ s[2] = Do("copy", 0) /\ s[3] = Do("verify", 0) /\ s[4] = Do("lock", 0)
  OBVIOUS
<1>3. s[5] = Do("take", 0)
  OBVIOUS
<1>4. Len(s) = 5
  OBVIOUS
<1>5. s \in Seq(Item)
  <2>1. <<>> \in Seq(Item)
    BY Made DEF Doings, Builds
  <2>2. <<Do("freeze", 0)>> \in Seq(Item)
    BY Made DEF Doings, Builds
  <2>3. <<Do("copy", 0), Do("verify", 0), Do("lock", 0), Do("take", 0)>> \in Seq(Item)
    BY Made DEF Doings, Builds
  <2>4. <<>> \in Seq(Item)
    BY Made DEF Doings, Builds
  <2> QED
    BY <2>1, <2>2, <2>3, <2>4, Joined
<1> HIDE DEF s
<1> QED
  BY <1>1, <1>2, <1>3, <1>4, <1>5

LEMMA NativeBuilding ==
  ASSUME NEW b \in Builds, Native
  PROVE  /\ Building(mode, b) \in Seq(Item) /\ Len(Building(mode, b)) = 15
         /\ Building(mode, b)[1] = Do("source", b) /\ Building(mode, b)[2] = Do("copy", b)
         /\ Building(mode, b)[3] = Do("verify", b) /\ Building(mode, b)[4] = Do("source", b)
         /\ Building(mode, b)[5] = Check("pyo3") /\ Building(mode, b)[6] = Check("cargo")
         /\ Building(mode, b)[7] = Check("tools") /\ Building(mode, b)[8] = Do("run", b)
         /\ Building(mode, b)[9] = Check("tools") /\ Building(mode, b)[10] = Check("pyo3")
         /\ Building(mode, b)[11] = Check("cargo") /\ Building(mode, b)[12] = Do("post", b)
         /\ Building(mode, b)[13] = Do("verify", b) /\ Building(mode, b)[14] = Do("source", b)
         /\ Building(mode, b)[15] = Do("capture", b)
<1> DEFINE s == <<Do("source", b), Do("copy", b), Do("verify", b), Do("source", b)>>
             \o <<Check("pyo3"), Check("cargo"), Check("tools")>>
             \o <<Do("run", b)>>
             \o <<Check("tools"), Check("pyo3"), Check("cargo"), Do("post", b)>>
             \o <<Do("verify", b), Do("source", b), Do("capture", b)>>
<1>1. Building(mode, b) = s
  BY Zenon DEF Building, If, Native, IsNative
<1>2. s[1] = Do("source", b) /\ s[2] = Do("copy", b) /\ s[3] = Do("verify", b) /\ s[4] = Do("source", b)
  OBVIOUS
<1>3. s[5] = Check("pyo3") /\ s[6] = Check("cargo") /\ s[7] = Check("tools") /\ s[8] = Do("run", b)
  OBVIOUS
<1>4. s[9] = Check("tools") /\ s[10] = Check("pyo3") /\ s[11] = Check("cargo") /\ s[12] = Do("post", b)
  OBVIOUS
<1>5. s[13] = Do("verify", b) /\ s[14] = Do("source", b) /\ s[15] = Do("capture", b)
  OBVIOUS
<1>6. Len(s) = 15
  OBVIOUS
<1>7. s \in Seq(Item)
  <2>1. <<Do("source", b), Do("copy", b), Do("verify", b), Do("source", b)>> \in Seq(Item)
    BY Made DEF Doings, Builds
  <2>2. <<Check("pyo3"), Check("cargo"), Check("tools")>> \in Seq(Item)
    BY Made DEF Doings, Builds
  <2>3. <<Do("run", b)>> \in Seq(Item)
    BY Made DEF Doings, Builds
  <2>4. <<Check("tools"), Check("pyo3"), Check("cargo"), Do("post", b)>> \in Seq(Item)
    BY Made DEF Doings, Builds
  <2>5. <<Do("verify", b), Do("source", b), Do("capture", b)>> \in Seq(Item)
    BY Made DEF Doings, Builds
  <2> QED
    BY <2>1, <2>2, <2>3, <2>4, <2>5, Joined
<1> HIDE DEF s
<1> QED
  BY <1>1, <1>2, <1>3, <1>4, <1>5, <1>6, <1>7

LEMMA PlainBuilding ==
  ASSUME NEW b \in Builds, ~ Native
  PROVE  /\ Building(mode, b) \in Seq(Item) /\ Len(Building(mode, b)) = 8
         /\ Building(mode, b)[1] = Do("source", b) /\ Building(mode, b)[2] = Do("copy", b)
         /\ Building(mode, b)[3] = Do("verify", b) /\ Building(mode, b)[4] = Do("source", b)
         /\ Building(mode, b)[5] = Do("run", b) /\ Building(mode, b)[6] = Do("verify", b)
         /\ Building(mode, b)[7] = Do("source", b) /\ Building(mode, b)[8] = Do("capture", b)
<1> DEFINE s == <<Do("source", b), Do("copy", b), Do("verify", b), Do("source", b)>>
             \o <<>>
             \o <<Do("run", b)>>
             \o <<>>
             \o <<Do("verify", b), Do("source", b), Do("capture", b)>>
<1>1. Building(mode, b) = s
  BY Zenon DEF Building, If, Native, IsNative
<1>2. s[1] = Do("source", b) /\ s[2] = Do("copy", b) /\ s[3] = Do("verify", b) /\ s[4] = Do("source", b)
  OBVIOUS
<1>3. s[5] = Do("run", b) /\ s[6] = Do("verify", b) /\ s[7] = Do("source", b) /\ s[8] = Do("capture", b)
  OBVIOUS
<1>4. Len(s) = 8
  OBVIOUS
<1>5. s \in Seq(Item)
  <2>1. <<Do("source", b), Do("copy", b), Do("verify", b), Do("source", b)>> \in Seq(Item)
    BY Made DEF Doings, Builds
  <2>2. <<>> \in Seq(Item)
    BY Made DEF Doings, Builds
  <2>3. <<Do("run", b)>> \in Seq(Item)
    BY Made DEF Doings, Builds
  <2>4. <<>> \in Seq(Item)
    BY Made DEF Doings, Builds
  <2>5. <<Do("verify", b), Do("source", b), Do("capture", b)>> \in Seq(Item)
    BY Made DEF Doings, Builds
  <2> QED
    BY <2>1, <2>2, <2>3, <2>4, <2>5, Joined
<1> HIDE DEF s
<1> QED
  BY <1>1, <1>2, <1>3, <1>4, <1>5

LEMMA NativeClosing ==
  ASSUME Native
  PROVE  /\ Closing(mode) \in Seq(Item) /\ Len(Closing(mode)) = 13
         /\ Closing(mode)[1] = Do("reverify", 1) /\ Closing(mode)[2] = Do("reverify", 2)
         /\ Closing(mode)[3] = Do("compare", 0)
         /\ Closing(mode)[4] = Do("verify", 1) /\ Closing(mode)[5] = Do("verify", 2)
         /\ Closing(mode)[6] = Check("pyo3")
         /\ Closing(mode)[7] = Do("recapture", 1) /\ Closing(mode)[8] = Do("recapture", 2)
         /\ Closing(mode)[9] = Do("source", 0)
         /\ Closing(mode)[10] = Check("pyo3") /\ Closing(mode)[11] = Check("tools")
         /\ Closing(mode)[12] = Check("leaves")
         /\ Closing(mode)[13] = Do("issue", 0)
<1> DEFINE s == <<Do("reverify", 1), Do("reverify", 2), Do("compare", 0), Do("verify", 1), Do("verify", 2)>>
             \o <<Check("pyo3"), Do("recapture", 1), Do("recapture", 2)>>
             \o <<Do("source", 0)>>
             \o <<Check("pyo3"), Check("tools"), Check("leaves")>>
             \o <<Do("issue", 0)>>
<1>1. Closing(mode) = s
  BY Zenon DEF Closing, If, Native, IsNative
<1>2. s[1] = Do("reverify", 1) /\ s[2] = Do("reverify", 2) /\ s[3] = Do("compare", 0) /\ s[4] = Do("verify", 1)
  OBVIOUS
<1>3. s[5] = Do("verify", 2) /\ s[6] = Check("pyo3") /\ s[7] = Do("recapture", 1) /\ s[8] = Do("recapture", 2)
  OBVIOUS
<1>4. s[9] = Do("source", 0) /\ s[10] = Check("pyo3") /\ s[11] = Check("tools") /\ s[12] = Check("leaves")
  OBVIOUS
<1>5. s[13] = Do("issue", 0)
  OBVIOUS
<1>6. Len(s) = 13
  OBVIOUS
<1>7. s \in Seq(Item)
  <2>1. <<Do("reverify", 1), Do("reverify", 2), Do("compare", 0), Do("verify", 1), Do("verify", 2)>> \in Seq(Item)
    BY Made DEF Doings, Builds
  <2>2. <<Check("pyo3"), Do("recapture", 1), Do("recapture", 2)>> \in Seq(Item)
    BY Made DEF Doings, Builds
  <2>3. <<Do("source", 0)>> \in Seq(Item)
    BY Made DEF Doings, Builds
  <2>4. <<Check("pyo3"), Check("tools"), Check("leaves")>> \in Seq(Item)
    BY Made DEF Doings, Builds
  <2>5. <<Do("issue", 0)>> \in Seq(Item)
    BY Made DEF Doings, Builds
  <2> QED
    BY <2>1, <2>2, <2>3, <2>4, <2>5, Joined
<1> HIDE DEF s
<1> QED
  BY <1>1, <1>2, <1>3, <1>4, <1>5, <1>6, <1>7

LEMMA PlainClosing ==
  ASSUME ~ Native
  PROVE  /\ Closing(mode) \in Seq(Item) /\ Len(Closing(mode)) = 7
         /\ Closing(mode)[1] = Do("reverify", 1) /\ Closing(mode)[2] = Do("reverify", 2)
         /\ Closing(mode)[3] = Do("compare", 0)
         /\ Closing(mode)[4] = Do("verify", 1) /\ Closing(mode)[5] = Do("verify", 2)
         /\ Closing(mode)[6] = Do("source", 0)
         /\ Closing(mode)[7] = Do("issue", 0)
<1> DEFINE s == <<Do("reverify", 1), Do("reverify", 2), Do("compare", 0), Do("verify", 1), Do("verify", 2)>>
             \o <<>>
             \o <<Do("source", 0)>>
             \o <<>>
             \o <<Do("issue", 0)>>
<1>1. Closing(mode) = s
  BY Zenon DEF Closing, If, Native, IsNative
<1>2. s[1] = Do("reverify", 1) /\ s[2] = Do("reverify", 2) /\ s[3] = Do("compare", 0) /\ s[4] = Do("verify", 1)
  OBVIOUS
<1>3. s[5] = Do("verify", 2) /\ s[6] = Do("source", 0) /\ s[7] = Do("issue", 0)
  OBVIOUS
<1>4. Len(s) = 7
  OBVIOUS
<1>5. s \in Seq(Item)
  <2>1. <<Do("reverify", 1), Do("reverify", 2), Do("compare", 0), Do("verify", 1), Do("verify", 2)>> \in Seq(Item)
    BY Made DEF Doings, Builds
  <2>2. <<>> \in Seq(Item)
    BY Made DEF Doings, Builds
  <2>3. <<Do("source", 0)>> \in Seq(Item)
    BY Made DEF Doings, Builds
  <2>4. <<>> \in Seq(Item)
    BY Made DEF Doings, Builds
  <2>5. <<Do("issue", 0)>> \in Seq(Item)
    BY Made DEF Doings, Builds
  <2> QED
    BY <2>1, <2>2, <2>3, <2>4, <2>5, Joined
<1> HIDE DEF s
<1> QED
  BY <1>1, <1>2, <1>3, <1>4, <1>5

Mode == mode \in [driver : {"callback", "native"}, locked : BOOLEAN] /\ (Native => mode.locked)
o == IF Native \/ ~ mode.locked THEN 5 ELSE 1
w == IF Native THEN 15 ELSE 8
Base(b) == IF b = 1 THEN o ELSE o + w
RunAt(b) == Base(b) + (IF Native THEN 8 ELSE 5)
LookAt(b) == Base(b) + (IF Native THEN 13 ELSE 6)
Ending == o + w + w
Last == Ending + (IF Native THEN 13 ELSE 7)

LEMMA OpeningDoes ==
  ASSUME Mode
  PROVE  /\ Opening(mode) \in Seq(Item) /\ Len(Opening(mode)) = o
         /\ \A i \in 1..o :
              /\ Opening(mode)[i].do \in {"freeze", "copy", "verify", "lock", "take", "support"}
              /\ Opening(mode)[i].n = 0
              /\ Opening(mode)[i].do = "take" => ~ mode.locked
<1>1. CASE Native
  BY <1>1, NativeOpening DEF Mode, o, Do, Check
<1>2. CASE ~ Native /\ mode.locked
  BY <1>2, LockedOpening DEF Mode, o, Do, Check
<1>3. CASE ~ Native /\ ~ mode.locked
  BY <1>3, UnlockedOpening DEF Mode, o, Do, Check
<1> QED
  BY <1>1, <1>2, <1>3 DEF Mode

\* What a step does, apart from the step it is.
LEMMA Doing1 ==
  /\ \A what, k : Do(what, k).do = what /\ Do(what, k).n = k
  /\ \A x : Check(x).do = "support" /\ Check(x).n = 0 /\ Check(x).item = x
BY DEF Do, Check

LEMMA BuildingDoes ==
  ASSUME NEW b \in Builds
  PROVE  /\ Building(mode, b) \in Seq(Item) /\ Len(Building(mode, b)) = w
         /\ \A i \in 1..w :
              LET x == Building(mode, b)[i] IN
              /\ x.do \in {"source", "copy", "verify", "run", "post", "capture", "support"}
              /\ x.do # "support" => x.n = b
              /\ x.do = "copy" <=> i = 2
              /\ x.do = "run" <=> i = IF Native THEN 8 ELSE 5
              /\ x.do = "post" <=> Native /\ i = 12
              /\ x.do = "capture" <=> i = w
              /\ i = (IF Native THEN 13 ELSE 6) => x.do = "verify"
              /\ Native => /\ i = 9 => x = Check("tools")
                           /\ i = 10 => x = Check("pyo3")
                           /\ i = 11 => x = Check("cargo")
<1>1. CASE Native
  <2> DEFINE s == Building(mode, b)
  <2>1. s \in Seq(Item) /\ Len(s) = 15 /\ w = 15
    BY <1>1, NativeBuilding DEF w
  <2>2. /\ s[1] = Do("source", b) /\ s[2] = Do("copy", b) /\ s[3] = Do("verify", b)
        /\ s[4] = Do("source", b) /\ s[5] = Check("pyo3") /\ s[6] = Check("cargo")
        /\ s[7] = Check("tools") /\ s[8] = Do("run", b) /\ s[9] = Check("tools")
        /\ s[10] = Check("pyo3") /\ s[11] = Check("cargo") /\ s[12] = Do("post", b)
        /\ s[13] = Do("verify", b) /\ s[14] = Do("source", b) /\ s[15] = Do("capture", b)
    BY <1>1, NativeBuilding
  <2> HIDE DEF s
  <2>3. ASSUME NEW i \in 1..15
        PROVE  /\ s[i].do \in {"source", "copy", "verify", "run", "post", "capture", "support"}
               /\ s[i].do # "support" => s[i].n = b
               /\ s[i].do = "copy" <=> i = 2
               /\ s[i].do = "run" <=> i = 8
               /\ s[i].do = "post" <=> i = 12
               /\ s[i].do = "capture" <=> i = 15
               /\ i = 13 => s[i].do = "verify"
    <3>1. i \in {1, 2, 3, 4, 5, 6, 7, 8, 9, 10, 11, 12, 13, 14, 15}
      OBVIOUS
    <3> QED
      BY <2>2, <3>1, Doing1
  <2> QED
    BY <1>1, <2>1, <2>2, <2>3 DEF s
<1>2. CASE ~ Native
  <2> DEFINE s == Building(mode, b)
  <2>1. s \in Seq(Item) /\ Len(s) = 8 /\ w = 8
    BY <1>2, PlainBuilding DEF w
  <2>2. /\ s[1] = Do("source", b) /\ s[2] = Do("copy", b) /\ s[3] = Do("verify", b)
        /\ s[4] = Do("source", b) /\ s[5] = Do("run", b) /\ s[6] = Do("verify", b)
        /\ s[7] = Do("source", b) /\ s[8] = Do("capture", b)
    BY <1>2, PlainBuilding
  <2> HIDE DEF s
  <2>3. ASSUME NEW i \in 1..8
        PROVE  /\ s[i].do \in {"source", "copy", "verify", "run", "post", "capture", "support"}
               /\ s[i].n = b
               /\ s[i].do = "copy" <=> i = 2
               /\ s[i].do = "run" <=> i = 5
               /\ s[i].do # "post"
               /\ s[i].do = "capture" <=> i = 8
               /\ i = 6 => s[i].do = "verify"
    <3>1. i \in {1, 2, 3, 4, 5, 6, 7, 8}
      OBVIOUS
    <3> QED
      BY <2>2, <3>1, Doing1
  <2> QED
    BY <1>2, <2>1, <2>3 DEF s
<1> QED
  BY <1>1, <1>2

LEMMA ClosingDoes ==
  LET m == IF Native THEN 13 ELSE 7 IN
  /\ Closing(mode) \in Seq(Item) /\ Len(Closing(mode)) = m
  /\ \A i \in 1..m :
       LET x == Closing(mode)[i] IN
       /\ x.do \in {"reverify", "compare", "verify", "recapture", "source", "issue", "support"}
       /\ x.do = "verify" => x.n \in Builds
       /\ i = 3 => x.do = "compare"
       /\ x.do = "issue" <=> i = m
       /\ Native => /\ i = 7 => x = Do("recapture", 1)
                    /\ i = 8 => x = Do("recapture", 2)
                    /\ i = 12 => x = Check("leaves")
<1>1. CASE Native
  BY <1>1, NativeClosing DEF Do, Check, Builds
<1>2. CASE ~ Native
  BY <1>2, PlainClosing DEF Do, Check, Builds
<1> QED
  BY <1>1, <1>2

\* Where each step is in the script.
LEMMA Layout ==
  ASSUME Mode
  PROVE  /\ TwoBuildScript \in Seq(Item) /\ Len(TwoBuildScript) = Last
         /\ \A i \in 1..o : TwoBuildScript[i] = Opening(mode)[i]
         /\ \A b \in Builds, i \in 1..w : TwoBuildScript[Base(b) + i] = Building(mode, b)[i]
         /\ \A i \in 1..(Last - Ending) : TwoBuildScript[Ending + i] = Closing(mode)[i]
<1> DEFINE m == IF Native THEN 13 ELSE 7
           s1 == Opening(mode) \o Building(mode, 1)
           s2 == s1 \o Building(mode, 2)
<1>1. o \in Nat /\ w \in Nat /\ m \in Nat /\ Ending = o + w + w /\ Last = Ending + m
  BY DEF o, w, Ending, Last
<1>2. /\ Opening(mode) \in Seq(Item) /\ Len(Opening(mode)) = o /\ Closing(mode) \in Seq(Item) /\ Len(Closing(mode)) = m
      /\ Building(mode, 1) \in Seq(Item) /\ Len(Building(mode, 1)) = w
      /\ Building(mode, 2) \in Seq(Item) /\ Len(Building(mode, 2)) = w
  BY OpeningDoes, BuildingDoes, ClosingDoes DEF Builds
<1> HIDE DEF m
<1>3. Joins(Item, s1, Opening(mode), Building(mode, 1), o, w)
  <2>1. Joins(Item, s1, Opening(mode), Building(mode, 1), Len(Opening(mode)), Len(Building(mode, 1)))
    BY <1>2, Joining
  <2> QED
    BY <2>1, <1>2
<1>4. Joins(Item, s2, s1, Building(mode, 2), o + w, w)
  <2>1. s1 \in Seq(Item) /\ Len(s1) = o + w
    BY <1>3 DEF Joins
  <2> HIDE DEF s1
  <2>2. Joins(Item, s2, s1, Building(mode, 2), Len(s1), Len(Building(mode, 2)))
    BY <1>2, <2>1, Joining
  <2> QED
    BY <2>1, <2>2, <1>2
<1>5. Joins(Item, TwoBuildScript, s2, Closing(mode), o + w + w, m)
  <2>1. s2 \in Seq(Item) /\ Len(s2) = o + w + w
    BY <1>4 DEF Joins
  <2>2. TwoBuildScript = s2 \o Closing(mode)
    <3>1. mode \in [driver : {"callback", "native"}, locked : BOOLEAN]
      BY DEF Mode
    <3> QED
      BY <3>1 DEF TwoBuildScript, Scripts
  <2> HIDE DEF s1, s2
  <2>3. Joins(Item, TwoBuildScript, s2, Closing(mode), Len(s2), Len(Closing(mode)))
    BY <1>2, <2>1, <2>2, Joining
  <2> QED
    BY <2>1, <2>3, <1>2
<1> HIDE DEF s1, s2
<1>7. ASSUME NEW i \in 1..o PROVE TwoBuildScript[i] = Opening(mode)[i]
  <2>1. i \in 1..(o + w) /\ i \in 1..(o + w + w)
    BY <1>1
  <2> QED
    BY <2>1, <1>3, <1>4, <1>5 DEF Joins
<1>8. ASSUME NEW i \in 1..w PROVE TwoBuildScript[o + i] = Building(mode, 1)[i]
  <2>1. o + i \in 1..(o + w) /\ o + i \in 1..(o + w + w)
    BY <1>1
  <2> QED
    BY <2>1, <1>3, <1>4, <1>5 DEF Joins
<1>9. ASSUME NEW i \in 1..w PROVE TwoBuildScript[o + w + i] = Building(mode, 2)[i]
  <2>1. o + w + i \in 1..(o + w + w)
    BY <1>1
  <2> QED
    BY <2>1, <1>4, <1>5 DEF Joins
<1>10. \A b \in Builds : b = 1 \/ b = 2
  BY DEF Builds
<1>11. Last - Ending = m
  BY <1>1
<1> QED
  BY <1>1, <1>5, <1>7, <1>8, <1>9, <1>10, <1>11 DEF Base, Joins

LEMMA Numbers ==
  /\ o \in {1, 5} /\ w \in {8, 15} /\ Ending = o + w + w /\ Base(1) = o /\ Base(2) = o + w
  /\ Native => o = 5 /\ w = 15 /\ Last = Ending + 13
  /\ ~ Native => w = 8 /\ Last = Ending + 7
  /\ \A b \in Builds : /\ b = 1 \/ b = 2
                       /\ RunAt(b) = Base(b) + (IF Native THEN 8 ELSE 5)
                       /\ LookAt(b) = Base(b) + (IF Native THEN 13 ELSE 6)
BY DEF o, w, Ending, Last, Base, RunAt, LookAt, Builds

\* The step at a place ...
LEMMA Steps ==
  ASSUME Mode, step \in 1..Last
  PROVE  /\ \A b \in Builds :
              /\ step = Base(b) + 2 => Now.do = "copy" /\ n = b
              /\ step = RunAt(b) => Now.do = "run" /\ n = b
              /\ step = LookAt(b) => Now.do = "verify" /\ n = b
              /\ step = Base(b) + w => Now.do = "capture" /\ n = b
              /\ Native => /\ step = Base(b) + 9 => Now = Check("tools")
                           /\ step = Base(b) + 10 => Now = Check("pyo3")
                           /\ step = Base(b) + 11 => Now = Check("cargo")
                           /\ step = Base(b) + 12 => Now.do = "post" /\ n = b
         /\ step = Ending + 3 => Now.do = "compare"
         /\ Native => /\ step = Ending + 7 => Now = Do("recapture", 1)
                      /\ step = Ending + 8 => Now = Do("recapture", 2)
                      /\ step = Ending + 12 => Now = Check("leaves")
<1>1. ASSUME NEW b \in Builds, NEW i \in 1..w, step = Base(b) + i PROVE Now = Building(mode, b)[i]
  BY <1>1, Layout DEF Now
<1>2. ASSUME NEW i \in 1..(Last - Ending), step = Ending + i PROVE Now = Closing(mode)[i]
  BY <1>2, Layout DEF Now
<1>3. ASSUME NEW b \in Builds
      PROVE  /\ step = Base(b) + 2 => Now.do = "copy" /\ n = b
             /\ step = RunAt(b) => Now.do = "run" /\ n = b
             /\ step = LookAt(b) => Now.do = "verify" /\ n = b
             /\ step = Base(b) + w => Now.do = "capture" /\ n = b
             /\ Native => /\ step = Base(b) + 9 => Now = Check("tools")
                          /\ step = Base(b) + 10 => Now = Check("pyo3")
                          /\ step = Base(b) + 11 => Now = Check("cargo")
                          /\ step = Base(b) + 12 => Now.do = "post" /\ n = b
  <2>1. CASE Native
    <3>1. /\ w = 15 /\ RunAt(b) = Base(b) + 8 /\ LookAt(b) = Base(b) + 13
          /\ {2, 8, 9, 10, 11, 12, 13, 15} \subseteq 1..15
      BY <2>1, Numbers
    <3>2. \A i \in {2, 8, 9, 10, 11, 12, 13, 15} : step = Base(b) + i => Now = Building(mode, b)[i]
      BY <1>1, <3>1
    <3>3. /\ step = Base(b) + 2 => Now = Do("copy", b)
          /\ step = Base(b) + 8 => Now = Do("run", b)
          /\ step = Base(b) + 9 => Now = Check("tools")
          /\ step = Base(b) + 10 => Now = Check("pyo3")
          /\ step = Base(b) + 11 => Now = Check("cargo")
          /\ step = Base(b) + 12 => Now = Do("post", b)
          /\ step = Base(b) + 13 => Now = Do("verify", b)
          /\ step = Base(b) + 15 => Now = Do("capture", b)
      <4>1. /\ Building(mode, b)[2] = Do("copy", b) /\ Building(mode, b)[8] = Do("run", b)
            /\ Building(mode, b)[9] = Check("tools") /\ Building(mode, b)[10] = Check("pyo3")
            /\ Building(mode, b)[11] = Check("cargo") /\ Building(mode, b)[12] = Do("post", b)
            /\ Building(mode, b)[13] = Do("verify", b) /\ Building(mode, b)[15] = Do("capture", b)
        BY <2>1, NativeBuilding
      <4> QED
        BY <3>2, <4>1
    <3> QED
      BY <2>1, <3>1, <3>3, Doing1 DEF n
  <2>2. CASE ~ Native
    <3>1. /\ w = 8 /\ RunAt(b) = Base(b) + 5 /\ LookAt(b) = Base(b) + 6
          /\ {2, 5, 6, 8} \subseteq 1..8
      BY <2>2, Numbers
    <3>2. \A i \in {2, 5, 6, 8} : step = Base(b) + i => Now = Building(mode, b)[i]
      BY <1>1, <3>1
    <3>3. /\ step = Base(b) + 2 => Now = Do("copy", b)
          /\ step = Base(b) + 5 => Now = Do("run", b)
          /\ step = Base(b) + 6 => Now = Do("verify", b)
          /\ step = Base(b) + 8 => Now = Do("capture", b)
      <4>1. /\ Building(mode, b)[2] = Do("copy", b) /\ Building(mode, b)[5] = Do("run", b)
            /\ Building(mode, b)[6] = Do("verify", b) /\ Building(mode, b)[8] = Do("capture", b)
        BY <2>2, PlainBuilding
      <4> QED
        BY <3>2, <4>1
    <3> QED
      BY <2>2, <3>1, <3>3, Doing1 DEF n
  <2> QED
    BY <2>1, <2>2
<1>4. /\ step = Ending + 3 => Now = Closing(mode)[3]
      /\ Native => /\ step = Ending + 7 => Now = Closing(mode)[7]
                   /\ step = Ending + 8 => Now = Closing(mode)[8]
                   /\ step = Ending + 12 => Now = Closing(mode)[12]
  <2>1. 3 \in 1..(Last - Ending) /\ (Native => {7, 8, 12} \subseteq 1..(Last - Ending))
    BY Numbers
  <2> QED
    BY <1>2, <2>1
<1>5. 3 \in 1..(IF Native THEN 13 ELSE 7) /\ (Native => {7, 8, 12} \subseteq 1..13)
  OBVIOUS
<1> QED
  BY <1>3, <1>4, <1>5, ClosingDoes

\* ... and the place of a step.
LEMMA Places ==
  ASSUME Mode, step \in 1..Last
  PROVE  /\ Now \in Item
         /\ Now.do \in {"freeze", "lock", "take"} => step <= o
         /\ Now.do = "take" => ~ mode.locked
         /\ Now.do = "copy" => (n = 0 /\ step <= o) \/ (n \in Builds /\ step = Base(n) + 2)
         /\ Now.do = "run" => n \in Builds /\ step = RunAt(n)
         /\ Now.do = "post" => Native /\ n \in Builds /\ step = Base(n) + 12
         /\ Now.do = "capture" => n \in Builds /\ step = Base(n) + w
         /\ Now.do = "verify" => n \in Builds \/ step <= o
         /\ Now.do = "issue" <=> step = Last
<1>1. Now \in Item
  BY Layout DEF Now
<1>2. CASE step <= o
  <2>1. Now = Opening(mode)[step] /\ step \in 1..o /\ step # Last
    BY <1>2, Layout, Numbers DEF Now
  <2> QED
    BY <1>1, <1>2, <2>1, OpeningDoes DEF n
<1>3. ASSUME NEW b \in Builds, Base(b) < step, step <= Base(b) + w
      PROVE  /\ Now = Building(mode, b)[step - Base(b)] /\ step - Base(b) \in 1..w /\ step # Last
             /\ Base(b) \in Nat
  <2>1. step - Base(b) \in 1..w /\ Base(b) + (step - Base(b)) = step /\ step # Last /\ Base(b) \in Nat
    BY <1>3, Numbers
  <2> QED
    BY <2>1, Layout DEF Now
<1>4. ASSUME NEW b \in Builds, Base(b) < step, step <= Base(b) + w
      PROVE  /\ Now.do \in {"source", "copy", "verify", "run", "post", "capture", "support"}
             /\ Now.do # "support" => Now.n = b
             /\ Now.do = "copy" => step = Base(b) + 2
             /\ Now.do = "run" => step = RunAt(b)
             /\ Now.do = "post" => Native /\ step = Base(b) + 12
             /\ Now.do = "capture" => step = Base(b) + w
  <2> DEFINE i == step - Base(b)
  <2>1. Now = Building(mode, b)[i] /\ i \in 1..w /\ Base(b) \in Nat /\ i = step - Base(b)
    BY <1>3, <1>4
  <2> HIDE DEF i
  <2>2. /\ Now.do \in {"source", "copy", "verify", "run", "post", "capture", "support"}
        /\ Now.do # "support" => Now.n = b
        /\ Now.do = "copy" <=> i = 2
        /\ Now.do = "run" <=> i = IF Native THEN 8 ELSE 5
        /\ Now.do = "post" <=> Native /\ i = 12
        /\ Now.do = "capture" <=> i = w
    BY <2>1, BuildingDoes
  <2>3. RunAt(b) = Base(b) + (IF Native THEN 8 ELSE 5)
    BY Numbers
  <2> QED
    BY <2>1, <2>2, <2>3
<1>5. CASE o < step /\ step <= Ending
  <2>1. PICK b \in Builds : Base(b) < step /\ step <= Base(b) + w
    <3>1. step <= o + w \/ o + w < step
      BY Numbers
    <3> QED
      BY <1>5, <3>1, Numbers DEF Builds
  <2>2. step # Last
    BY <1>3, <2>1
  <2> QED
    BY <1>1, <1>4, <2>1, <2>2 DEF n
<1>6. CASE Ending < step
  <2> DEFINE i == step - Ending
             m == IF Native THEN 13 ELSE 7
  <2>1. i \in 1..(Last - Ending) /\ Ending + i = step /\ Last - Ending = m /\ (i = m <=> step = Last)
    BY <1>6, Numbers
  <2>2. Now = Closing(mode)[i]
    BY <2>1, Layout DEF Now
  <2> HIDE DEF i
  <2>3. /\ Now.do \in {"reverify", "compare", "verify", "recapture", "source", "issue", "support"}
        /\ Now.do = "verify" => Now.n \in Builds
        /\ Now.do = "issue" <=> i = m
    BY <2>1, <2>2, ClosingDoes
  <2> QED
    BY <1>1, <2>1, <2>3 DEF n
<1> QED
  BY <1>2, <1>5, <1>6, Numbers

-----------------------------------------------------------------------------
(* Types.                                                                   *)
Types ==
  /\ Mode /\ mode \in [driver : Modes, locked : BOOLEAN]
  /\ meddled \in 0..Meddlings
  /\ source \in Tree /\ frozen \in Tree
  /\ project \in [Copies -> Tree]
  /\ support \in [Support -> Contents]
  /\ artifact \in [Builds -> MaybeResult] /\ output \in [Builds -> MaybeResult]
  /\ retained \in [Builds -> MaybeResult] /\ captured \in [Builds -> MaybeResult]
  /\ made \in [Builds -> MaybeResult]
  /\ step \in 1..Last
  /\ got \in Seq(Contents) /\ Len(got) <= Wanted
  /\ instants \subseteq Tree /\ exchanged \subseteq Builds
  /\ restored \in [source : SUBSET Files, copies : SUBSET (Builds \X Files),
                   support : SUBSET (Builds \X (Support \ Stamped))]
  /\ outcome \in {"running", "refused", "issued"}

LEMMA InMode == Types => Mode /\ step \in 1..Last
BY DEF Types

LEMMA Sizes ==
  /\ Size \in Nat /\ Size > 1 /\ Files = 0..(Size - 1) /\ Members + 5 = Size + 4
  /\ Lock \in Files /\ Meddlings \in Nat
  /\ Len(Supports) = 4 /\ DOMAIN Supports = 1..4
  /\ \A i \in 1..4 : Supports[i] \in Support
  /\ Supports[1] = "pyo3" /\ Supports[2] = "cargo" /\ Supports[3] = "tools"
  /\ Supports[4] = "leaves"
BY TwoBuildAssumption DEF Size, Files, Lock, Supports, Support

\* A walk reads file 0, 1, ... and then file 0, 1, ... once more.
LEMMA Rounds ==
  ASSUME NEW k \in Nat
  PROVE  /\ k < Size => k % Size = k
         /\ Size <= k /\ k < 2 * Size => k % Size = k - Size
<1>1. Size \in Nat /\ Size > 0
  BY Sizes
<1>2. k % Size \in 0..(Size - 1) /\ k = Size * (k \div Size) + (k % Size) /\ k \div Size \in Int
  BY <1>1
<1>3. ASSUME k < Size PROVE k \div Size = 0
  BY <1>1, <1>2, <1>3
<1>4. ASSUME Size <= k, k < 2 * Size PROVE k \div Size = 1
  BY <1>1, <1>2, <1>4
<1> QED
  BY <1>1, <1>2, <1>3, <1>4

LEMMA Wanting ==
  ASSUME Types
  PROVE  /\ Wanted \in Nat
         /\ Now.do = "run" => Wanted = Size + 4
         /\ Now.do # "run" => Wanted = 2 * Size
BY Sizes DEF Wanted

LEMMA Next1Read ==
  ASSUME Types, Reading
  PROVE  LET k == Len(got) IN
         /\ NextRead \in Contents
         /\ Now.do = "run" /\ k < Size => NextRead = project[n][k]
         /\ Now.do = "run" /\ k >= Size =>
              /\ k - Size + 1 \in 1..4
              /\ NextRead = support[Supports[k - Size + 1]]
         /\ OverSource /\ k < Size => NextRead = source[k]
         /\ OverSource /\ k >= Size => k - Size \in Files /\ NextRead = source[k - Size]
         /\ Now.do = "verify" /\ k < Size => NextRead = project[n][k]
<1> DEFINE k == Len(got)
<1>1. /\ k \in Nat /\ k < Wanted /\ Size \in Nat /\ Size > 1
      /\ Now.do \in Walks \cup {"run"} /\ n \in Copies
  BY Sizes, Places, InMode DEF Reading, Item, n, Copies
<1>2. /\ k < Size => k % Size = k
      /\ Size <= k /\ k < 2 * Size => k % Size = k - Size
  BY <1>1, Rounds
<1>3. CASE Now.do = "run" /\ k >= Size
  <2>1. k - Size + 1 \in 1..4 /\ Supports[k - Size + 1] \in Support
    <3>1. Wanted = Size + 4
      BY <1>3, Wanting
    <3>2. k - Size + 1 \in 1..4
      BY <1>1, <1>3, <3>1
    <3> QED
      BY <3>2, Sizes
  <2>2. NextRead = support[Supports[k - Size + 1]]
    <3>1. ~ OverSource
      BY <1>3 DEF OverSource
    <3> QED
      BY <1>3, <3>1 DEF NextRead
  <2>3. ~ OverSource /\ Now.do # "verify"
    BY <1>3 DEF OverSource
  <2>4. NextRead \in Contents
    BY <2>1, <2>2 DEF Types, Tree
  <2> QED
    BY <1>1, <1>3, <2>1, <2>2, <2>3, <2>4
<1>4. CASE OverSource
  <2>1. Now.do \notin {"run", "verify"} /\ k < 2 * Size
    BY <1>1, <1>4, Wanting DEF OverSource
  <2>2. NextRead = source[k % Size]
    BY <1>4, <2>1 DEF NextRead
  <2>3. k % Size \in Files
    BY <1>1, <1>2, <2>1, Sizes
  <2> QED
    BY <1>1, <1>2, <2>1, <2>2, <2>3 DEF Types, Tree
<1>5. CASE ~ OverSource /\ ~ (Now.do = "run" /\ k >= Size)
  <2>1. k < 2 * Size
    BY <1>1, <1>5, Wanting
  <2>2. NextRead = project[n][k % Size]
    BY <1>5 DEF NextRead
  <2>3. k % Size \in Files
    BY <1>1, <1>2, <2>1, Sizes
  <2>4. NextRead \in Contents
    BY <1>1, <2>2, <2>3 DEF Types, Tree
  <2> QED
    BY <1>1, <1>2, <1>5, <2>1, <2>2, <2>4
<1> QED
  BY <1>3, <1>4, <1>5

LEMMA FirstIs ==
  ASSUME Types, Walked
  PROVE  /\ Len(got) = 2 * Size /\ FirstPass \in Tree
         /\ \A f \in Files : f + 1 \in 1..Len(got) /\ f + 1 + Size \in 1..Len(got)
<1>1. Len(got) = 2 * Size
  BY Wanting DEF Walked, Walks
<1>2. \A f \in Files : f + 1 \in 1..Len(got) /\ f + 1 + Size \in 1..Len(got)
  BY <1>1, Sizes
<1>3. \A f \in Files : got[f + 1] \in Contents
  BY <1>2 DEF Types
<1> QED
  BY <1>1, <1>2, <1>3 DEF FirstPass, Tree

LEMMA TypesInit == TwoBuildInit => Types
<1> SUFFICES ASSUME TwoBuildInit PROVE Types
  OBVIOUS
<1>1. mode \in [driver : Modes, locked : BOOLEAN] /\ (mode.driver = "native" => mode.locked)
  BY DEF TwoBuildInit
<1>2. Mode
  BY <1>1, TwoBuildAssumption DEF Mode, Native, IsNative
<1>3. /\ meddled = 0 /\ step = 1 /\ got = <<>> /\ instants = {} /\ outcome = "running"
      /\ exchanged = {} /\ restored = [source |-> {}, copies |-> {}, support |-> {}]
  BY DEF TwoBuildInit
<1>4. Absent \in Contents /\ Original \in Contents
  BY TwoBuildAssumption DEF Absent, Original
<1>5. source \in Tree /\ frozen \in Tree /\ project \in [Copies -> Tree]
  BY <1>4 DEF TwoBuildInit, NoTree, Tree
<1>6. support \in [Support -> Contents]
  BY <1>4 DEF TwoBuildInit
<1>7. NoResult \in MaybeResult
  BY DEF MaybeResult
<1>8. /\ artifact \in [Builds -> MaybeResult] /\ output \in [Builds -> MaybeResult]
      /\ retained \in [Builds -> MaybeResult] /\ captured \in [Builds -> MaybeResult]
      /\ made \in [Builds -> MaybeResult]
  BY <1>7 DEF TwoBuildInit
<1>9. 1 \in 1..Last /\ meddled \in 0..Meddlings
  BY <1>3, Numbers, Sizes
<1>10. Len(got) <= Wanted
  BY <1>3, Sizes DEF Wanted
<1> QED
  BY <1>1, <1>2, <1>3, <1>5, <1>6, <1>8, <1>9, <1>10 DEF Types

-----------------------------------------------------------------------------
(* What a step does, whichever it is.                                       *)
MadeHere(b, r) ==
  /\ Now.do = "run" /\ n = b /\ step' = step + 1 /\ Len(got) = Size + 4
  /\ r # NoResult /\ r.read = got

\* Nothing is put back in the copies or the support material.
NothingBack == restored'.copies = restored.copies /\ restored'.support = restored.support

\* What the accepted step was about.
Accepted ==
  /\ Now.do \in Walks => Walked
  /\ Now.do = "freeze" => MayFreeze /\ frozen' = FirstPass
  /\ Now.do = "source" => Stable /\ FirstPass = InSource(frozen)
  /\ Now.do = "verify" => FirstPass = frozen
  /\ Now.do = "take" => OnlyLockMade /\ frozen' = FirstPass
  /\ Now.do = "copy" => project'[n] = frozen
  /\ Now.do \notin {"freeze", "take"} => frozen' = frozen
  /\ Now.do = "support" => support[Now.item] = Original
  /\ Now.do = "run" => /\ MadeHere(n, made'[n]) /\ artifact'[n] = made'[n]
                       /\ ~ Native => output'[n] = made'[n]
  /\ Now.do = "post" => retained'[n] = artifact[n] /\ output'[n] = artifact[n]
  /\ Now.do = "capture" => captured'[n] = output[n]
  /\ Now.do = "compare" => captured[1] = captured[2]
  /\ Now.do = "recapture" => retained[n] = captured[n]

Moves ==
  \/ step' = step /\ frozen' = frozen /\ got' \in {got, <<>>}
  \/ /\ step' = step /\ Reading /\ got' = Append(got, NextRead) /\ NothingBack
     /\ UNCHANGED <<disk, memory, made>>
  \/ /\ step' = step + 1 /\ got' = <<>> /\ Now.do # "issue" /\ Accepted
     /\ UNCHANGED <<source, support, instants, restored>>

\* What was changed in a copy since it was frozen, or in the support material
\* since it was recorded, is only undone by putting it back, which is noted
\* from the time the tool of a build begins to read.
Writes ==
  /\ restored.copies \subseteq restored'.copies /\ restored.support \subseteq restored'.support
  /\ \A b \in Builds, x \in Support :
       \/ support'[x] = support[x] \/ support'[x] # Original
       \/ b \notin Users(x) \/ <<b, x>> \in restored'.support
  /\ \A c \in Builds :
       \/ \A f \in Files : \/ project'[c][f] = project[c][f]
                           \/ frozen' = frozen /\ project'[c][f] # frozen[f]
                           \/ ~ Open(c) \/ <<c, f>> \in restored'.copies
       \/ step' = step + 1 /\ Now.do = "copy" /\ n = c /\ project'[c] = frozen

\* Where the results of build b come from.
Comes(b) ==
  /\ b \in exchanged => b \in exchanged'
  /\ made'[b] = made[b] \/ MadeHere(b, made'[b])
  /\ \/ artifact'[b] = artifact[b]
     \/ MadeHere(b, made'[b]) /\ artifact'[b] = made'[b]
     \/ /\ artifact[b] # NoResult /\ artifact'[b] # NoResult
        /\ Native /\ (Untaken(b) => b \in exchanged')
  /\ \/ output'[b] = output[b]
     \/ MadeHere(b, made'[b]) /\ output'[b] = made'[b]
     \/ step' = step + 1 /\ Now.do = "post" /\ n = b /\ output'[b] = artifact[b]
     \/ /\ output[b] # NoResult /\ output'[b] # NoResult
        /\ ~ Native /\ Untaken(b) => b \in exchanged'
  /\ \/ retained'[b] = retained[b]
     \/ step' = step + 1 /\ Now.do = "post" /\ n = b /\ retained'[b] = artifact[b]
  /\ \/ captured'[b] = captured[b]
     \/ step' = step + 1 /\ Now.do = "capture" /\ n = b /\ captured'[b] = output[b]

Effect == mode' = mode /\ Moves /\ Writes /\ (\A b \in Builds : Comes(b))
          /\ (outcome' = "issued" => outcome = "issued" \/ (Now.do = "issue" /\ step' = step))

LEMMA Quiet ==
  ASSUME UNCHANGED support, NothingBack,
         \A c \in Builds : \/ project'[c] = project[c]
                           \/ step' = step + 1 /\ Now.do = "copy" /\ n = c /\ project'[c] = frozen
  PROVE  Writes
BY DEF Writes, NothingBack

\* A step that only goes on, or gives up.
LEMMA IdleStep ==
  ASSUME mode' = mode, UNCHANGED disk, UNCHANGED memory, UNCHANGED <<made, exchanged>>,
         NothingBack, Moves,
         outcome' = "issued" => outcome = "issued" \/ (Now.do = "issue" /\ step' = step)
  PROVE  Effect
<1>1. UNCHANGED <<source, support, project, artifact, output, frozen, retained, captured>>
  BY DEF disk, memory
<1>2. Writes
  BY <1>1, Quiet
<1>3. \A b \in Builds : Comes(b)
  BY <1>1 DEF Comes
<1> QED
  BY <1>2, <1>3 DEF Effect

LEMMA NothingHappens == ASSUME UNCHANGED past
                        PROVE  UNCHANGED <<instants, made, exchanged, restored>> /\ NothingBack
BY DEF past, NothingBack

LEMMA GivesUp == ASSUME Types, Refuse PROVE Effect
<1>1. Moves
  BY DEF Refuse, Moves, memory
<1>2. /\ mode' = mode /\ UNCHANGED disk /\ UNCHANGED memory /\ UNCHANGED past
      /\ outcome' = "refused"
  BY DEF Refuse
<1> QED
  BY <1>1, <1>2, IdleStep, NothingHappens

LEMMA Compared ==
  ASSUME Types, NEW same, Compare(same), outcome = "running",
         Now.do \in Walks => Walked,
         Now.do \in {"source", "verify", "support", "reverify", "compare", "recapture"},
         same => /\ Now.do = "source" => Stable /\ FirstPass = InSource(frozen)
                 /\ Now.do = "verify" => FirstPass = frozen
                 /\ Now.do = "support" => support[Now.item] = Original
                 /\ Now.do = "compare" => captured[1] = captured[2]
                 /\ Now.do = "recapture" => retained[n] = captured[n]
  PROVE  Effect
<1>1. CASE Refuse
  BY <1>1, GivesUp
<1>2. CASE same /\ Onward /\ UNCHANGED <<mode, disk, memory, meddled, outcome, past>>
  <2>1. /\ step' = step + 1 /\ got' = <<>> /\ frozen' = frozen /\ outcome' = "running"
        /\ UNCHANGED <<source, support, instants, restored, made, exchanged>> /\ NothingBack
    BY <1>2, NothingHappens DEF Onward, disk, memory
  <2>2. Accepted
    BY <1>2, <2>1 DEF Accepted
  <2>3. Moves
    BY <2>1, <2>2 DEF Moves
  <2> QED
    BY <1>2, <2>1, <2>3, IdleStep
<1> QED
  BY <1>1, <1>2 DEF Compare

LEMMA ReadDoes == ASSUME Types, Read PROVE Effect
<1>1. NothingBack /\ UNCHANGED <<made, exchanged>>
  <2>1. CASE UNCHANGED <<instants, restored>>
    BY <2>1 DEF Read, NothingBack
  <2>2. CASE restored' = [restored EXCEPT !.source = {}]
    <3>1. restored'.copies = restored.copies /\ restored'.support = restored.support
      BY <2>2 DEF Types
    <3> QED
      BY <3>1 DEF Read, NothingBack
  <2> QED
    BY <2>1, <2>2 DEF Read
<1>2. Moves
  BY <1>1 DEF Read, Moves
<1> QED
  BY <1>1, <1>2, IdleStep DEF Read

LEMMA FreezeDoes == ASSUME Types, Freeze PROVE Effect
<1>1. CASE Refuse
  BY <1>1, GivesUp
<1>2. CASE ~ Refuse
  <2>1. /\ Now.do = "freeze" /\ Walked /\ MayFreeze /\ frozen' = FirstPass /\ Onward
        /\ UNCHANGED <<mode, disk, retained, captured, meddled, outcome, past>>
        /\ outcome = "running"
    BY <1>2 DEF Freeze, Doing
  <2>2. /\ UNCHANGED <<source, support, project, artifact, output>>
        /\ UNCHANGED <<instants, made, exchanged, restored>> /\ NothingBack
    BY <2>1, NothingHappens DEF disk
  <2>3. Accepted
    BY <2>1 DEF Accepted
  <2>4. Moves
    BY <2>1, <2>2, <2>3 DEF Moves, Onward
  <2>5. Writes
    BY <2>1, <2>2, Quiet
  <2>6. \A b \in Builds : Comes(b)
    BY <2>1, <2>2 DEF Comes
  <2> QED
    BY <2>1, <2>4, <2>5, <2>6 DEF Effect
<1> QED
  BY <1>1, <1>2

LEMMA TakeLockDoes == ASSUME Types, TakeLock PROVE Effect
<1>1. CASE Refuse
  BY <1>1, GivesUp
<1>2. CASE ~ Refuse
  <2>1. /\ Now.do = "take" /\ Walked /\ OnlyLockMade /\ frozen' = FirstPass /\ Onward
        /\ project' = [project EXCEPT ![0] = NoTree]
        /\ UNCHANGED <<mode, source, support, artifact, output, retained,
                       captured, meddled, outcome, past>>
        /\ outcome = "running"
    BY <1>2 DEF TakeLock, Doing
  <2>1a. UNCHANGED <<instants, made, exchanged, restored>> /\ NothingBack
    BY <2>1, NothingHappens
  <2>2. \A c \in Builds : project'[c] = project[c]
    BY <2>1 DEF Types, Builds, Copies
  <2>3. Accepted
    BY <2>1 DEF Accepted
  <2>4. Moves
    BY <2>1, <2>1a, <2>3 DEF Moves, Onward
  <2>5. Writes
    BY <2>1, <2>1a, <2>2, Quiet
  <2>6. \A b \in Builds : Comes(b)
    BY <2>1, <2>1a DEF Comes
  <2> QED
    BY <2>1, <2>4, <2>5, <2>6 DEF Effect
<1> QED
  BY <1>1, <1>2

LEMMA CopyDoes == ASSUME Types, Materialize PROVE Effect
<1>1. /\ Now.do = "copy" /\ Onward /\ project' = [project EXCEPT ![n] = frozen]
      /\ UNCHANGED <<mode, source, support, artifact, output, memory,
                     meddled, outcome, past>>
      /\ outcome = "running"
  BY DEF Materialize, Doing
<1>2. /\ UNCHANGED <<frozen, retained, captured>> /\ n \in Copies /\ step' = step + 1
      /\ UNCHANGED <<instants, made, exchanged, restored>> /\ NothingBack
  BY <1>1, Places, InMode, NothingHappens DEF memory, Item, n, Copies, Onward
<1>3. \A c \in Builds : project'[c] = project[c] \/ (n = c /\ project'[c] = frozen)
  BY <1>1, <1>2 DEF Types, Builds, Copies
<1>4. Accepted
  <2>1. project'[n] = frozen
    BY <1>1, <1>2 DEF Types
  <2> QED
    BY <1>1, <1>2, <2>1 DEF Accepted, Walks
<1>5. Moves
  BY <1>1, <1>2, <1>4 DEF Moves, Onward
<1>6. Writes
  BY <1>1, <1>2, <1>3, Quiet
<1>7. \A b \in Builds : Comes(b)
  BY <1>1, <1>2 DEF Comes
<1> QED
  BY <1>1, <1>5, <1>6, <1>7 DEF Effect

LEMMA LockDoes == ASSUME Types, GenerateLock PROVE Effect
<1>1. CASE Refuse
  BY <1>1, GivesUp
<1>2. CASE ~ Refuse
  <2>1. /\ Now.do = "lock" /\ Onward /\ project' = [project EXCEPT ![0][Lock] = Original]
        /\ UNCHANGED <<mode, source, support, artifact, output, memory,
                       meddled, outcome, past>>
        /\ outcome = "running"
    BY <1>2 DEF GenerateLock, Doing
  <2>2. /\ UNCHANGED <<frozen, retained, captured>>
        /\ UNCHANGED <<instants, made, exchanged, restored>> /\ NothingBack
    BY <2>1, NothingHappens DEF memory
  <2>3. \A c \in Builds : project'[c] = project[c]
    BY <2>1 DEF Types, Builds, Copies
  <2>4. Accepted
    BY <2>1, <2>2 DEF Accepted, Walks
  <2>5. Moves
    BY <2>1, <2>2, <2>4 DEF Moves, Onward
  <2>6. Writes
    BY <2>1, <2>2, <2>3, Quiet
  <2>7. \A b \in Builds : Comes(b)
    BY <2>1, <2>2 DEF Comes
  <2> QED
    BY <2>1, <2>5, <2>6, <2>7 DEF Effect
<1> QED
  BY <1>1, <1>2

LEMMA ToolMakes == ASSUME Types, RunTool PROVE Effect
<1>1. CASE Refuse
  BY <1>1, GivesUp
<1>2. CASE ~ Refuse
  <2>1. PICK flavour \in 1..n :
          LET product == [read |-> got, flavour |-> flavour] IN
            /\ made' = [made EXCEPT ![n] = product]
            /\ artifact' = [artifact EXCEPT ![n] = product]
            /\ output' = IF Native THEN output ELSE [output EXCEPT ![n] = product]
            /\ Onward
            /\ UNCHANGED <<mode, source, support, project, memory, meddled,
                           outcome, instants, exchanged, restored>>
    BY <1>2 DEF RunTool
  <2> DEFINE product == [read |-> got, flavour |-> flavour]
  <2>2. /\ made' = [made EXCEPT ![n] = product]
        /\ artifact' = [artifact EXCEPT ![n] = product]
        /\ output' = IF Native THEN output ELSE [output EXCEPT ![n] = product]
        /\ step' = step + 1 /\ got' = <<>>
        /\ UNCHANGED <<mode, source, support, project, frozen, retained, captured,
                       outcome, instants, exchanged, restored>>
    BY <2>1 DEF Onward, memory
  <2>3. /\ Now.do = "run" /\ Len(got) = Size + 4 /\ n \in Builds /\ outcome = "running"
        /\ Size + 4 # 0
    BY Wanting, Places, InMode, Sizes DEF RunTool, Doing
  <2>4. product.read = got /\ product # NoResult
    <3>1. NoResult.read = <<>> /\ got # <<>>
      BY <2>3 DEF NoResult
    <3> QED
      BY <3>1
  <2>5. MadeHere(n, product)
    BY <2>2, <2>3, <2>4 DEF MadeHere
  <2> HIDE DEF product
  <2>6. /\ made'[n] = product /\ artifact'[n] = product /\ (~ Native => output'[n] = product)
        /\ Native => output' = output
        /\ \A b \in Builds \ {n} :
             made'[b] = made[b] /\ artifact'[b] = artifact[b] /\ output'[b] = output[b]
    BY <2>2, <2>3 DEF Types
  <2>7. Accepted
    BY <2>2, <2>3, <2>5, <2>6 DEF Accepted, Walks
  <2>8. Moves
    BY <2>2, <2>3, <2>7 DEF Moves
  <2>9. Writes
    BY <2>2, Quiet DEF NothingBack
  <2>10. \A b \in Builds : Comes(b)
    <3>1. SUFFICES ASSUME NEW b \in Builds PROVE Comes(b)
      OBVIOUS
    <3>2. CASE b = n
      BY <2>2, <2>5, <2>6, <3>2 DEF Comes
    <3>3. CASE b # n
      BY <2>2, <2>6, <3>3 DEF Comes
    <3> QED
      BY <3>2, <3>3
  <2> QED
    BY <2>2, <2>3, <2>8, <2>9, <2>10 DEF Effect
<1> QED
  BY <1>1, <1>2

LEMMA PostDoes == ASSUME Types, Postprocess PROVE Effect
<1>1. /\ Now.do = "post" /\ outcome = "running" /\ n \in Builds
      /\ retained' = [retained EXCEPT ![n] = artifact[n]]
      /\ output' = [output EXCEPT ![n] = artifact[n]]
      /\ step' = step + 1 /\ got' = <<>>
      /\ UNCHANGED <<mode, source, support, project, artifact, frozen,
                     captured, outcome, instants, made, exchanged, restored>>
      /\ NothingBack
  BY Places, InMode, NothingHappens DEF Postprocess, Doing, Onward
<1>2. /\ retained'[n] = artifact[n] /\ output'[n] = artifact[n]
      /\ \A b \in Builds \ {n} : retained'[b] = retained[b] /\ output'[b] = output[b]
  BY <1>1 DEF Types
<1>3. Accepted
  BY <1>1, <1>2 DEF Accepted, Walks
<1>4. Moves
  BY <1>1, <1>3 DEF Moves
<1>5. Writes
  BY <1>1, Quiet
<1>6. \A b \in Builds : Comes(b)
  BY <1>1, <1>2 DEF Comes
<1> QED
  BY <1>1, <1>4, <1>5, <1>6 DEF Effect

LEMMA CaptureDoes == ASSUME Types, CaptureOutput PROVE Effect
<1>1. /\ Now.do = "capture" /\ outcome = "running" /\ n \in Builds
      /\ captured' = [captured EXCEPT ![n] = output[n]]
      /\ step' = step + 1 /\ got' = <<>>
      /\ UNCHANGED <<mode, source, support, project, artifact, output, frozen,
                     retained, outcome, instants, made, exchanged, restored>>
      /\ NothingBack
  BY Places, InMode, NothingHappens DEF CaptureOutput, Doing, Onward, disk
<1>2. /\ captured'[n] = output[n]
      /\ \A b \in Builds \ {n} : captured'[b] = captured[b]
  BY <1>1 DEF Types
<1>3. Accepted
  BY <1>1, <1>2 DEF Accepted, Walks
<1>4. Moves
  BY <1>1, <1>3 DEF Moves
<1>5. Writes
  BY <1>1, Quiet
<1>6. \A b \in Builds : Comes(b)
  BY <1>1, <1>2 DEF Comes
<1> QED
  BY <1>1, <1>4, <1>5, <1>6 DEF Effect

LEMMA LookingDoes ==
  ASSUME Types,
         SourceUnchanged \/ VerifyProject \/ CheckSupport \/ Reverify \/ CompareBuilds \/ Recapture
  PROVE  Effect
<1>1. CASE SourceUnchanged
  <2> DEFINE same == Stable /\ FirstPass = InSource(frozen)
  <2>1. Now.do = "source" /\ outcome = "running" /\ Walked /\ Compare(same)
    BY <1>1 DEF SourceUnchanged, Doing
  <2>2. same => Stable /\ FirstPass = InSource(frozen)
    OBVIOUS
  <2> HIDE DEF same
  <2> QED
    BY <2>1, <2>2, Compared
<1>2. CASE VerifyProject
  <2> DEFINE same == Stable /\ FirstPass = frozen
  <2>1. Now.do = "verify" /\ outcome = "running" /\ Walked /\ Compare(same)
    BY <1>2 DEF VerifyProject, Doing
  <2>2. same => FirstPass = frozen
    OBVIOUS
  <2> HIDE DEF same
  <2> QED
    BY <2>1, <2>2, Compared
<1>3. CASE CheckSupport
  BY <1>3, Compared DEF CheckSupport, Doing, Walks
<1>4. CASE Reverify
  BY <1>4, Compared DEF Reverify, Doing, Walks
<1>5. CASE CompareBuilds
  BY <1>5, Compared DEF CompareBuilds, Doing, Walks
<1>6. CASE Recapture
  <2> DEFINE same == output[n] = retained[n] /\ retained[n] = captured[n]
  <2>1. Now.do = "recapture" /\ outcome = "running" /\ Compare(same)
    BY <1>6 DEF Recapture, Doing
  <2>2. same => retained[n] = captured[n]
    OBVIOUS
  <2> HIDE DEF same
  <2> QED
    BY <2>1, <2>2, Compared DEF Walks
<1> QED
  BY <1>1, <1>2, <1>3, <1>4, <1>5, <1>6

LEMMA IssueDoes == ASSUME Types, Issue PROVE Effect
<1>1. Moves
  BY DEF Issue, Moves, memory
<1> QED
  BY <1>1, IdleStep, NothingHappens DEF Issue, Doing

\* The kinds of writes of others: what each leaves alone, and what it records.
LEMMA MeddleDoes == ASSUME Types, Meddle PROVE Effect
<1>1. /\ outcome = "running"
      /\ UNCHANGED <<mode, frozen, retained, captured, step, got, outcome, made>>
  BY DEF Meddle, memory
<1>2. Moves
  BY <1>1 DEF Moves
<1>3. SUFFICES Writes /\ (\A b \in Builds : Comes(b))
  BY <1>1, <1>2 DEF Effect
<1>4. UNCHANGED <<artifact, output, exchanged>> => \A b \in Builds : Comes(b)
  BY <1>1 DEF Comes
<1>5. CASE WriteSource
  <2>1. /\ UNCHANGED <<support, project, artifact, output, exchanged>>
        /\ restored' = restored \/ \E f \in Files : restored' = [restored EXCEPT !.source = @ \cup {f}]
    BY <1>5 DEF WriteSource
  <2>2. NothingBack
    BY <2>1 DEF Types, NothingBack
  <2> QED
    BY <1>4, <2>1, <2>2, Quiet
<1>6. CASE WriteCopy
  <2>1. PICK c \in Copies, f \in Files, v \in Contents :
          /\ project' = [project EXCEPT ![c][f] = v]
          /\ restored' = IF v = frozen[f] /\ c \in Builds /\ Open(c)
                           THEN [restored EXCEPT !.copies = @ \cup {<<c, f>>}]
                           ELSE restored
          /\ UNCHANGED <<source, support, artifact, output, instants, exchanged>>
    BY <1>6 DEF WriteCopy, Other
  <2>2. /\ restored.copies \subseteq restored'.copies /\ restored'.support = restored.support
        /\ v = frozen[f] /\ c \in Builds /\ Open(c) => <<c, f>> \in restored'.copies
    BY <2>1 DEF Types
  <2>3. ASSUME NEW b \in Builds, NEW g \in Files
        PROVE  \/ project'[b][g] = project[b][g]
               \/ frozen' = frozen /\ project'[b][g] # frozen[g]
               \/ ~ Open(b) \/ <<b, g>> \in restored'.copies
    <3>1. b \in Copies /\ DOMAIN project = Copies /\ DOMAIN project[b] = Files
          /\ DOMAIN project[c] = Files
      BY DEF Builds, Copies, Types, Tree
    <3>2. CASE b = c /\ g = f
      <4>1. project'[b][g] = v
        BY <2>1, <3>1, <3>2
      <4> QED
        BY <1>1, <2>2, <3>2, <4>1
    <3>3. CASE ~ (b = c /\ g = f)
      <4>1. project'[b][g] = project[b][g]
        BY <2>1, <3>1, <3>3
      <4> QED
        BY <4>1
    <3> QED
      BY <3>2, <3>3
  <2>4. Writes
    BY <2>1, <2>2, <2>3 DEF Writes
  <2> QED
    BY <1>4, <2>1, <2>4
<1>7. CASE WriteSupport
  <2>1. PICK x \in Support, v \in Contents :
          /\ support' = [support EXCEPT ![x] = v]
          /\ restored' = IF v = Original
                           THEN [restored EXCEPT !.support = @ \cup (Users(x) \X {x})]
                           ELSE restored
          /\ UNCHANGED <<source, project, artifact, output, instants, exchanged>>
    BY <1>7 DEF WriteSupport, Other
  <2>2. /\ restored.support \subseteq restored'.support /\ restored'.copies = restored.copies
        /\ v = Original => \A b \in Users(x) : <<b, x>> \in restored'.support
    BY <2>1 DEF Types
  <2>3. \A b \in Builds, y \in Support :
          \/ support'[y] = support[y] \/ support'[y] # Original
          \/ b \notin Users(y) \/ <<b, y>> \in restored'.support
    BY <2>1, <2>2 DEF Types
  <2>4. Writes
    BY <2>1, <2>2, <2>3 DEF Writes
  <2> QED
    BY <1>4, <2>1, <2>4
<1>8. CASE WriteArtifact
  <2>1. PICK c \in Builds, bytes \in Bytes :
          /\ Native /\ artifact[c] # NoResult
          /\ artifact' = [artifact EXCEPT ![c] = bytes]
          /\ exchanged' = IF Untaken(c) THEN exchanged \cup {c} ELSE exchanged
          /\ UNCHANGED <<source, support, project, output, instants, restored>>
    BY <1>8 DEF WriteArtifact
  <2>2. bytes # NoResult
    BY DEF Bytes
  <2>3. ASSUME NEW b \in Builds PROVE Comes(b)
    <3>1. CASE b = c
      <4>1. artifact'[b] = bytes
        BY <2>1, <3>1 DEF Types
      <4> QED
        BY <1>1, <2>1, <2>2, <3>1, <4>1 DEF Comes
    <3>2. CASE b # c
      <4>1. artifact'[b] = artifact[b]
        BY <2>1, <3>2 DEF Types
      <4> QED
        BY <1>1, <2>1, <3>2, <4>1 DEF Comes
    <3> QED
      BY <3>1, <3>2
  <2>4. Writes
    BY <2>1, Quiet DEF NothingBack
  <2> QED
    BY <2>3, <2>4
<1>9. CASE WriteOutput
  <2>1. PICK c \in Builds, bytes \in Bytes :
          /\ output[c] # NoResult
          /\ output' = [output EXCEPT ![c] = bytes]
          /\ exchanged' = IF ~ Native /\ Untaken(c) THEN exchanged \cup {c} ELSE exchanged
          /\ UNCHANGED <<source, support, project, artifact, instants, restored>>
    BY <1>9 DEF WriteOutput
  <2>2. bytes # NoResult
    BY DEF Bytes
  <2>3. ASSUME NEW b \in Builds PROVE Comes(b)
    <3>1. CASE b = c
      <4>1. output'[b] = bytes
        BY <2>1, <3>1 DEF Types
      <4> QED
        BY <1>1, <2>1, <2>2, <3>1, <4>1 DEF Comes
    <3>2. CASE b # c
      <4>1. output'[b] = output[b]
        BY <2>1, <3>2 DEF Types
      <4> QED
        BY <1>1, <2>1, <3>2, <4>1 DEF Comes
    <3> QED
      BY <3>1, <3>2
  <2>4. Writes
    BY <2>1, Quiet DEF NothingBack
  <2> QED
    BY <2>3, <2>4
<1> QED
  BY <1>5, <1>6, <1>7, <1>8, <1>9 DEF Meddle

LEMMA Effects == Types /\ [TwoBuildNext]_twoBuildVars => Effect
<1> SUFFICES ASSUME Types, [TwoBuildNext]_twoBuildVars PROVE Effect
  OBVIOUS
<1>1. CASE UNCHANGED twoBuildVars
  <2>1. /\ mode' = mode /\ UNCHANGED disk /\ UNCHANGED memory /\ UNCHANGED past
        /\ step' = step /\ got' = got /\ outcome' = outcome /\ frozen' = frozen
    BY <1>1 DEF twoBuildVars, memory
  <2>2. Moves
    BY <2>1 DEF Moves
  <2> QED
    BY <2>1, <2>2, IdleStep, NothingHappens
<1> QED
  BY <1>1, ReadDoes, FreezeDoes, TakeLockDoes, CopyDoes, LockDoes, ToolMakes, PostDoes,
     CaptureDoes, LookingDoes, IssueDoes, MeddleDoes DEF TwoBuildNext, Execute, Ended

-----------------------------------------------------------------------------
LEMMA SameMode ==
  ASSUME mode' = mode
  PROVE  /\ Native' = Native /\ o' = o /\ w' = w /\ Ending' = Ending /\ Last' = Last
         /\ Mode' = Mode
         /\ \A b \in Builds : /\ Base(b)' = Base(b) /\ RunAt(b)' = RunAt(b)
                              /\ LookAt(b)' = LookAt(b)
BY DEF Native, o, w, Ending, Last, Mode, Base, RunAt, LookAt

LEMMA SameStep ==
  ASSUME mode' = mode, step' = step
  PROVE  /\ Now' = Now /\ n' = n /\ OverSource' = OverSource /\ Native' = Native
         /\ Wanted' = Wanted
BY DEF Now, n, OverSource, Native, TwoBuildScript, Wanted

\* What is on disk and in memory.
Data ==
  /\ meddled \in 0..Meddlings
  /\ source \in Tree /\ frozen \in Tree
  /\ project \in [Copies -> Tree]
  /\ support \in [Support -> Contents]
  /\ artifact \in [Builds -> MaybeResult] /\ output \in [Builds -> MaybeResult]
  /\ retained \in [Builds -> MaybeResult] /\ captured \in [Builds -> MaybeResult]
  /\ made \in [Builds -> MaybeResult]
  /\ instants \subseteq Tree /\ exchanged \subseteq Builds
  /\ restored \in [source : SUBSET Files, copies : SUBSET (Builds \X Files),
                   support : SUBSET (Builds \X (Support \ Stamped))]
  /\ outcome \in {"running", "refused", "issued"}

LEMMA TypesFromData ==
  ASSUME Types, Effect, Data', (step' = step => \/ got' \in {got, <<>>}
                                                \/ Reading /\ got' = Append(got, NextRead))
  PROVE  Types'
<1>1. mode' = mode /\ Moves
  BY DEF Effect
<1>2. Mode' /\ mode' \in [driver : Modes, locked : BOOLEAN] /\ Last' = Last
  BY <1>1, SameMode DEF Types
<1>4. CASE step' = step
  <2>2. Wanted' = Wanted
    BY <1>1, <1>4, SameStep
  <2>3. got' \in Seq(Contents) /\ Len(got') <= Wanted
    <3>1. CASE got' \in {got, <<>>}
      <4>1. got \in Seq(Contents) /\ Len(got) <= Wanted
        BY DEF Types
      <4>2. <<>> \in Seq(Contents) /\ Len(<<>>) <= Wanted
        BY Wanting
      <4> QED
        BY <3>1, <4>1, <4>2
    <3>2. CASE Reading /\ got' = Append(got, NextRead)
      <4>1. NextRead \in Contents /\ Len(got) < Wanted
        BY <3>2, Next1Read DEF Reading
      <4>2. got' \in Seq(Contents) /\ Len(got') = Len(got) + 1
        BY <3>2, <4>1 DEF Types
      <4> QED
        BY <4>1, <4>2, Wanting DEF Types
    <3> QED
      BY <1>4, <3>1, <3>2
  <2> QED
    BY <1>2, <1>4, <2>2, <2>3 DEF Types, Data
<1>5. CASE step' = step + 1 /\ got' = <<>> /\ Now.do # "issue"
  <2>1. step # Last
    BY <1>5, Places, InMode
  <2>2. step' \in 1..Last'
    BY <1>2, <1>5, <2>1, Numbers DEF Types
  <2>3. got' \in Seq(Contents) /\ Len(got') <= Wanted'
    BY <1>5, Sizes DEF Wanted
  <2> QED
    BY <1>2, <2>2, <2>3 DEF Types, Data
<1> QED
  BY <1>1, <1>4, <1>5 DEF Moves

LEMMA Noting ==
  ASSUME NEW A, NEW B, NEW C, NEW r \in [source : A, copies : B, support : C]
  PROVE  /\ r.source \in A /\ r.copies \in B /\ r.support \in C
         /\ \A x \in A : [r EXCEPT !.source = x] \in [source : A, copies : B, support : C]
         /\ \A x \in B : [r EXCEPT !.copies = x] \in [source : A, copies : B, support : C]
         /\ \A x \in C : [r EXCEPT !.support = x] \in [source : A, copies : B, support : C]
OBVIOUS

LEMMA MeddleTypes == ASSUME Types, Meddle PROVE Data'
<1>1. /\ meddled' = meddled + 1 /\ meddled < Meddlings
      /\ UNCHANGED <<frozen, retained, captured, outcome, made>>
  BY DEF Meddle, memory
<1>2. meddled' \in 0..Meddlings
  <2>1. Meddlings \in Nat /\ meddled \in 0..Meddlings
    BY Sizes DEF Types
  <2> QED
    BY <1>1, <2>1
<1> DEFINE Rest == /\ source' \in Tree /\ project' \in [Copies -> Tree]
                   /\ support' \in [Support -> Contents]
                   /\ artifact' \in [Builds -> MaybeResult] /\ output' \in [Builds -> MaybeResult]
                   /\ instants' \subseteq Tree /\ exchanged' \subseteq Builds
                   /\ restored' \in [source : SUBSET Files, copies : SUBSET (Builds \X Files),
                                     support : SUBSET (Builds \X (Support \ Stamped))]
<1>3. SUFFICES Rest
  BY <1>1, <1>2 DEF Types, Data
<1>4. CASE WriteSource
  <2>1. PICK f \in Files, v \in Contents :
          /\ source' = [source EXCEPT ![f] = v]
          /\ \/ UNCHANGED <<instants, restored>>
             \/ /\ instants' = instants \cup {source'}
                /\ restored' = restored \/ restored' = [restored EXCEPT !.source = @ \cup {f}]
          /\ UNCHANGED <<support, project, artifact, output, exchanged>>
    BY <1>4 DEF WriteSource, Other
  <2>2. source' \in Tree
    BY <2>1 DEF Types, Tree
  <2>3. instants' \subseteq Tree
    BY <2>1, <2>2 DEF Types
  <2>4. restored' \in [source : SUBSET Files, copies : SUBSET (Builds \X Files),
                      support : SUBSET (Builds \X (Support \ Stamped))]
    <3>1. restored \in [source : SUBSET Files, copies : SUBSET (Builds \X Files),
                       support : SUBSET (Builds \X (Support \ Stamped))]
      BY DEF Types
    <3>2. restored.source \cup {f} \in SUBSET Files
      BY <3>1
    <3> QED
      BY <2>1, <3>1, <3>2, Noting
  <2> QED
    BY <2>1, <2>2, <2>3, <2>4 DEF Types
<1>5. CASE WriteCopy
  <2>1. PICK c \in Copies, f \in Files, v \in Contents :
          /\ project' = [project EXCEPT ![c][f] = v]
          /\ \/ c \in Builds /\ restored' = [restored EXCEPT !.copies = @ \cup {<<c, f>>}]
             \/ restored' = restored
          /\ UNCHANGED <<source, support, artifact, output, instants, exchanged>>
    BY <1>5 DEF WriteCopy, Other
  <2>2. [project[c] EXCEPT ![f] = v] \in Tree
    BY DEF Types, Tree
  <2>3. project' = [project EXCEPT ![c] = [project[c] EXCEPT ![f] = v]]
    BY <2>1
  <2>4. project' \in [Copies -> Tree]
    BY <2>2, <2>3 DEF Types
  <2>5. restored' \in [source : SUBSET Files, copies : SUBSET (Builds \X Files),
                      support : SUBSET (Builds \X (Support \ Stamped))]
    <3>1. restored \in [source : SUBSET Files, copies : SUBSET (Builds \X Files),
                       support : SUBSET (Builds \X (Support \ Stamped))]
      BY DEF Types
    <3>2. c \in Builds => restored.copies \cup {<<c, f>>} \in SUBSET (Builds \X Files)
      <4>1. restored.copies \in SUBSET (Builds \X Files)
        BY <3>1
      <4> QED
        BY <4>1
    <3> QED
      BY <2>1, <3>1, <3>2, Noting
  <2> QED
    BY <2>1, <2>4, <2>5 DEF Types
<1>6. CASE WriteSupport
  <2>1. PICK x \in Support, v \in Contents :
          /\ v = Original => x \notin Stamped
          /\ support' = [support EXCEPT ![x] = v]
          /\ restored' = IF v = Original
                           THEN [restored EXCEPT !.support = @ \cup (Users(x) \X {x})]
                           ELSE restored
          /\ UNCHANGED <<source, project, artifact, output, instants, exchanged>>
    BY <1>6 DEF WriteSupport, Other
  <2>2. support' \in [Support -> Contents]
    BY <2>1 DEF Types
  <2>3. restored' \in [source : SUBSET Files, copies : SUBSET (Builds \X Files),
                      support : SUBSET (Builds \X (Support \ Stamped))]
    <3>1. restored \in [source : SUBSET Files, copies : SUBSET (Builds \X Files),
                       support : SUBSET (Builds \X (Support \ Stamped))]
      BY DEF Types
    <3>2. v = Original =>
            restored.support \cup (Users(x) \X {x}) \in SUBSET (Builds \X (Support \ Stamped))
      <4>1. restored.support \in SUBSET (Builds \X (Support \ Stamped))
        BY <3>1
      <4>2. Users(x) \subseteq Builds
        BY DEF Users
      <4> QED
        BY <2>1, <4>1, <4>2
    <3> QED
      BY <2>1, <3>1, <3>2, Noting
  <2> QED
    BY <2>1, <2>2, <2>3 DEF Types
<1>7. Bytes \subseteq MaybeResult
  BY DEF Bytes, Types, MaybeResult
<1>8. CASE WriteArtifact
  <2>1. PICK c \in Builds, bytes \in MaybeResult :
          /\ artifact' = [artifact EXCEPT ![c] = bytes]
          /\ exchanged' = exchanged \cup {c} \/ exchanged' = exchanged
          /\ UNCHANGED <<source, support, project, output, instants, restored>>
    BY <1>7, <1>8 DEF WriteArtifact
  <2> QED
    BY <2>1 DEF Types
<1>9. CASE WriteOutput
  <2>1. PICK c \in Builds, bytes \in MaybeResult :
          /\ output' = [output EXCEPT ![c] = bytes]
          /\ exchanged' = exchanged \cup {c} \/ exchanged' = exchanged
          /\ UNCHANGED <<source, support, project, artifact, instants, restored>>
    BY <1>7, <1>9 DEF WriteOutput
  <2> QED
    BY <2>1 DEF Types
<1> QED
  BY <1>4, <1>5, <1>6, <1>8, <1>9 DEF Meddle

LEMMA TypesStep == Types /\ [TwoBuildNext]_twoBuildVars => Types'
<1> SUFFICES ASSUME Types, [TwoBuildNext]_twoBuildVars PROVE Types'
  OBVIOUS
<1>1. Effect /\ Data
  BY Effects DEF Types, Data
<1> DEFINE Goes == step' = step => \/ got' \in {got, <<>>}
                                   \/ Reading /\ got' = Append(got, NextRead)
<1>2. Goes
  BY <1>1 DEF Effect, Moves
<1> SUFFICES Data'
  BY <1>1, <1>2, TypesFromData
\* Nothing but what is being read, where the script is, and how it ends.
<1>4. ASSUME UNCHANGED disk, UNCHANGED memory, UNCHANGED meddled, UNCHANGED past,
             outcome' \in {"running", "refused", "issued"}
      PROVE  Data'
  <2>1. UNCHANGED <<instants, made, exchanged, restored>>
    BY <1>4, NothingHappens
  <2> QED
    BY <1>1, <1>4, <2>1 DEF Data, disk, memory
<1>5. CASE Read
  <2>1. /\ UNCHANGED disk /\ UNCHANGED memory /\ UNCHANGED <<meddled, outcome, made, exchanged>>
        /\ \/ UNCHANGED <<instants, restored>>
           \/ instants' = {source} /\ restored' = [restored EXCEPT !.source = {}]
    BY <1>5 DEF Read
  <2>2. instants' \subseteq Tree
    BY <1>1, <2>1 DEF Data
  <2>3. restored' \in [source : SUBSET Files, copies : SUBSET (Builds \X Files),
                      support : SUBSET (Builds \X (Support \ Stamped))]
    BY <1>1, <2>1 DEF Data
  <2> QED
    BY <1>1, <2>1, <2>2, <2>3 DEF Data, disk, memory
<1>6. CASE Refuse
  <2>1. UNCHANGED disk /\ UNCHANGED memory /\ UNCHANGED meddled /\ UNCHANGED past
        /\ outcome' = "refused"
    BY <1>6 DEF Refuse
  <2> QED
    BY <1>1, <1>4, <2>1 DEF Data
<1>7. CASE SourceUnchanged \/ VerifyProject \/ CheckSupport \/ Reverify \/ CompareBuilds \/ Recapture
  <2>1. PICK same : Compare(same)
    BY <1>7, Zenon DEF SourceUnchanged, VerifyProject, CheckSupport, Reverify, CompareBuilds,
       Recapture
  <2> QED
    BY <1>1, <1>4, <1>6, <2>1 DEF Compare, Data
<1>8. CASE Issue \/ UNCHANGED twoBuildVars
  <2>1. UNCHANGED disk /\ UNCHANGED memory /\ UNCHANGED meddled /\ UNCHANGED past
        /\ outcome' \in {"issued", outcome}
    BY <1>8 DEF Issue, twoBuildVars
  <2> QED
    BY <1>1, <1>4, <2>1 DEF Data
<1>9. CASE Freeze \/ TakeLock
  <2>1. SUFFICES ASSUME ~ Refuse PROVE Data'
    BY <1>6
  <2>2. /\ frozen' = FirstPass /\ Walked
        /\ project' = project \/ project' = [project EXCEPT ![0] = NoTree]
        /\ UNCHANGED <<source, support, artifact, output, retained, captured, meddled,
                       outcome, instants, made, exchanged, restored>>
    BY <1>9, <2>1, NothingHappens DEF Freeze, TakeLock, disk
  <2>3. FirstPass \in Tree
    BY <2>2, FirstIs
  <2>4. NoTree \in Tree
    BY TwoBuildAssumption DEF NoTree, Absent, Tree
  <2>5. project' \in [Copies -> Tree]
    BY <1>1, <2>2, <2>4 DEF Data
  <2> QED
    BY <1>1, <2>2, <2>3, <2>5 DEF Data
<1>10. CASE Materialize \/ GenerateLock
  <2>1. SUFFICES ASSUME ~ Refuse PROVE Data'
    BY <1>6
  <2>2. /\ \/ project' = [project EXCEPT ![n] = frozen]
           \/ project' = [project EXCEPT ![0][Lock] = Original]
        /\ UNCHANGED <<source, support, artifact, output, frozen, retained, captured, meddled,
                       outcome, instants, made, exchanged, restored>>
    BY <1>10, <2>1, NothingHappens DEF Materialize, GenerateLock, memory
  <2>3. Original \in Contents /\ 0 \in Copies
    BY TwoBuildAssumption DEF Original, Copies
  <2>4. project' \in [Copies -> Tree]
    <3>1. CASE project' = [project EXCEPT ![n] = frozen]
      BY <1>1, <3>1 DEF Data
    <3>2. CASE project' = [project EXCEPT ![0][Lock] = Original]
      <4>1. [project[0] EXCEPT ![Lock] = Original] \in Tree
        BY <1>1, <2>3 DEF Data, Tree
      <4> QED
        BY <1>1, <3>2, <4>1 DEF Data
    <3> QED
      BY <2>2, <3>1, <3>2
  <2> QED
    BY <1>1, <2>2, <2>4 DEF Data
<1>11. CASE RunTool
  <2>1. SUFFICES ASSUME ~ Refuse PROVE Data'
    BY <1>6
  <2>2. PICK flavour \in 1..n :
          LET product == [read |-> got, flavour |-> flavour] IN
            /\ made' = [made EXCEPT ![n] = product]
            /\ artifact' = [artifact EXCEPT ![n] = product]
            /\ output' = IF Native THEN output ELSE [output EXCEPT ![n] = product]
            /\ Onward
            /\ UNCHANGED <<mode, source, support, project, memory, meddled,
                           outcome, instants, exchanged, restored>>
    BY <1>11, <2>1 DEF RunTool
  <2> DEFINE product == [read |-> got, flavour |-> flavour]
  <2>3. /\ made' = [made EXCEPT ![n] = product]
        /\ artifact' = [artifact EXCEPT ![n] = product]
        /\ output' = IF Native THEN output ELSE [output EXCEPT ![n] = product]
        /\ UNCHANGED <<source, support, project, frozen, retained, captured, meddled,
                       outcome, instants, exchanged, restored>>
    BY <2>2 DEF memory
  <2>4. product \in MaybeResult
    <3>1. Len(got) = Members + 5
      BY <1>11, Wanting, Sizes DEF RunTool, Doing
    <3>2. got \in [1..(Members + 5) -> Contents]
      BY <3>1 DEF Types
    <3>3. flavour \in Builds
      <4>1. n \in Builds
        BY <1>11, Places, InMode DEF RunTool, Doing
      <4> QED
        BY <4>1 DEF Builds
    <3> QED
      BY <3>2, <3>3 DEF Result, MaybeResult
  <2> HIDE DEF product
  <2>5. /\ artifact' \in [Builds -> MaybeResult] /\ output' \in [Builds -> MaybeResult]
        /\ made' \in [Builds -> MaybeResult]
    BY <1>1, <2>3, <2>4 DEF Data
  <2> QED
    BY <1>1, <2>3, <2>5 DEF Data
<1>12. CASE Postprocess \/ CaptureOutput
  <2>1. /\ n \in Builds
        /\ output' = [output EXCEPT ![n] = artifact[n]] \/ output' = output
        /\ retained' = [retained EXCEPT ![n] = artifact[n]] \/ retained' = retained
        /\ captured' = [captured EXCEPT ![n] = output[n]] \/ captured' = captured
        /\ UNCHANGED <<source, support, project, artifact, frozen, meddled, outcome, instants,
                       made, exchanged, restored>>
    BY <1>12, Places, InMode, NothingHappens DEF Postprocess, CaptureOutput, Doing, disk
  <2>2. /\ output' \in [Builds -> MaybeResult] /\ retained' \in [Builds -> MaybeResult]
        /\ captured' \in [Builds -> MaybeResult]
    BY <1>1, <2>1 DEF Data
  <2> QED
    BY <1>1, <2>1, <2>2 DEF Data
<1>13. CASE Meddle
  BY <1>13, MeddleTypes
<1> QED
  BY <1>5, <1>6, <1>7, <1>8, <1>9, <1>10, <1>11, <1>12, <1>13
     DEF TwoBuildNext, Execute, Ended

\* Every variable stays within its type.
THEOREM TwoBuildTyped == TwoBuildSpec => []TwoBuildTypeOK
<1>1. Types => TwoBuildTypeOK
  <2> SUFFICES ASSUME Types PROVE TwoBuildTypeOK
    OBVIOUS
  <2>1. step \in DOMAIN TwoBuildScript
    BY Layout DEF Types
  <2> QED
    BY <2>1 DEF Types, TwoBuildTypeOK
<1> QED
  BY TypesInit, TypesStep, <1>1, PTL DEF TwoBuildSpec

-----------------------------------------------------------------------------
(* A walk over the source tree is a snapshot.  A file that is not changed   *)
(* and changed back holds what both passes found in it all the time from    *)
(* one to the other, so that the tree as it stood between the two passes is *)
(* what they read.                                                          *)
FreezeAt == IF Native THEN 4 ELSE 1

LEMMA FreezePlace ==
  ASSUME Types
  PROVE  /\ FreezeAt <= o /\ FreezeAt \in Nat
         /\ step = FreezeAt <=> Now.do = "freeze"
         /\ Now.do = "take" => FreezeAt = 1 /\ step = 5 /\ o = 5
<1>1. Mode /\ step \in 1..Last
  BY DEF Types
<1>2. FreezeAt <= o /\ FreezeAt \in Nat /\ (Native => o = 5) /\ 4 \in Nat
  BY <1>1, Numbers DEF FreezeAt
<1>3. ASSUME step \in 1..o
      PROVE  /\ step = FreezeAt <=> Now.do = "freeze"
             /\ Now.do = "take" => FreezeAt = 1 /\ step = 5 /\ o = 5
  <2>1. Now = Opening(mode)[step]
    BY <1>1, <1>3, Layout DEF Now
  <2>2. CASE Native
    <3>1. step \in {1, 2, 3, 4, 5} /\ mode.locked
      BY <1>1, <1>2, <1>3, <2>2 DEF Mode
    <3> QED
      BY <2>1, <2>2, <3>1, NativeOpening, Doing1 DEF FreezeAt
  <2>3. CASE ~ Native /\ mode.locked
    <3>1. step = 1
      BY <1>3, <2>3 DEF o
    <3> QED
      BY <2>1, <2>3, <3>1, LockedOpening, Doing1 DEF FreezeAt
  <2>4. CASE ~ Native /\ ~ mode.locked
    <3>1. step \in {1, 2, 3, 4, 5} /\ o = 5
      BY <1>3, <2>4 DEF o
    <3> QED
      BY <2>1, <2>4, <3>1, UnlockedOpening, Doing1 DEF FreezeAt
  <2> QED
    BY <2>2, <2>3, <2>4
<1>4. ASSUME ~ (step \in 1..o) PROVE step # FreezeAt /\ Now.do \notin {"freeze", "take"}
  BY <1>1, <1>2, <1>4, Places, Numbers
<1> QED
  BY <1>2, <1>3, <1>4

\* The state s of the source tree was there between the two passes of the walk.
Between(s) ==
  \A f \in Files \ restored.source :
    /\ source[f] = got[f + 1] => s[f] = got[f + 1]
    /\ f + 1 + Size <= Len(got) /\ got[f + 1 + Size] = got[f + 1] => s[f] = got[f + 1]

Passing ==
  OverSource /\ got # <<>> =>
    /\ source \in instants
    /\ \A f \in Files : f + 1 <= Len(got) => \E s \in instants : s[f] = got[f + 1]
    /\ Len(got) >= Size => \E s \in instants : Between(s)

Taken ==
  /\ outcome = "issued" => Now.do = "issue"
  /\ ~ mode.locked /\ step <= o => frozen[Lock] = Absent
  /\ step <= FreezeAt => frozen = NoTree
  /\ (/\ outcome # "refused" /\ step > FreezeAt
      /\ ~ (OverSource /\ got # <<>>) /\ restored.source = {})
     => InSource(frozen) \in instants

SnapInv == Types /\ Passing /\ Taken

LEMMA SnapInit == TwoBuildInit => SnapInv
<1> SUFFICES ASSUME TwoBuildInit PROVE SnapInv
  OBVIOUS
<1>1. Types
  BY TypesInit
<1>2. got = <<>> /\ step = 1 /\ frozen = NoTree /\ outcome = "running"
  BY DEF TwoBuildInit
<1>3. FreezeAt \in {1, 4} /\ frozen[Lock] = Absent
  BY <1>2, Sizes DEF FreezeAt, NoTree
<1>4. ~ (step > FreezeAt)
  BY <1>2, <1>3
<1>5. Taken
  BY <1>2, <1>3, <1>4 DEF Taken
<1>6. Passing
  BY <1>2 DEF Passing
<1> QED
  BY <1>1, <1>5, <1>6 DEF SnapInv

\* Apart from reading and from what others do, a step leaves the source tree,
\* and a walk it does not end stands still.
LEMMA Otherwise ==
  ASSUME Types, [TwoBuildNext]_twoBuildVars, ~ Read, ~ Meddle
  PROVE  /\ UNCHANGED <<source, instants, restored>>
         /\ got' = <<>> \/ UNCHANGED <<got, step>>
<1>0. UNCHANGED past => UNCHANGED <<instants, restored>>
  BY NothingHappens
<1>1. CASE Refuse
  BY <1>0, <1>1 DEF Refuse, disk
<1>2. CASE Onward /\ UNCHANGED <<source, instants, restored>>
  BY <1>2 DEF Onward
<1>3. CASE Freeze \/ TakeLock \/ Materialize \/ GenerateLock \/ RunTool \/ Postprocess
           \/ CaptureOutput
  BY <1>0, <1>1, <1>2, <1>3
     DEF Freeze, TakeLock, Materialize, GenerateLock, RunTool, Postprocess, CaptureOutput, disk
<1>4. CASE SourceUnchanged \/ VerifyProject \/ CheckSupport \/ Reverify \/ CompareBuilds \/ Recapture
  <2>1. PICK same : Compare(same)
    BY <1>4, Zenon DEF SourceUnchanged, VerifyProject, CheckSupport, Reverify, CompareBuilds,
       Recapture
  <2> QED
    BY <1>0, <1>1, <1>2, <2>1 DEF Compare, disk
<1>5. CASE Issue \/ UNCHANGED twoBuildVars
  BY <1>0, <1>5 DEF Issue, twoBuildVars, disk
<1> QED
  BY <1>3, <1>4, <1>5 DEF TwoBuildNext, Execute, Ended

LEMMA PassingStep == SnapInv /\ [TwoBuildNext]_twoBuildVars => Passing'
<1> SUFFICES ASSUME SnapInv, [TwoBuildNext]_twoBuildVars, (OverSource /\ got # <<>>)'
             PROVE  /\ source' \in instants'
                    /\ \A f \in Files : f + 1 <= Len(got') => \E s \in instants' : s[f] = got'[f + 1]
                    /\ Len(got') >= Size => \E s \in instants' : Between(s)'
  BY DEF Passing
<1>1. Types /\ Passing /\ Types' /\ Effect
  BY TypesStep, Effects DEF SnapInv
<1>2. /\ source \in Tree /\ got \in Seq(Contents)
      /\ Size \in Nat /\ Size > 1 /\ Files = 0..(Size - 1)
  BY <1>1, Sizes DEF Types
<1>3. CASE Read
  <2> DEFINE k == Len(got)
  <2>1. /\ Reading /\ got' = Append(got, NextRead) /\ UNCHANGED <<source, step, mode>>
        /\ IF OverSource /\ got = <<>>
             THEN instants' = {source}
             ELSE UNCHANGED <<instants, restored>>
    BY <1>3 DEF Read, disk
  <2>2. OverSource
    BY <2>1, SameStep
  <2>3. /\ k \in Nat /\ k < 2 * Size /\ NextRead \in Contents
        /\ k < Size => NextRead = source[k]
        /\ k >= Size => k - Size \in Files /\ NextRead = source[k - Size]
    <3>1. Now.do # "run"
      BY <2>2 DEF OverSource
    <3> QED
      BY <1>1, <1>2, <2>1, <2>2, <3>1, Next1Read, Wanting DEF Reading
  <2>4. /\ Len(got') = k + 1 /\ got'[k + 1] = NextRead
        /\ \A i \in 1..k : got'[i] = got[i]
    BY <1>2, <2>1, <2>3
  <2>5. CASE got = <<>>
    <3>1. k = 0 /\ instants' = {source} /\ got'[1] = source[0] /\ Len(got') = 1
      BY <1>2, <2>1, <2>2, <2>3, <2>4, <2>5
    <3>2. ~ (Len(got') >= Size) /\ source' \in instants'
      BY <1>2, <2>1, <3>1
    <3>3. ASSUME NEW f \in Files, f + 1 <= Len(got') PROVE \E s \in instants' : s[f] = got'[f + 1]
      <4>1. f = 0
        BY <1>2, <3>1, <3>3
      <4> QED
        BY <3>1, <4>1
    <3> QED
      BY <3>2, <3>3
  <2>6. CASE got # <<>>
    <3>1. /\ instants' = instants /\ restored' = restored /\ source \in instants
          /\ \A f \in Files : f + 1 <= k => \E s \in instants : s[f] = got[f + 1]
          /\ k >= Size => \E s \in instants : Between(s)
      BY <1>1, <2>1, <2>2, <2>6 DEF Passing
    <3>2. ASSUME NEW f \in Files, f + 1 <= Len(got') PROVE \E s \in instants' : s[f] = got'[f + 1]
      <4>1. CASE f + 1 <= k
        <5>1. f + 1 \in 1..k
          BY <1>2, <2>3, <4>1
        <5> QED
          BY <2>4, <3>1, <4>1, <5>1
      <4>2. CASE f = k
        <5>1. got'[f + 1] = source[f]
          BY <1>2, <2>3, <2>4, <4>2
        <5> QED
          BY <3>1, <5>1
      <4> QED
        BY <1>2, <2>3, <2>4, <3>2, <4>1, <4>2
    <3>3. CASE k + 1 < Size
      <4>1. ~ (Len(got') >= Size)
        BY <1>2, <2>3, <2>4, <3>3
      <4> QED
        BY <2>1, <3>1, <3>2, <4>1
    <3>4. CASE k + 1 = Size
      <4>1. Between(source)'
        <5>1. \A f \in Files : ~ (f + 1 + Size <= Len(got'))
          BY <1>2, <2>3, <2>4, <3>4
        <5> QED
          BY <2>1, <5>1 DEF Between
      <4> QED
        BY <2>1, <3>1, <3>2, <4>1
    <3>5. CASE k + 1 > Size
      <4>1. PICK s \in instants : Between(s)
        BY <1>2, <2>3, <3>1, <3>5
      <4>2. ASSUME NEW f \in Files \ restored.source
            PROVE  /\ source'[f] = got'[f + 1] => s[f] = got'[f + 1]
                   /\ f + 1 + Size <= Len(got') /\ got'[f + 1 + Size] = got'[f + 1]
                        => s[f] = got'[f + 1]
        <5>1. /\ source[f] = got[f + 1] => s[f] = got[f + 1]
              /\ f + 1 + Size <= k /\ got[f + 1 + Size] = got[f + 1] => s[f] = got[f + 1]
          BY <4>1 DEF Between
        <5>2. f + 1 \in 1..k /\ f + 1 + Size \in Nat /\ f + 1 + Size > 0
          BY <1>2, <2>3, <3>5
        <5>3. f + 1 + Size = k + 1 => got'[f + 1 + Size] = source[f]
          BY <1>2, <2>3, <2>4, <3>5
        <5>4. f + 1 + Size <= k + 1 => f + 1 + Size \in 1..k \/ f + 1 + Size = k + 1
          BY <2>3, <5>2
        <5>5. got'[f + 1] = got[f + 1]
          BY <2>4, <5>2
        <5>6. CASE f + 1 + Size <= k
          <6>1. f + 1 + Size \in 1..k
            BY <2>3, <5>2, <5>6
          <6> QED
            BY <2>1, <2>4, <5>1, <5>5, <5>6, <6>1
        <5>7. CASE f + 1 + Size = k + 1
          BY <2>1, <5>1, <5>3, <5>5, <5>7
        <5>8. CASE ~ (f + 1 + Size <= k + 1)
          BY <2>1, <2>4, <5>1, <5>5, <5>8
        <5> QED
          BY <2>3, <5>2, <5>4, <5>6, <5>7, <5>8
      <4>3. Between(s)'
        BY <3>1, <4>2 DEF Between
      <4> QED
        BY <2>1, <3>1, <3>2, <4>3
    <3> QED
      BY <1>2, <2>3, <3>3, <3>4, <3>5
  <2> QED
    BY <2>5, <2>6
<1>4. CASE Meddle
  <2>1. /\ UNCHANGED <<mode, step, got>>
        /\ WriteSource \/ WriteCopy \/ WriteSupport \/ WriteArtifact \/ WriteOutput
    BY <1>4 DEF Meddle
  <2>2. OverSource /\ got # <<>>
    BY <2>1, SameStep
  <2>3. /\ source \in instants
        /\ \A f \in Files : f + 1 <= Len(got) => \E s \in instants : s[f] = got[f + 1]
        /\ Len(got) >= Size => \E s \in instants : Between(s)
    BY <1>1, <2>2 DEF Passing
  <2>4. CASE WriteSource
    <3>1. PICK f \in Files, v \in Contents :
            /\ source' = [source EXCEPT ![f] = v]
            /\ instants' = instants \cup {source'}
            /\ restored' = IF ComesBack(f, v)
                             THEN [restored EXCEPT !.source = @ \cup {f}]
                             ELSE restored
      BY <2>2, <2>4 DEF WriteSource, Other
    <3>2. /\ restored.source \subseteq restored'.source
          /\ ComesBack(f, v) => f \in restored'.source
      BY <1>1, <3>1 DEF Types
    <3>3. ASSUME NEW g \in Files, g \notin restored'.source, Len(got) >= Size
          PROVE  source'[g] = got[g + 1] => source[g] = got[g + 1]
      <4>1. CASE g = f
        <5>1. ~ ComesBack(f, v) /\ source'[g] = v
          BY <1>2, <3>1, <3>2, <3>3, <4>1 DEF Tree
        <5>2. g + 1 <= Len(got)
          BY <1>2, <3>3
        <5>3. \E s \in instants : s[g] = got[g + 1]
          BY <2>3, <5>2
        <5>4. got[g + 1] \in {t[f] : t \in instants}
          BY <4>1, <5>3
        <5> QED
          BY <5>1, <5>4 DEF ComesBack
      <4>2. CASE g # f
        BY <1>2, <3>1, <4>2 DEF Tree
      <4> QED
        BY <4>1, <4>2
    <3>4. ASSUME Len(got) >= Size PROVE \E s \in instants' : Between(s)'
      <4>1. PICK s \in instants : Between(s)
        BY <2>3, <3>4
      <4>2. ASSUME NEW g \in Files \ restored'.source
            PROVE  /\ source'[g] = got[g + 1] => s[g] = got[g + 1]
                   /\ g + 1 + Size <= Len(got) /\ got[g + 1 + Size] = got[g + 1]
                        => s[g] = got[g + 1]
        <5>1. g \in Files \ restored.source
          BY <3>2
        <5>2. /\ source[g] = got[g + 1] => s[g] = got[g + 1]
              /\ g + 1 + Size <= Len(got) /\ got[g + 1 + Size] = got[g + 1]
                   => s[g] = got[g + 1]
          BY <4>1, <5>1 DEF Between
        <5>3. source'[g] = got[g + 1] => source[g] = got[g + 1]
          BY <3>3, <3>4
        <5> QED
          BY <5>2, <5>3
      <4>3. Between(s)'
        BY <2>1, <4>2 DEF Between
      <4> QED
        BY <3>1, <4>3
    <3> QED
      BY <2>1, <2>3, <3>1, <3>4
  <2>5. CASE ~ WriteSource
    <3>1. UNCHANGED <<source, instants>>
      BY <2>1, <2>5 DEF WriteCopy, WriteSupport, WriteArtifact, WriteOutput
    <3>2. restored'.source = restored.source
      <4>1. ASSUME NEW S, restored' = [restored EXCEPT !.copies = S] PROVE restored'.source = restored.source
        BY <1>1, <4>1 DEF Types
      <4>2. ASSUME NEW S, restored' = [restored EXCEPT !.support = S] PROVE restored'.source = restored.source
        BY <1>1, <4>2 DEF Types
      <4> QED
        BY <2>1, <2>5, <4>1, <4>2 DEF WriteCopy, WriteSupport, WriteArtifact, WriteOutput
    <3>3. \A s : Between(s) => Between(s)'
      BY <2>1, <3>1, <3>2 DEF Between
    <3> QED
      BY <2>1, <2>3, <3>1, <3>3
  <2> QED
    BY <2>4, <2>5
<1>5. CASE ~ Read /\ ~ Meddle
  <2>1. UNCHANGED <<source, instants, restored, got, step>> /\ mode' = mode
    BY <1>1, <1>5, Otherwise DEF Effect
  <2>2. OverSource /\ got # <<>>
    BY <2>1, SameStep
  <2>3. /\ source \in instants
        /\ \A f \in Files : f + 1 <= Len(got) => \E s \in instants : s[f] = got[f + 1]
        /\ Len(got) >= Size => \E s \in instants : Between(s)
    BY <1>1, <2>2 DEF Passing
  <2>4. \A s : Between(s) => Between(s)'
    BY <2>1 DEF Between
  <2> QED
    BY <2>1, <2>3, <2>4
<1> QED
  BY <1>3, <1>4, <1>5

\* Two passes that agree are a state the source tree had.
LEMMA Snapshot ==
  ASSUME SnapInv, OverSource, Walked, Stable, restored.source = {}
  PROVE  FirstPass \in instants
<1>1. /\ Types /\ Passing /\ Len(got) = 2 * Size /\ Size \in Nat /\ Size > 1
      /\ FirstPass \in Tree
      /\ \A f \in Files : f + 1 \in 1..Len(got) /\ f + 1 + Size \in 1..Len(got)
  BY Sizes, FirstIs DEF SnapInv
<1>2. got # <<>>
  BY <1>1
<1>3. PICK s \in instants : Between(s)
  BY <1>1, <1>2 DEF Passing
<1>4. s \in Tree
  BY <1>1 DEF Types
<1>5. \A f \in Files : s[f] = got[f + 1]
  BY <1>1, <1>3 DEF Between, Stable
<1>6. s = FirstPass
  BY <1>4, <1>5 DEF FirstPass, Tree
<1> QED
  BY <1>6

\* Outside of a walk over the source tree nothing is added to what it has seen.
LEMMA OutsideWalks ==
  ASSUME Types, Read \/ Meddle, ~ (OverSource /\ got # <<>>), ~ (OverSource /\ got' # <<>>)
  PROVE  UNCHANGED <<instants, outcome, frozen>> /\ restored'.source = restored.source
<1>1. CASE Read
  <2>1. got' # <<>>
    <3>1. got \in Seq(Contents) /\ Reading /\ got' = Append(got, NextRead)
      BY <1>1 DEF Read, Types
    <3>2. NextRead \in Contents
      BY <3>1, Next1Read
    <3> QED
      BY <3>1, <3>2
  <2> QED
    BY <1>1, <2>1 DEF Read, memory
<1>2. CASE Meddle
  <2>1. UNCHANGED <<outcome, frozen>>
    BY <1>2 DEF Meddle, memory
  <2>2. UNCHANGED instants
    BY <1>2 DEF Meddle, WriteSource, WriteCopy, WriteSupport, WriteArtifact, WriteOutput
  <2>3. restored'.source = restored.source
    <3>1. ASSUME NEW S, restored' = [restored EXCEPT !.copies = S] PROVE restored'.source = restored.source
      BY <3>1 DEF Types
    <3>2. ASSUME NEW S, restored' = [restored EXCEPT !.support = S] PROVE restored'.source = restored.source
      BY <3>2 DEF Types
    <3> QED
      BY <1>2, <3>1, <3>2
         DEF Meddle, WriteSource, WriteCopy, WriteSupport, WriteArtifact, WriteOutput
  <2> QED
    BY <2>1, <2>2, <2>3
<1> QED
  BY <1>1, <1>2

LEMMA TakenStep == SnapInv /\ [TwoBuildNext]_twoBuildVars => Taken'
<1> SUFFICES ASSUME SnapInv, [TwoBuildNext]_twoBuildVars PROVE Taken'
  OBVIOUS
<1>1. Types /\ Taken /\ Types' /\ Effect
  BY TypesStep, Effects DEF SnapInv
<1>2. /\ mode' = mode /\ o' = o /\ FreezeAt' = FreezeAt /\ step \in Nat
      /\ FreezeAt <= o /\ o \in Nat /\ FreezeAt \in Nat
  <2>1. mode' = mode /\ o \in Nat /\ step \in Nat
    BY <1>1, Numbers DEF Effect, Types
  <2> QED
    BY <1>1, <2>1, SameMode, FreezePlace DEF FreezeAt
<1>3. CASE step' = step
  <2>1. Now' = Now /\ OverSource' = OverSource
    BY <1>2, <1>3, SameStep
  <2>2. frozen' = frozen
    BY <1>1, <1>2, <1>3 DEF Effect, Moves, memory
  <2>3. outcome' = "issued" => Now.do = "issue"
    BY <1>1 DEF Effect, Taken
  <2>4. ASSUME outcome' # "refused", step > FreezeAt, ~ (OverSource /\ got' # <<>>),
               restored'.source = {}
        PROVE  InSource(frozen)' \in instants'
    <3>1. InSource(frozen)' = InSource(frozen)
      BY <1>2, <2>2 DEF InSource
    <3>2. CASE (Read \/ Meddle) /\ ~ (OverSource /\ got # <<>>)
      <4>1. UNCHANGED <<instants, outcome>> /\ restored.source = {}
        BY <1>1, <2>4, <3>2, OutsideWalks
      <4>2. InSource(frozen) \in instants
        BY <1>1, <2>4, <3>2, <4>1 DEF Taken
      <4> QED
        BY <3>1, <4>1, <4>2
    <3>3. CASE (Read \/ Meddle) /\ OverSource /\ got # <<>>
      <4>1. got' # <<>>
        BY <1>1, <3>3 DEF Read, Meddle, Types
      <4> QED
        BY <2>4, <3>3, <4>1
    <3>4. CASE ~ Read /\ ~ Meddle
      <4>1. instants' = instants /\ restored' = restored /\ (got' = <<>> \/ got' = got)
        BY <1>1, <3>4, Otherwise
      <4>2. CASE OverSource /\ got # <<>>
        <5>1. outcome' = "refused" \/ got' = got
          <6>1. got' = <<>> /\ step' = step => Refuse \/ got' = got
            <7>1. step \in Int
              BY <1>2
            <7> QED
              BY <1>3, <3>4, <4>2, <7>1
                 DEF TwoBuildNext, Execute, Ended, twoBuildVars, Freeze, SourceUnchanged,
                     VerifyProject, CheckSupport, Reverify, CompareBuilds, Recapture, Compare,
                     Materialize, GenerateLock, TakeLock, RunTool, Postprocess, CaptureOutput,
                     Issue, Onward
          <6> QED
            BY <1>3, <4>1, <6>1 DEF Refuse
        <5> QED
          BY <2>4, <4>2, <5>1
      <4>3. CASE ~ (OverSource /\ got # <<>>)
        <5>1. outcome # "refused"
          BY <1>1, <2>4, <3>4
             DEF TwoBuildNext, Execute, Ended, twoBuildVars, Freeze, SourceUnchanged, Doing,
                 VerifyProject, CheckSupport, Reverify, CompareBuilds, Recapture,
                 Materialize, GenerateLock, TakeLock, RunTool, Postprocess, CaptureOutput, Issue
        <5> QED
          BY <1>1, <2>4, <3>1, <4>1, <4>3, <5>1 DEF Taken
      <4> QED
        BY <4>2, <4>3
    <3> QED
      BY <3>2, <3>3, <3>4
  <2> QED
    BY <1>1, <1>2, <1>3, <2>1, <2>2, <2>3, <2>4 DEF Taken
<1>4. CASE step' = step + 1 /\ got' = <<>> /\ Accepted /\ UNCHANGED <<instants, restored>>
           /\ Now.do # "issue"
  <2>1. outcome' # "issued" /\ outcome # "refused"
    <3>1. outcome # "issued"
      BY <1>1, <1>4 DEF Taken
    <3>2. outcome' = "issued" => outcome = "issued"
      BY <1>1, <1>4 DEF Effect
    <3>3. outcome = "refused" => step' = step
      BY DEF TwoBuildNext, Execute, Ended, twoBuildVars, Read, Meddle, Reading, Freeze,
             SourceUnchanged, Doing, VerifyProject, CheckSupport, Reverify, CompareBuilds,
             Recapture, Materialize, GenerateLock, TakeLock, RunTool, Postprocess,
             CaptureOutput, Issue
    <3> QED
      BY <1>2, <1>4, <3>1, <3>2, <3>3
  <2>2. CASE Now.do = "freeze"
    <3>1. Walked /\ MayFreeze /\ frozen' = FirstPass /\ step = FreezeAt /\ OverSource
      BY <1>1, <1>4, <2>2, FreezePlace DEF Accepted, Walks, OverSource
    <3>2. (restored.source = {} => FirstPass \in instants) /\ FirstPass \in Tree
      BY <1>1, <3>1, Snapshot, FirstIs DEF MayFreeze
    <3>3. ~ mode.locked => FirstPass[Lock] = Absent
      BY <3>1 DEF MayFreeze
    <3>4. InSource(frozen)' = FirstPass
      BY <1>2, <3>1, <3>2, <3>3, Sizes DEF InSource, Tree
    <3> QED
      BY <1>2, <1>4, <2>1, <3>1, <3>2, <3>3, <3>4 DEF Taken
  <2>3. CASE Now.do = "take"
    <3>1. /\ Walked /\ OnlyLockMade /\ frozen' = FirstPass /\ FreezeAt = 1 /\ step = 5 /\ o = 5
          /\ ~ mode.locked /\ ~ OverSource
      BY <1>1, <1>4, <2>3, FreezePlace, Places, InMode DEF Accepted, Walks, OverSource
    <3>2. /\ frozen[Lock] = Absent /\ frozen \in Tree
          /\ restored.source = {} => InSource(frozen) \in instants
      BY <1>1, <2>1, <3>1 DEF Taken, Types
    <3>3. FirstPass \in Tree /\ \A f \in Files \ {Lock} : FirstPass[f] = frozen[f]
      BY <1>1, <3>1, FirstIs DEF OnlyLockMade
    <3>4. InSource(frozen)' = InSource(frozen)
      <4>1. [FirstPass EXCEPT ![Lock] = Absent] = [frozen EXCEPT ![Lock] = Absent]
        BY <3>2, <3>3 DEF Tree
      <4> QED
        BY <1>2, <3>1, <4>1 DEF InSource
    <3> QED
      BY <1>2, <1>4, <2>1, <3>1, <3>2, <3>4 DEF Taken
  <2>4. CASE Now.do \notin {"freeze", "take"}
    <3>1. frozen' = frozen /\ step # FreezeAt
      BY <1>1, <1>4, <2>4, FreezePlace DEF Accepted
    <3>2. InSource(frozen)' = InSource(frozen)
      BY <1>2, <3>1 DEF InSource
    <3>3. ASSUME step > FreezeAt, restored.source = {} PROVE InSource(frozen) \in instants
      <4>1. CASE Now.do = "source"
        <5>1. Walked /\ Stable /\ FirstPass = InSource(frozen) /\ OverSource
          BY <1>4, <4>1 DEF Accepted, Walks, OverSource
        <5> QED
          BY <3>3, <5>1, Snapshot
      <4>2. CASE Now.do # "source"
        <5>1. ~ OverSource
          BY <2>4, <4>2 DEF OverSource
        <5> QED
          BY <1>1, <2>1, <3>3, <5>1 DEF Taken
      <4> QED
        BY <4>1, <4>2
    <3> QED
      BY <1>1, <1>2, <1>4, <2>1, <3>1, <3>2, <3>3 DEF Taken
  <2> QED
    BY <2>2, <2>3, <2>4
<1> QED
  BY <1>1, <1>3, <1>4 DEF Effect, Moves

\* The frozen tree, and what the last walk over the source tree has seen, is a
\* state that the source tree had at one instant during the walk, if no file
\* was changed and changed back meanwhile.
THEOREM FrozenIsSnapshot == TwoBuildSpec => []CaptureIsSnapshot
<1>1. SnapInv /\ [TwoBuildNext]_twoBuildVars => SnapInv'
  BY TypesStep, PassingStep, TakenStep DEF SnapInv
<1>2. SnapInv => CaptureIsSnapshot
  <2> SUFFICES ASSUME SnapInv, outcome # "refused", Started(frozen),
                      ~ (outcome = "running" /\ OverSource /\ got # <<>>), restored.source = {}
               PROVE  InSource(frozen) \in instants
    BY DEF CaptureIsSnapshot
  <2>1. Types /\ Taken
    BY DEF SnapInv
  <2>2. outcome # "running" => ~ OverSource
    BY <2>1 DEF Taken, Types, OverSource
  <2>3. step > FreezeAt
    BY <2>1, FreezePlace DEF Taken, Types, Started
  <2> QED
    BY <2>1, <2>2, <2>3 DEF Taken
<1> QED
  BY SnapInit, <1>1, <1>2, PTL DEF TwoBuildSpec

-----------------------------------------------------------------------------
(* A receipt is true.  A file of a copy that holds what was frozen, and has  *)
(* not been put back since the tool began to read, has held it all the time  *)
(* since then; the same goes for the support material.  So what a look at it *)
(* finds unchanged is what the tool had read before, unless it was put back  *)
(* in between.                                                               *)
FileKept(c, f) == <<c, f>> \notin restored.copies /\ project[c][f] = frozen[f]
SupportKept(b, i) ==
  <<b, Supports[i]>> \notin restored.support /\ support[Supports[i]] = Original

\* The tool of build b read what was frozen, or what was recorded.
FileSeen(b, f) == <<b, f>> \in restored.copies \/ made[b].read[f + 1] = frozen[f]
SupportSeen(b, i) ==
  <<b, Supports[i]>> \in restored.support \/ made[b].read[Size + i] = Original

\* The looks that follow the run.
Settled(b) ==
  /\ step > LookAt(b) => \A f \in Files : FileSeen(b, f)
  /\ Native => /\ step > Base(b) + 9 => SupportSeen(b, 3)
               /\ step > Base(b) + 10 => SupportSeen(b, 1)
               /\ step > Base(b) + 11 => SupportSeen(b, 2)
               /\ step > Ending + 12 => SupportSeen(b, 4)

\* Build b, or what of it concerns item i of the support material, is not over.
Watched(b) == step <= Base(b) + w
WatchedSupport(b, i) == i = 4 \/ Watched(b)

ReadsInv == \A b \in Builds : step > RunAt(b) =>
  /\ Watched(b) => \A f \in Files : FileKept(b, f) => FileSeen(b, f)
  /\ \A i \in 1..4 : WatchedSupport(b, i) => (SupportKept(b, i) => SupportSeen(b, i))
  /\ Settled(b)

\* The tool is reading.
RunInv == Now.do = "run" =>
  /\ \A f \in Files : f + 1 <= Len(got) => (FileKept(n, f) => got[f + 1] = frozen[f])
  /\ \A i \in 1..4 : Size + i <= Len(got) => (SupportKept(n, i) => got[Size + i] = Original)

\* The copy of a build is being looked at after the run.
LookInv == \A b \in Builds : step = LookAt(b) =>
  \A f \in Files : f + 1 <= Len(got) => (got[f + 1] = frozen[f] => FileSeen(b, f))

\* Where there is a product, and where none yet.
PlaceInv == \A b \in Builds :
  /\ step <= RunAt(b) => made[b] = NoResult /\ artifact[b] = NoResult /\ output[b] = NoResult
  /\ Native /\ step <= Base(b) + 12 => retained[b] = NoResult
  /\ step <= Base(b) + w => captured[b] = NoResult
  /\ step > RunAt(b) => /\ made[b] # NoResult /\ artifact[b] # NoResult
                        /\ ~ Native => output[b] # NoResult
  /\ Native /\ step > Base(b) + 12 => output[b] # NoResult /\ retained[b] # NoResult
  /\ step > Base(b) + w => captured[b] # NoResult

\* A product nobody replaced before it was taken is what the tool made.
ProductInv == \A b \in Builds : b \notin exchanged =>
  /\ Untaken(b) => made[b] = IF Native THEN artifact[b] ELSE output[b]
  /\ ~ Untaken(b) => made[b] = IF Native THEN retained[b] ELSE captured[b]

SameInv ==
  /\ step > Ending + 3 => captured[1] = captured[2]
  /\ Native /\ step > Ending + 7 => retained[1] = captured[1]
  /\ Native /\ step > Ending + 8 => retained[2] = captured[2]
  /\ outcome = "issued" => step = Last

ReceiptInv == Types /\ ReadsInv /\ RunInv /\ LookInv /\ PlaceInv /\ ProductInv /\ SameInv

LEMMA Order ==
  ASSUME Types
  PROVE  /\ o \in Nat /\ w \in Nat /\ Ending \in Nat /\ Last \in Nat /\ step \in Nat
         /\ Ending + 3 < Last /\ (Native => Ending + 12 < Last)
         /\ \A b \in Builds :
              /\ Base(b) \in Nat /\ RunAt(b) \in Nat /\ LookAt(b) \in Nat
              /\ o <= Base(b) /\ Base(b) + 2 < RunAt(b) /\ RunAt(b) < LookAt(b)
              /\ LookAt(b) < Base(b) + w /\ Base(b) + w <= Ending
              /\ Native => RunAt(b) = Base(b) + 8 /\ w = 15
<1>1. /\ o \in {1, 5} /\ w \in {8, 15} /\ Ending = o + w + w /\ step \in 1..Last
      /\ Native => w = 15 /\ Last = Ending + 13
      /\ ~ Native => w = 8 /\ Last = Ending + 7
  BY Numbers DEF Types
<1>2. o \in Nat /\ w \in Nat /\ Ending \in Nat /\ Last \in Nat /\ step \in Nat
  BY <1>1
<1>3. Ending + 3 < Last /\ (Native => Ending + 12 < Last)
  BY <1>1, <1>2
<1>4. ASSUME NEW b \in Builds
      PROVE  /\ Base(b) \in Nat /\ RunAt(b) \in Nat /\ LookAt(b) \in Nat
             /\ o <= Base(b) /\ Base(b) + 2 < RunAt(b) /\ RunAt(b) < LookAt(b)
             /\ LookAt(b) < Base(b) + w /\ Base(b) + w <= Ending
             /\ Native => RunAt(b) = Base(b) + 8 /\ w = 15
  <2>1. Base(b) = o \/ Base(b) = o + w
    BY Numbers
  <2>2. /\ RunAt(b) = Base(b) + (IF Native THEN 8 ELSE 5)
        /\ LookAt(b) = Base(b) + (IF Native THEN 13 ELSE 6)
    BY Numbers
  <2>3. CASE Native
    BY <1>1, <1>2, <2>1, <2>2, <2>3
  <2>4. CASE ~ Native
    BY <1>1, <1>2, <2>1, <2>2, <2>4
  <2> QED
    BY <2>3, <2>4
<1> QED
  BY <1>2, <1>3, <1>4

\* When a build's product is made and taken, and its copy made.
LEMMA Moments ==
  ASSUME Types, NEW b \in Builds
  PROVE  /\ \A r : MadeHere(b, r) => step = RunAt(b) /\ step' = step + 1
         /\ Now.do = "post" /\ n = b => Native /\ step = Base(b) + 12
         /\ Now.do = "capture" /\ n = b => step = Base(b) + w
         /\ Now.do = "copy" /\ n = b => step = Base(b) + 2
<1>1. Now.do = "copy" /\ n = b => step = Base(b) + 2
  <2>1. b # 0
    BY DEF Builds
  <2> QED
    BY <2>1, Places, InMode
<1> QED
  BY <1>1, Places, InMode DEF MadeHere

\* After the opening nothing is frozen any more, a copy is made once, and what
\* is kept has been kept.
LEMMA Later ==
  ASSUME Types, Effect
  PROVE  /\ step' = step \/ (step' = step + 1 /\ Accepted /\ UNCHANGED restored)
         /\ step > o => frozen' = frozen
         /\ \A c \in Builds, i \in 1..4 :
              c \in Users(Supports[i]) => (SupportKept(c, i)' => SupportKept(c, i))
         /\ \A c \in Builds, f \in Files :
              step > Base(c) + 2 /\ Open(c) => (FileKept(c, f)' => FileKept(c, f))
<1>1. Moves /\ Writes
  BY DEF Effect
<1>2. ASSUME step > o PROVE frozen' = frozen
  <2>1. Now.do \notin {"freeze", "take"}
    <3>1. ~ (step <= o)
      BY <1>2, Order
    <3> QED
      BY <3>1, Places, InMode
  <2> QED
    BY <1>1, <2>1 DEF Moves, Accepted, memory
<1>3. ASSUME NEW c \in Builds, NEW i \in 1..4, c \in Users(Supports[i]), SupportKept(c, i)'
      PROVE  SupportKept(c, i)
  <2> DEFINE x == Supports[i]
  <2>1. /\ \/ support'[x] = support[x] \/ support'[x] # Original
           \/ <<c, x>> \in restored'.support
        /\ restored.support \subseteq restored'.support
    BY <1>1, <1>3, Sizes DEF Writes
  <2> QED
    BY <1>3, <2>1 DEF SupportKept
<1>4. ASSUME NEW c \in Builds, NEW f \in Files, step > Base(c) + 2, Open(c), FileKept(c, f)'
      PROVE  FileKept(c, f)
  <2>1. step > o /\ step # Base(c) + 2
    BY <1>4, Order
  <2>2. ~ (Now.do = "copy" /\ n = c) /\ frozen' = frozen
    BY <1>2, <2>1, Moments
  <2>3. restored.copies \subseteq restored'.copies
    BY <1>1 DEF Writes
  <2>4. \/ project'[c][f] = project[c][f]
        \/ project'[c][f] # frozen[f]
        \/ <<c, f>> \in restored'.copies
    BY <1>1, <1>4, <2>2 DEF Writes
  <2> QED
    BY <1>4, <2>2, <2>3, <2>4 DEF FileKept
<1>5. step' = step \/ (step' = step + 1 /\ Accepted /\ UNCHANGED restored)
  BY <1>1 DEF Moves
<1> QED
  BY <1>2, <1>3, <1>4, <1>5

\* From the run on, what is put back is noted.
LEMMA Noted ==
  ASSUME Types, PlaceInv, NEW b \in Builds,
         step > RunAt(b) \/ (step = RunAt(b) /\ Now.do = "run" /\ n = b)
  PROVE  /\ Watched(b) => Open(b)
         /\ \A i \in 1..4 : WatchedSupport(b, i) => b \in Users(Supports[i])
<1>1. Begun(b)
  BY DEF PlaceInv, Begun
<1>2. Watched(b) => Open(b)
  BY <1>1 DEF PlaceInv, Open, Watched
<1>3. \A i \in 1..4 : i # 4 => Supports[i] # "leaves"
  <2>1. \A i \in 1..4 : i # 4 => i = 1 \/ i = 2 \/ i = 3
    OBVIOUS
  <2> QED
    BY <2>1, Sizes
<1>4. Supports[4] = "leaves"
  BY Sizes
<1> QED
  BY <1>1, <1>2, <1>3, <1>4 DEF WatchedSupport, Users

\* Once a build has run, what its tool has seen stays seen.
LEMMA Stays ==
  ASSUME Types, Effect, NEW b \in Builds, step > RunAt(b)
  PROVE  /\ made'[b] = made[b] /\ frozen' = frozen
         /\ \A f \in Files : FileSeen(b, f) => FileSeen(b, f)'
         /\ \A i \in 1..4 : SupportSeen(b, i) => SupportSeen(b, i)'
<1>1. step # RunAt(b) /\ step > o
  BY Order
<1>2. frozen' = frozen
  BY <1>1, Later
<1>3. made'[b] = made[b]
  BY <1>1, Moments DEF Effect, Comes
<1>4. restored.copies \subseteq restored'.copies /\ restored.support \subseteq restored'.support
  BY DEF Effect, Writes
<1>5. \A f \in Files : FileSeen(b, f) => FileSeen(b, f)'
  BY <1>2, <1>3, <1>4 DEF FileSeen
<1>6. \A i \in 1..4 : SupportSeen(b, i) => SupportSeen(b, i)'
  BY <1>3, <1>4 DEF SupportSeen
<1> QED
  BY <1>2, <1>3, <1>5, <1>6

LEMMA ReceiptInit == TwoBuildInit => ReceiptInv
<1> SUFFICES ASSUME TwoBuildInit PROVE ReceiptInv
  OBVIOUS
<1>1. Types /\ step = 1 /\ got = <<>> /\ outcome = "running"
  BY TypesInit DEF TwoBuildInit
<1>2. \A b \in Builds : /\ artifact[b] = NoResult /\ output[b] = NoResult /\ made[b] = NoResult
                        /\ retained[b] = NoResult /\ captured[b] = NoResult
  BY DEF TwoBuildInit
<1>3. ASSUME NEW b \in Builds
      PROVE  ~ (step > RunAt(b)) /\ ~ (step > Base(b) + 12) /\ ~ (step > Base(b) + w)
  <2>1. Base(b) \in Nat /\ RunAt(b) \in Nat /\ w \in Nat /\ Base(b) + 2 < RunAt(b) /\ w >= 1
    BY <1>1, Order, Numbers
  <2> QED
    BY <1>1, <2>1
<1>4. ~ (step > Ending + 3) /\ ~ (step > Ending + 7) /\ ~ (step > Ending + 8)
  BY <1>1, Order
<1>5. ReadsInv
  BY <1>3 DEF ReadsInv
<1>6. RunInv /\ LookInv
  <2>1. \A f \in Files : ~ (f + 1 <= Len(got))
    BY <1>1, Sizes
  <2>2. \A i \in 1..4 : ~ (Size + i <= Len(got))
    BY <1>1, Sizes
  <2> QED
    BY <2>1, <2>2 DEF RunInv, LookInv
<1>7. PlaceInv
  BY <1>2, <1>3 DEF PlaceInv
<1>8. ProductInv
  BY <1>2 DEF ProductInv, Untaken
<1>9. SameInv
  BY <1>1, <1>4 DEF SameInv
<1> QED
  BY <1>1, <1>5, <1>6, <1>7, <1>8, <1>9 DEF ReceiptInv

LEMMA RunStep == ReceiptInv /\ [TwoBuildNext]_twoBuildVars => RunInv'
<1> SUFFICES ASSUME ReceiptInv, [TwoBuildNext]_twoBuildVars, Now'.do = "run"
             PROVE  /\ \A f \in Files :
                         f + 1 <= Len(got') => (FileKept(n, f)' => got'[f + 1] = frozen'[f])
                    /\ \A i \in 1..4 :
                         Size + i <= Len(got') => (SupportKept(n, i)' => got'[Size + i] = Original)
  BY DEF RunInv
<1>1. Types /\ Types' /\ Effect /\ RunInv /\ PlaceInv /\ mode' = mode /\ Moves
  BY TypesStep, Effects DEF ReceiptInv, Effect
<1>2. Size \in Nat /\ Size > 1 /\ Files = 0..(Size - 1)
  BY Sizes
<1>3. CASE got' = <<>>
  BY <1>2, <1>3
<1>4. CASE step' = step /\ got' # <<>>
  <2>1. Now' = Now /\ n' = n /\ Now.do = "run"
    BY <1>1, <1>4, SameStep
  <2>2. PICK b \in Builds : b = n
    BY <1>1, <2>1, Places, InMode
  <2>3. /\ step > Base(b) + 2 /\ step > o
        /\ Open(b) /\ \A i \in 1..4 : b \in Users(Supports[i])
    <3>1. step = RunAt(b)
      BY <1>1, <2>1, <2>2, Places, InMode
    <3>2. Watched(b)
      BY <1>1, <3>1, Order DEF Watched
    <3> QED
      BY <1>1, <2>1, <2>2, <3>1, <3>2, Order, Noted DEF WatchedSupport
  <2>4. /\ frozen' = frozen
        /\ \A i \in 1..4 : SupportKept(b, i)' => SupportKept(b, i)
        /\ \A f \in Files : FileKept(b, f)' => FileKept(b, f)
    BY <1>1, <2>3, Later
  <2>5. /\ \A f \in Files : f + 1 <= Len(got) => (FileKept(b, f) => got[f + 1] = frozen[f])
        /\ \A i \in 1..4 : Size + i <= Len(got) => (SupportKept(b, i) => got[Size + i] = Original)
    BY <1>1, <2>1, <2>2 DEF RunInv
  <2>6. SUFFICES /\ \A f \in Files :
                      f + 1 <= Len(got') => (FileKept(b, f)' => got'[f + 1] = frozen'[f])
                 /\ \A i \in 1..4 :
                      Size + i <= Len(got') => (SupportKept(b, i)' => got'[Size + i] = Original)
    <3>1. n' = b
      BY <2>1, <2>2
    <3> QED
      BY <3>1 DEF FileKept, SupportKept
  <2>7. CASE got' = got
    BY <2>4, <2>5, <2>7
  <2>8. CASE Reading /\ got' = Append(got, NextRead)
    <3> DEFINE k == Len(got)
    <3>1. /\ k \in Nat /\ Len(got') = k + 1 /\ got'[k + 1] = NextRead
          /\ \A i \in 1..k : got'[i] = got[i]
      <4>1. NextRead \in Contents /\ got \in Seq(Contents)
        BY <1>1, <2>8, Next1Read DEF Types
      <4> QED
        BY <2>8, <4>1
    <3>2. ASSUME NEW f \in Files, f + 1 <= Len(got'), FileKept(b, f)' PROVE got'[f + 1] = frozen[f]
      <4>1. FileKept(b, f)
        BY <2>4, <3>2
      <4>2. CASE f + 1 <= k
        <5>1. f + 1 \in 1..k
          BY <1>2, <3>1, <4>2
        <5> QED
          BY <2>5, <3>1, <4>1, <4>2, <5>1
      <4>3. CASE f = k
        <5>1. NextRead = project[b][f]
          BY <1>1, <1>2, <2>1, <2>2, <2>8, <4>3, Next1Read
        <5> QED
          BY <3>1, <4>1, <4>3, <5>1 DEF FileKept
      <4> QED
        BY <1>2, <3>1, <3>2, <4>2, <4>3
    <3>3. ASSUME NEW i \in 1..4, Size + i <= Len(got'), SupportKept(b, i)'
          PROVE  got'[Size + i] = Original
      <4>1. SupportKept(b, i)
        BY <2>4, <3>3
      <4>2. CASE Size + i <= k
        <5>1. Size + i \in 1..k
          BY <1>2, <3>1, <4>2
        <5> QED
          BY <2>5, <3>1, <4>1, <4>2, <5>1
      <4>3. CASE Size + i = k + 1
        <5>1. k >= Size /\ k - Size + 1 = i
          BY <1>2, <3>1, <4>3
        <5>2. NextRead = support[Supports[i]]
          BY <1>1, <2>1, <2>8, <5>1, Next1Read
        <5> QED
          BY <3>1, <4>1, <4>3, <5>2 DEF SupportKept
      <4> QED
        BY <1>2, <3>1, <3>3, <4>2, <4>3
    <3> QED
      BY <2>4, <3>2, <3>3
  <2> QED
    BY <1>1, <1>4, <2>7, <2>8 DEF Moves
<1> QED
  BY <1>1, <1>3, <1>4 DEF Moves

LEMMA LookStep == ReceiptInv /\ [TwoBuildNext]_twoBuildVars => LookInv'
<1> SUFFICES ASSUME ReceiptInv, [TwoBuildNext]_twoBuildVars, NEW b \in Builds,
                    step' = LookAt(b)', NEW f \in Files, f + 1 <= Len(got'),
                    got'[f + 1] = frozen'[f]
             PROVE  FileSeen(b, f)'
  BY DEF LookInv
<1>1. /\ Types /\ Types' /\ Effect /\ LookInv /\ ReadsInv /\ mode' = mode /\ Moves
      /\ LookAt(b)' = LookAt(b)
  BY TypesStep, Effects, SameMode DEF ReceiptInv, Effect
<1>2. Size \in Nat /\ Size > 1 /\ Files = 0..(Size - 1)
  BY Sizes
<1>3. step' = step /\ got' # <<>>
  <2>1. got' # <<>>
    BY <1>2
  <2> QED
    BY <1>1, <2>1 DEF Moves
<1>4. step = LookAt(b) /\ step > RunAt(b) /\ Now.do = "verify" /\ n = b
  BY <1>1, <1>3, Order, Steps, InMode
<1>5. frozen' = frozen /\ (FileSeen(b, f) => FileSeen(b, f)')
  BY <1>1, <1>4, Stays
<1>6. CASE f + 1 <= Len(got) /\ got'[f + 1] = got[f + 1]
  BY <1>1, <1>4, <1>5, <1>6 DEF LookInv
<1>7. CASE Reading /\ got' = Append(got, NextRead) /\ UNCHANGED project /\ NothingBack
           /\ f = Len(got)
  <2>1. NextRead = project[b][f] /\ NextRead \in Contents /\ got \in Seq(Contents)
    BY <1>1, <1>2, <1>4, <1>7, Next1Read DEF Types
  <2>2. got'[f + 1] = project[b][f]
    BY <1>7, <2>1
  <2>3. FileKept(b, f) => FileSeen(b, f)
    <3>1. Watched(b)
      BY <1>1, <1>4, Order DEF Watched
    <3> QED
      BY <1>1, <1>4, <3>1 DEF ReadsInv
  <2>4. <<b, f>> \in restored.copies => FileSeen(b, f)
    BY DEF FileSeen
  <2> QED
    BY <1>5, <2>2, <2>3, <2>4 DEF FileKept
<1> QED
  <2>1. CASE got' = got
    BY <1>6, <2>1
  <2>2. CASE Reading /\ got' = Append(got, NextRead) /\ UNCHANGED disk /\ NothingBack
    <3>1. /\ Len(got') = Len(got) + 1 /\ Len(got) \in Nat
          /\ \A i \in 1..Len(got) : got'[i] = got[i]
      <4>1. NextRead \in Contents /\ got \in Seq(Contents)
        BY <1>1, <2>2, Next1Read DEF Types
      <4> QED
        BY <2>2, <4>1
    <3>2. f = Len(got) \/ f + 1 \in 1..Len(got)
      BY <1>2, <3>1
    <3> QED
      BY <1>2, <1>6, <1>7, <2>2, <3>1, <3>2 DEF disk
  <2> QED
    BY <1>1, <1>3, <2>1, <2>2 DEF Moves

\* A look at the support material after the run.
LEMMA SupportLook ==
  ASSUME Types, Effect, ReadsInv, NEW b \in Builds, step > RunAt(b), NEW i \in 1..4,
         WatchedSupport(b, i), step' = step + 1, Now = Check(Supports[i])
  PROVE  SupportSeen(b, i)'
<1>1. Accepted /\ Now.do = "support" /\ Now.item = Supports[i]
  BY Order, Later, Doing1
<1>2. support[Supports[i]] = Original
  BY <1>1 DEF Accepted
<1>3. SupportSeen(b, i)
  <2>1. SupportKept(b, i) => SupportSeen(b, i)
    BY DEF ReadsInv
  <2> QED
    BY <1>2, <2>1 DEF SupportKept, SupportSeen
<1> QED
  BY <1>3, Stays

LEMMA ReadsStep == ReceiptInv /\ [TwoBuildNext]_twoBuildVars => ReadsInv'
<1> SUFFICES ASSUME ReceiptInv, [TwoBuildNext]_twoBuildVars, NEW b \in Builds, step' > RunAt(b)'
             PROVE  /\ Watched(b)' => \A f \in Files : FileKept(b, f)' => FileSeen(b, f)'
                    /\ \A i \in 1..4 :
                         WatchedSupport(b, i)' => (SupportKept(b, i)' => SupportSeen(b, i)')
                    /\ Settled(b)'
  BY DEF ReadsInv
<1>1. Types /\ Effect /\ ReadsInv /\ RunInv /\ LookInv /\ PlaceInv /\ mode' = mode
  BY Effects DEF ReceiptInv, Effect
<1>2. /\ Native' = Native /\ Base(b)' = Base(b) /\ RunAt(b)' = RunAt(b) /\ LookAt(b)' = LookAt(b)
      /\ Ending' = Ending /\ w' = w
  BY <1>1, SameMode
<1>3. /\ step \in Nat /\ Base(b) \in Nat /\ RunAt(b) \in Nat /\ LookAt(b) \in Nat /\ w \in Nat
      /\ Ending \in Nat /\ o \in Nat
      /\ o <= Base(b) /\ Base(b) + 2 < RunAt(b) /\ RunAt(b) < LookAt(b)
      /\ LookAt(b) < Base(b) + w /\ Base(b) + w <= Ending
      /\ Native => RunAt(b) = Base(b) + 8 /\ w = 15
  BY <1>1, Order
<1>4. step' = step \/ (step' = step + 1 /\ Accepted /\ UNCHANGED restored)
  BY <1>1, Later
<1>5. /\ \A i \in 1..4 : b \in Users(Supports[i]) => (SupportKept(b, i)' => SupportKept(b, i))
      /\ step > Base(b) + 2 /\ Open(b) => \A f \in Files : FileKept(b, f)' => FileKept(b, f)
      /\ Watched(b)' => Watched(b)
      /\ \A i \in 1..4 : WatchedSupport(b, i)' => WatchedSupport(b, i)
  <2>1. Watched(b)' => Watched(b)
    BY <1>2, <1>3, <1>4 DEF Watched
  <2> QED
    BY <1>1, <2>1, Later DEF WatchedSupport
\* The build has run before.
<1>6. CASE step > RunAt(b)
  <2>1. /\ Watched(b) => \A f \in Files : FileKept(b, f) => FileSeen(b, f)
        /\ \A i \in 1..4 : WatchedSupport(b, i) => (SupportKept(b, i) => SupportSeen(b, i))
        /\ Settled(b)
    BY <1>1, <1>6 DEF ReadsInv
  <2>2. /\ \A f \in Files : FileSeen(b, f) => FileSeen(b, f)'
        /\ \A i \in 1..4 : SupportSeen(b, i) => SupportSeen(b, i)'
    BY <1>1, <1>6, Stays
  <2>3. /\ step > Base(b) + 2
        /\ Watched(b) => Open(b)
        /\ \A i \in 1..4 : WatchedSupport(b, i) => b \in Users(Supports[i])
    BY <1>1, <1>3, <1>6, Noted
  <2>4. ASSUME step' > LookAt(b), NEW f \in Files PROVE FileSeen(b, f)'
    <3>1. CASE step > LookAt(b)
      BY <2>1, <2>2, <3>1 DEF Settled
    <3>2. CASE step = LookAt(b) /\ step' = step + 1
      <4>1. Now.do = "verify" /\ Accepted
        BY <1>1, <1>3, <1>4, <3>2, Steps, InMode
      <4>2. Walked /\ FirstPass = frozen
        BY <4>1 DEF Accepted, Walks
      <4>3. f + 1 <= Len(got) /\ got[f + 1] = frozen[f]
        <5>1. f + 1 \in 1..Len(got)
          BY <1>1, <4>2, FirstIs
        <5> QED
          BY <4>2, <5>1 DEF FirstPass
      <4>4. FileSeen(b, f)
        BY <1>1, <3>2, <4>3 DEF LookInv
      <4> QED
        BY <2>2, <4>4
    <3> QED
      BY <1>3, <1>4, <2>4, <3>1, <3>2
  <2>5. ASSUME NEW i \in 1..4, WatchedSupport(b, i), step' = step + 1, Now = Check(Supports[i])
        PROVE  SupportSeen(b, i)'
    BY <1>1, <1>6, <2>5, SupportLook
  <2>5a. WatchedSupport(b, 4) /\ (Watched(b) => \A i \in 1..4 : WatchedSupport(b, i))
    BY DEF WatchedSupport
  <2>6. ASSUME Native
        PROVE  /\ step' > Base(b) + 9 => SupportSeen(b, 3)'
               /\ step' > Base(b) + 10 => SupportSeen(b, 1)'
               /\ step' > Base(b) + 11 => SupportSeen(b, 2)'
               /\ step' > Ending + 12 => SupportSeen(b, 4)'
    <3>1. /\ step = Base(b) + 9 => Now = Check(Supports[3])
          /\ step = Base(b) + 10 => Now = Check(Supports[1])
          /\ step = Base(b) + 11 => Now = Check(Supports[2])
          /\ step = Ending + 12 => Now = Check(Supports[4])
      BY <1>1, <2>6, Steps, Sizes, InMode
    <3>2. /\ step > Base(b) + 9 => SupportSeen(b, 3)
          /\ step > Base(b) + 10 => SupportSeen(b, 1)
          /\ step > Base(b) + 11 => SupportSeen(b, 2)
          /\ step > Ending + 12 => SupportSeen(b, 4)
      BY <2>1, <2>6 DEF Settled
    <3>3. ASSUME step' > Base(b) + 9 PROVE SupportSeen(b, 3)'
      <4>1. step > Base(b) + 9 \/ (step = Base(b) + 9 /\ step' = step + 1)
        BY <1>3, <1>4, <3>3
      <4>2. step = Base(b) + 9 => Watched(b)
        BY <1>3, <2>6 DEF Watched
      <4> QED
        BY <2>2, <2>5, <2>5a, <3>1, <3>2, <4>1, <4>2
    <3>4. ASSUME step' > Base(b) + 10 PROVE SupportSeen(b, 1)'
      <4>1. step > Base(b) + 10 \/ (step = Base(b) + 10 /\ step' = step + 1)
        BY <1>3, <1>4, <3>4
      <4>2. step = Base(b) + 10 => Watched(b)
        BY <1>3, <2>6 DEF Watched
      <4> QED
        BY <2>2, <2>5, <2>5a, <3>1, <3>2, <4>1, <4>2
    <3>5. ASSUME step' > Base(b) + 11 PROVE SupportSeen(b, 2)'
      <4>1. step > Base(b) + 11 \/ (step = Base(b) + 11 /\ step' = step + 1)
        BY <1>3, <1>4, <3>5
      <4>2. step = Base(b) + 11 => Watched(b)
        BY <1>3, <2>6 DEF Watched
      <4> QED
        BY <2>2, <2>5, <2>5a, <3>1, <3>2, <4>1, <4>2
    <3>6. ASSUME step' > Ending + 12 PROVE SupportSeen(b, 4)'
      <4>1. step > Ending + 12 \/ (step = Ending + 12 /\ step' = step + 1)
        BY <1>3, <1>4, <3>6
      <4> QED
        BY <2>2, <2>5, <2>5a, <3>1, <3>2, <4>1
    <3> QED
      BY <3>3, <3>4, <3>5, <3>6
  <2>7. Settled(b)'
    BY <1>2, <2>4, <2>6 DEF Settled
  <2> QED
    BY <1>5, <2>1, <2>2, <2>3, <2>7
\* The build runs: the tool makes its product of what it has read.
<1>7. CASE step = RunAt(b) /\ step' = step + 1
  <2>1. Now.do = "run" /\ n = b /\ Accepted /\ step > Base(b) + 2 /\ step > o
    BY <1>1, <1>3, <1>4, <1>7, Steps, InMode
  <2>2. frozen' = frozen /\ made'[b].read = got /\ Len(got) = Size + 4
    <3>1. MadeHere(b, made'[b])
      BY <2>1 DEF Accepted
    <3> QED
      BY <1>1, <2>1, <3>1, Later DEF MadeHere
  <2>3. /\ \A f \in Files : f + 1 <= Len(got) => (FileKept(b, f) => got[f + 1] = frozen[f])
        /\ \A i \in 1..4 : Size + i <= Len(got) => (SupportKept(b, i) => got[Size + i] = Original)
    BY <1>1, <2>1 DEF RunInv
  <2>4. /\ \A f \in Files : f + 1 <= Len(got)
        /\ \A i \in 1..4 : Size + i <= Len(got)
    BY <2>2, Sizes
  <2>4a. Open(b) /\ \A i \in 1..4 : b \in Users(Supports[i])
    <3>1. Watched(b)
      BY <1>3, <1>7 DEF Watched
    <3> QED
      BY <1>1, <1>7, <2>1, <3>1, Noted DEF WatchedSupport
  <2>5. ASSUME NEW f \in Files, FileKept(b, f)' PROVE FileSeen(b, f)'
    <3>1. FileKept(b, f)
      BY <1>5, <2>1, <2>4a, <2>5
    <3> QED
      BY <2>2, <2>3, <2>4, <3>1 DEF FileSeen
  <2>6. ASSUME NEW i \in 1..4, SupportKept(b, i)' PROVE SupportSeen(b, i)'
    <3>1. SupportKept(b, i)
      BY <1>5, <2>4a, <2>6
    <3> QED
      BY <2>2, <2>3, <2>4, <3>1 DEF SupportSeen
  <2>7. /\ ~ (step' > LookAt(b)) /\ ~ (step' > Ending + 12)
        /\ Native => ~ (step' > Base(b) + 9) /\ ~ (step' > Base(b) + 10) /\ ~ (step' > Base(b) + 11)
    <3>1. ~ (step' > LookAt(b)) /\ ~ (step' > Ending + 12)
      BY <1>3, <1>7
    <3>2. ASSUME Native
          PROVE  ~ (step' > Base(b) + 9) /\ ~ (step' > Base(b) + 10) /\ ~ (step' > Base(b) + 11)
      <4>1. step' = Base(b) + 9
        BY <1>3, <1>7, <3>2
      <4> QED
        BY <1>3, <4>1
    <3> QED
      BY <3>1, <3>2
  <2>8. Settled(b)'
    BY <1>2, <2>7 DEF Settled
  <2> QED
    BY <2>5, <2>6, <2>8
<1> QED
  BY <1>2, <1>3, <1>4, <1>6, <1>7

LEMMA PlaceStep == ReceiptInv /\ [TwoBuildNext]_twoBuildVars => PlaceInv'
<1> SUFFICES ASSUME ReceiptInv, [TwoBuildNext]_twoBuildVars, NEW b \in Builds
             PROVE  /\ step' <= RunAt(b)' =>
                         made'[b] = NoResult /\ artifact'[b] = NoResult /\ output'[b] = NoResult
                    /\ Native' /\ step' <= Base(b)' + 12 => retained'[b] = NoResult
                    /\ step' <= Base(b)' + w' => captured'[b] = NoResult
                    /\ step' > RunAt(b)' => /\ made'[b] # NoResult /\ artifact'[b] # NoResult
                                            /\ ~ Native' => output'[b] # NoResult
                    /\ Native' /\ step' > Base(b)' + 12 =>
                         output'[b] # NoResult /\ retained'[b] # NoResult
                    /\ step' > Base(b)' + w' => captured'[b] # NoResult
  BY DEF PlaceInv, NoResult
<1>1. Types /\ Effect /\ PlaceInv /\ mode' = mode /\ Comes(b)
  BY Effects DEF ReceiptInv, Effect
<1>2. /\ Native' = Native /\ Base(b)' = Base(b) /\ RunAt(b)' = RunAt(b) /\ w' = w
  BY <1>1, SameMode
<1>3. /\ step \in Nat /\ Base(b) \in Nat /\ RunAt(b) \in Nat /\ w \in Nat
      /\ RunAt(b) < Base(b) + w /\ (Native => RunAt(b) = Base(b) + 8 /\ w = 15)
  <2>1. /\ step \in Nat /\ Base(b) \in Nat /\ RunAt(b) \in Nat /\ w \in Nat /\ LookAt(b) \in Nat
        /\ RunAt(b) < LookAt(b) /\ LookAt(b) < Base(b) + w
        /\ Native => RunAt(b) = Base(b) + 8 /\ w = 15
    BY <1>1, Order
  <2> QED
    BY <2>1
<1>4. step' = step \/ (step' = step + 1 /\ Accepted)
  BY <1>1, Later
<1>5. /\ \A r : MadeHere(b, r) => step = RunAt(b) /\ step' = step + 1 /\ r # NoResult
      /\ Now.do = "post" /\ n = b => Native /\ step = Base(b) + 12
      /\ Now.do = "capture" /\ n = b => step = Base(b) + w
  BY <1>1, Moments DEF MadeHere
<1>6. /\ step <= RunAt(b) =>
           made[b] = NoResult /\ artifact[b] = NoResult /\ output[b] = NoResult
      /\ Native /\ step <= Base(b) + 12 => retained[b] = NoResult
      /\ step <= Base(b) + w => captured[b] = NoResult
      /\ step > RunAt(b) => /\ made[b] # NoResult /\ artifact[b] # NoResult
                            /\ ~ Native => output[b] # NoResult
      /\ Native /\ step > Base(b) + 12 => output[b] # NoResult /\ retained[b] # NoResult
      /\ step > Base(b) + w => captured[b] # NoResult
  BY <1>1 DEF PlaceInv
<1>7. ASSUME step' <= RunAt(b)
      PROVE  made'[b] = NoResult /\ artifact'[b] = NoResult /\ output'[b] = NoResult
  <2>1. step <= RunAt(b) /\ ~ MadeHere(b, made'[b]) /\ ~ (Now.do = "post" /\ n = b)
    BY <1>3, <1>4, <1>5, <1>7
  <2> QED
    BY <1>1, <1>6, <2>1 DEF Comes
<1>8. ASSUME Native, step' <= Base(b) + 12 PROVE retained'[b] = NoResult
  <2>1. step <= Base(b) + 12
    BY <1>3, <1>4, <1>8
  <2>2. ~ (step' = step + 1 /\ Now.do = "post" /\ n = b)
    BY <1>3, <1>5, <1>8
  <2> QED
    BY <1>1, <1>6, <1>8, <2>1, <2>2 DEF Comes
<1>9. ASSUME step' <= Base(b) + w PROVE captured'[b] = NoResult
  <2>1. step <= Base(b) + w
    BY <1>3, <1>4, <1>9
  <2>2. ~ (step' = step + 1 /\ Now.do = "capture" /\ n = b)
    BY <1>3, <1>5, <1>9
  <2> QED
    BY <1>1, <1>6, <2>1, <2>2 DEF Comes
\* The run leaves an artifact, and an output if there is no postprocessor.
<1>10. ASSUME step' > RunAt(b)
       PROVE  made'[b] # NoResult /\ artifact'[b] # NoResult /\ (~ Native => output'[b] # NoResult)
  <2>1. CASE step > RunAt(b)
    <3>1. made[b] # NoResult /\ artifact[b] # NoResult /\ (~ Native => output[b] # NoResult)
      BY <1>6, <2>1
    <3> QED
      BY <1>1, <1>5, <3>1 DEF Comes
  <2>2. CASE step = RunAt(b) /\ step' = step + 1
    <3>1. Now.do = "run" /\ n = b /\ Accepted
      BY <1>1, <1>3, <1>4, <2>2, Steps, InMode
    <3>2. MadeHere(b, made'[b]) /\ artifact'[b] = made'[b] /\ (~ Native => output'[b] = made'[b])
      BY <3>1 DEF Accepted
    <3> QED
      BY <1>5, <3>2
  <2> QED
    BY <1>3, <1>4, <1>10, <2>1, <2>2
<1>11. ASSUME Native, step' > Base(b) + 12 PROVE output'[b] # NoResult /\ retained'[b] # NoResult
  <2>1. artifact[b] # NoResult
    <3>1. step > RunAt(b)
      BY <1>3, <1>4, <1>11
    <3> QED
      BY <1>6, <3>1
  <2>2. CASE step > Base(b) + 12
    <3>1. output[b] # NoResult /\ retained[b] # NoResult
      BY <1>6, <1>11, <2>2
    <3> QED
      BY <1>1, <1>5, <2>1, <3>1 DEF Comes
  <2>3. CASE step = Base(b) + 12 /\ step' = step + 1
    <3>1. Now.do = "post" /\ n = b /\ Accepted
      BY <1>1, <1>3, <1>4, <1>11, <2>3, Steps, InMode
    <3> QED
      BY <2>1, <3>1 DEF Accepted
  <2> QED
    BY <1>3, <1>4, <1>11, <2>2, <2>3
<1>12. ASSUME step' > Base(b) + w PROVE captured'[b] # NoResult
  <2>1. output[b] # NoResult
    <3>1. step > RunAt(b) /\ (Native => step > Base(b) + 12)
      BY <1>3, <1>4, <1>12
    <3> QED
      BY <1>6, <3>1
  <2>2. CASE step > Base(b) + w
    <3>1. captured[b] # NoResult
      BY <1>6, <2>2
    <3> QED
      BY <1>1, <2>1, <3>1 DEF Comes
  <2>3. CASE step = Base(b) + w /\ step' = step + 1
    <3>1. Now.do = "capture" /\ n = b /\ Accepted
      BY <1>1, <1>3, <1>4, <2>3, Steps, InMode
    <3> QED
      BY <2>1, <3>1 DEF Accepted
  <2> QED
    BY <1>3, <1>4, <1>12, <2>2, <2>3
<1> QED
  BY <1>2, <1>7, <1>8, <1>9, <1>10, <1>11, <1>12

LEMMA ProductStep == ReceiptInv /\ [TwoBuildNext]_twoBuildVars => ProductInv'
<1> SUFFICES ASSUME ReceiptInv, [TwoBuildNext]_twoBuildVars, NEW b \in Builds, b \notin exchanged'
             PROVE  /\ Untaken(b)' => made'[b] = IF Native' THEN artifact'[b] ELSE output'[b]
                    /\ ~ Untaken(b)' => made'[b] = IF Native' THEN retained'[b] ELSE captured'[b]
  BY DEF ProductInv
<1>1. Types /\ Effect /\ PlaceInv /\ ProductInv /\ mode' = mode /\ Comes(b) /\ Native' = Native
  BY Effects, SameMode DEF ReceiptInv, Effect
<1>2. /\ Untaken(b) => made[b] = IF Native THEN artifact[b] ELSE output[b]
      /\ ~ Untaken(b) => made[b] = IF Native THEN retained[b] ELSE captured[b]
      /\ b \notin exchanged
  BY <1>1 DEF ProductInv, Comes
<1>3. /\ step \in Nat /\ Base(b) \in Nat /\ RunAt(b) \in Nat /\ w \in Nat
      /\ RunAt(b) < Base(b) + w /\ (Native => RunAt(b) = Base(b) + 8)
  <2>1. /\ step \in Nat /\ Base(b) \in Nat /\ RunAt(b) \in Nat /\ w \in Nat /\ LookAt(b) \in Nat
        /\ RunAt(b) < LookAt(b) /\ LookAt(b) < Base(b) + w
        /\ Native => RunAt(b) = Base(b) + 8 /\ w = 15
    BY <1>1, Order
  <2> QED
    BY <2>1
<1>4. /\ \A r : MadeHere(b, r) => step = RunAt(b) /\ step' = step + 1
      /\ Now.do = "post" /\ n = b => Native /\ step = Base(b) + 12
      /\ Now.do = "capture" /\ n = b => step = Base(b) + w
  BY <1>1, Moments
<1>5. /\ Native /\ step <= Base(b) + 12 => retained[b] = NoResult
      /\ step <= Base(b) + w => captured[b] = NoResult
      /\ step > RunAt(b) => artifact[b] # NoResult /\ (~ Native => output[b] # NoResult)
  BY <1>1 DEF PlaceInv
<1>6. NoResult' = NoResult
  BY DEF NoResult
\* The tool makes the product, which nobody has taken.
<1>7. CASE MadeHere(b, made'[b])
  <2>1. step = RunAt(b) /\ step' = step + 1 /\ Now.do = "run" /\ n = b
    BY <1>4, <1>7 DEF MadeHere
  <2>2. Accepted
    BY <1>1, <1>3, <2>1, Later
  <2>3. artifact'[b] = made'[b] /\ (~ Native => output'[b] = made'[b])
    BY <2>1, <2>2 DEF Accepted
  <2>4. Native => step <= Base(b) + 12
    BY <1>3, <2>1
  <2>5. step <= Base(b) + w
    BY <1>3, <2>1
  <2>6. Untaken(b)'
    <3>1. Native => retained'[b] = NoResult
      BY <1>1, <1>5, <2>1, <2>4 DEF Comes
    <3>2. captured'[b] = NoResult
      BY <1>1, <1>5, <2>1, <2>5 DEF Comes
    <3> QED
      BY <1>1, <1>6, <3>1, <3>2 DEF Untaken
  <2> QED
    BY <1>1, <2>3, <2>6
<1>8. CASE ~ MadeHere(b, made'[b]) /\ Native
  <2>1. made'[b] = made[b]
    BY <1>1, <1>8 DEF Comes
  <2>2. /\ Untaken(b) <=> retained[b] = NoResult
        /\ Untaken(b)' <=> retained'[b] = NoResult
    BY <1>1, <1>6, <1>8 DEF Untaken
  <2>3. CASE retained'[b] = retained[b]
    <3>1. Untaken(b) => artifact'[b] = artifact[b]
      BY <1>1, <1>8 DEF Comes
    <3> QED
      BY <1>1, <1>2, <1>8, <2>1, <2>2, <2>3, <3>1
  <2>4. CASE Now.do = "post" /\ n = b /\ retained'[b] = artifact[b]
    <3>1. step = Base(b) + 12
      BY <1>4, <2>4
    <3>2. step > RunAt(b) /\ step <= Base(b) + 12
      BY <1>3, <1>8, <3>1
    <3>3. retained[b] = NoResult /\ artifact[b] # NoResult
      BY <1>5, <1>8, <3>2
    <3>4. made[b] = artifact[b]
      BY <1>2, <1>8, <2>2, <3>3
    <3> QED
      BY <1>1, <1>8, <2>1, <2>2, <2>4, <3>3, <3>4
  <2> QED
    BY <1>1, <2>3, <2>4 DEF Comes
<1>9. CASE ~ MadeHere(b, made'[b]) /\ ~ Native
  <2>1. made'[b] = made[b]
    BY <1>1, <1>9 DEF Comes
  <2>2. /\ Untaken(b) <=> captured[b] = NoResult
        /\ Untaken(b)' <=> captured'[b] = NoResult
    BY <1>1, <1>6, <1>9 DEF Untaken
  <2>3. CASE captured'[b] = captured[b]
    <3>1. ~ (Now.do = "post" /\ n = b)
      BY <1>4, <1>9
    <3>2. Untaken(b) => output'[b] = output[b]
      BY <1>1, <1>9, <3>1 DEF Comes
    <3> QED
      BY <1>1, <1>2, <1>9, <2>1, <2>2, <2>3, <3>2
  <2>4. CASE Now.do = "capture" /\ n = b /\ captured'[b] = output[b]
    <3>1. step = Base(b) + w
      BY <1>4, <2>4
    <3>2. step > RunAt(b) /\ step <= Base(b) + w
      BY <1>3, <3>1
    <3>3. captured[b] = NoResult /\ output[b] # NoResult
      BY <1>5, <1>9, <3>2
    <3>4. made[b] = output[b]
      BY <1>2, <1>9, <2>2, <3>3
    <3> QED
      BY <1>1, <1>9, <2>1, <2>2, <2>4, <3>3, <3>4
  <2> QED
    BY <1>1, <2>3, <2>4 DEF Comes
<1> QED
  BY <1>7, <1>8, <1>9

LEMMA SameInvStep == ReceiptInv /\ [TwoBuildNext]_twoBuildVars => SameInv'
<1> SUFFICES ASSUME ReceiptInv, [TwoBuildNext]_twoBuildVars PROVE SameInv'
  OBVIOUS
<1>1. Types /\ Types' /\ Effect /\ SameInv /\ mode' = mode
  BY TypesStep, Effects DEF ReceiptInv, Effect
<1>2. /\ Native' = Native /\ Ending' = Ending /\ Last' = Last
      /\ step \in Nat /\ Ending \in Nat /\ Last \in Nat
      /\ step' = step \/ step' = step + 1
      /\ Ending + 3 < Last /\ 1 \in Builds /\ 2 \in Builds
  BY <1>1, SameMode, Order, Later DEF Builds
<1>3. ASSUME step > Ending, NEW b \in Builds
      PROVE  captured'[b] = captured[b] /\ retained'[b] = retained[b]
  <2>1. ~ (Now.do = "capture" /\ n = b)
    BY <1>1, <1>2, <1>3, Places, Order, InMode
  <2>2. ~ (Now.do = "post" /\ n = b)
    <3>1. SUFFICES ASSUME Now.do = "post", n = b PROVE FALSE
      OBVIOUS
    <3>2. Native /\ step = Base(b) + 12
      BY <1>1, <3>1, Places, InMode
    <3>3. Base(b) \in Nat /\ w = 15 /\ Base(b) + w <= Ending
      BY <1>1, <3>2, Order
    <3> QED
      BY <1>2, <1>3, <3>2, <3>3
  <2> QED
    BY <1>1, <2>1, <2>2 DEF Effect, Comes
<1>4. ASSUME step' > Ending + 3 PROVE captured'[1] = captured'[2]
  <2>1. captured'[1] = captured[1] /\ captured'[2] = captured[2]
    BY <1>2, <1>3, <1>4
  <2>2. CASE step > Ending + 3
    BY <1>1, <2>1, <2>2 DEF SameInv
  <2>3. CASE step = Ending + 3 /\ step' = step + 1
    <3>1. Now.do = "compare" /\ Accepted
      BY <1>1, <1>2, <2>3, Steps, InMode DEF Effect, Moves
    <3> QED
      BY <2>1, <3>1 DEF Accepted
  <2> QED
    BY <1>2, <1>4, <2>2, <2>3
<1>5. ASSUME Native, NEW b \in Builds, NEW k \in {7, 8}, k = 7 => b = 1, k = 8 => b = 2,
             step' > Ending + k
      PROVE  retained'[b] = captured'[b]
  <2>1. captured'[b] = captured[b] /\ retained'[b] = retained[b]
    BY <1>2, <1>3, <1>5
  <2>2. CASE step > Ending + k
    BY <1>1, <1>5, <2>1, <2>2 DEF SameInv
  <2>3. CASE step = Ending + k /\ step' = step + 1
    <3>1. Now = Do("recapture", b) /\ Accepted
      <4>1. Accepted
        BY <1>1, <1>2, <2>3 DEF Effect, Moves
      <4>2. Now = Do("recapture", b)
        BY <1>1, <1>5, <2>3, Steps, InMode
      <4> QED
        BY <4>1, <4>2
    <3>2. Now.do = "recapture" /\ n = b
      BY <3>1, Doing1 DEF n
    <3> QED
      BY <2>1, <3>1, <3>2 DEF Accepted
  <2> QED
    BY <1>2, <1>5, <2>2, <2>3
<1>6. ASSUME outcome' = "issued" PROVE step' = Last
  <2>1. CASE outcome = "issued"
    <3>1. step = Last
      BY <1>1, <2>1 DEF SameInv
    <3>2. step' \in 1..Last'
      BY <1>1 DEF Types
    <3> QED
      BY <1>2, <3>1, <3>2
  <2>2. CASE Now.do = "issue" /\ step' = step
    BY <1>1, <2>2, Places, InMode
  <2> QED
    BY <1>1, <1>6, <2>1, <2>2 DEF Effect
<1> QED
  BY <1>2, <1>4, <1>5, <1>6 DEF SameInv

\* A receipt is only issued for two equal captures.  Each is what the tool made
\* in its build, unless others replaced the product before it was taken, and
\* the tool read what was frozen and recorded, but for the files that others
\* exchanged and put back: for any number of files, of contents and of writes.
THEOREM ReceiptsAreTrue == TwoBuildSpec => []ReceiptTrue
<1>1. ReceiptInv /\ [TwoBuildNext]_twoBuildVars => ReceiptInv'
  BY TypesStep, ReadsStep, RunStep, LookStep, PlaceStep, ProductStep, SameInvStep DEF ReceiptInv
<1>2. ReceiptInv => ReceiptTrue
  <2> SUFFICES ASSUME ReceiptInv, outcome = "issued"
               PROVE  /\ captured[1] = captured[2]
                      /\ Native => retained = captured
                      /\ \A b \in Builds : /\ b \in exchanged \/ captured[b] = made[b]
                                           /\ ReadAsFrozen(b)
    BY DEF ReceiptTrue
  <2>1. /\ Types /\ step = Last /\ Ending + 3 < Last /\ (Native => Ending + 12 < Last)
        /\ Ending \in Nat /\ Last \in Nat /\ 1 \in Builds /\ 2 \in Builds
    BY Order DEF ReceiptInv, SameInv, Builds
  <2>2. captured[1] = captured[2]
    BY <2>1 DEF ReceiptInv, SameInv
  <2>3. Native => retained[1] = captured[1] /\ retained[2] = captured[2]
    <3>1. Native => step > Ending + 7 /\ step > Ending + 8
      BY <2>1
    <3> QED
      BY <3>1 DEF ReceiptInv, SameInv
  <2>4. Native => retained = captured
    BY <2>1, <2>3 DEF Types, Builds
  <2>5. ASSUME NEW b \in Builds
        PROVE  /\ step > RunAt(b) /\ step > LookAt(b) /\ step > Base(b) + w
               /\ Native => /\ step > Base(b) + 9 /\ step > Base(b) + 10 /\ step > Base(b) + 11
                            /\ step > Base(b) + 12 /\ step > Ending + 12
    <3>1. /\ LookAt(b) < Base(b) + w /\ Base(b) + w <= Ending /\ Base(b) \in Nat /\ w \in Nat
          /\ LookAt(b) \in Nat /\ RunAt(b) \in Nat /\ RunAt(b) < LookAt(b) /\ (Native => w = 15)
      BY <2>1, Order
    <3> QED
      BY <2>1, <3>1
  <2>6. ASSUME NEW b \in Builds, b \notin exchanged PROVE captured[b] = made[b]
    <3>1. captured[b] # NoResult /\ (Native => retained[b] # NoResult)
      BY <2>5 DEF ReceiptInv, PlaceInv
    <3>2. ~ Untaken(b)
      BY <3>1 DEF Untaken
    <3>3. made[b] = IF Native THEN retained[b] ELSE captured[b]
      BY <2>6, <3>2 DEF ReceiptInv, ProductInv
    <3> QED
      BY <2>4, <3>3
  <2>7. ASSUME NEW b \in Builds PROVE ReadAsFrozen(b)
    <3>1. Settled(b)
      BY <2>5, <2>7 DEF ReceiptInv, ReadsInv
    <3>2. \A f \in Files : <<b, f>> \in restored.copies \/ made[b].read[f + 1] = frozen[f]
      BY <2>5, <3>1 DEF Settled, FileSeen
    <3>3. Native => /\ SupportSeen(b, 1) /\ SupportSeen(b, 2)
                    /\ SupportSeen(b, 3) /\ SupportSeen(b, 4)
      BY <2>5, <3>1 DEF Settled
    <3>4. Native => \A i \in DOMAIN Supports : SupportSeen(b, i)
      <4>1. \A i \in DOMAIN Supports : i = 1 \/ i = 2 \/ i = 3 \/ i = 4
        BY Sizes
      <4> QED
        BY <3>3, <4>1
    <3> QED
      BY <3>2, <3>4 DEF ReadAsFrozen, SupportSeen
  <2> QED
    BY <2>2, <2>4, <2>6, <2>7
<1> QED
  BY ReceiptInit, <1>1, <1>2, PTL DEF TwoBuildSpec

-----------------------------------------------------------------------------
(* The commands that share the directories of a project.  What is left of a  *)
(* command's script is a tail of it.                                        *)
StepName == {"reset build", "reset sources", "drop build", "drop generate", "drop check", "check",
             "python", "native", "native source", "crate", "crate source", "copy", "fallback",
             "wheel", "executable", "remove executable", "remove crate", "remove wheels", "report"}

Tailing(left, script) ==
  /\ left \in Seq(StepName) /\ Len(left) <= Len(script)
  /\ \A i \in 1..Len(left) : left[i] = script[Len(script) - Len(left) + i]

LEMMA TailOfTail ==
  ASSUME NEW left, NEW script \in Seq(StepName), Tailing(left, script), left # <<>>
  PROVE  /\ Tailing(Tail(left), script) /\ Len(Tail(left)) = Len(left) - 1
         /\ Len(left) \in 1..Len(script) /\ Head(left) = script[Len(script) - Len(left) + 1]
<1>1. left \in Seq(StepName) /\ Len(left) \in 1..Len(script) /\ Head(left) = left[1]
  BY DEF Tailing
<1>2. /\ Tail(left) \in Seq(StepName) /\ Len(Tail(left)) = Len(left) - 1
      /\ \A i \in 1..Len(Tail(left)) : Tail(left)[i] = left[i + 1]
  BY <1>1
<1>3. Tailing(Tail(left), script)
  <2>1. ASSUME NEW i \in 1..Len(Tail(left))
        PROVE  Tail(left)[i] = script[Len(script) - Len(Tail(left)) + i]
    <3>1. i + 1 \in 1..Len(left) /\ Len(script) \in Nat /\ Len(left) \in Nat
      BY <1>1, <1>2
    <3>2. left[i + 1] = script[Len(script) - Len(left) + (i + 1)]
      BY <3>1 DEF Tailing
    <3>3. Len(script) - Len(left) + (i + 1) = Len(script) - (Len(left) - 1) + i
      BY <3>1
    <3> QED
      BY <1>2, <3>2, <3>3
  <2> QED
    BY <1>1, <1>2, <2>1 DEF Tailing
<1>4. Head(left) = script[Len(script) - Len(left) + 1]
  BY <1>1 DEF Tailing
<1> QED
  BY <1>1, <1>2, <1>3, <1>4

IsBuildScript(s) ==
  /\ s \in Seq(StepName) /\ Len(s) = 14
  /\ /\ s[1] = "reset build" /\ s[2] = "reset sources"
     /\ s[3] = "drop build" /\ s[4] = "drop generate" /\ s[5] = "drop check"
  /\ s[6] = "check" /\ s[7] = "python" /\ s[8] = "native" /\ s[9] = "crate" /\ s[10] = "copy"
  /\ s[11] = "fallback" /\ s[12] = "wheel" /\ s[13] = "executable" /\ s[14] = "report"

LEMMA BuildSteps == IsBuildScript(Script("build"))
<1> DEFINE s == Script("build")
           t == <<"reset build", "reset sources">>
           v == t \o Clear
           u == <<"check", "python", "native", "crate", "copy", "fallback", "wheel",
                  "executable", "report">>
<1>1. s = v \o u
  BY DEF Script
<1>2. t \in Seq(StepName) /\ Len(t) = 2 /\ t[1] = "reset build" /\ t[2] = "reset sources"
  BY DEF StepName
<1>3. /\ Clear \in Seq(StepName) /\ Len(Clear) = 3
      /\ Clear[1] = "drop build" /\ Clear[2] = "drop generate" /\ Clear[3] = "drop check"
  BY DEF Clear, StepName
<1>4. /\ u \in Seq(StepName) /\ Len(u) = 9 /\ u[1] = "check" /\ u[2] = "python" /\ u[3] = "native"
      /\ u[4] = "crate" /\ u[5] = "copy" /\ u[6] = "fallback" /\ u[7] = "wheel"
      /\ u[8] = "executable" /\ u[9] = "report"
  BY DEF StepName
<1> HIDE DEF s, t, u, v
<1>5. Joins(StepName, v, t, Clear, 2, 3)
  <2>1. Joins(StepName, v, t, Clear, Len(t), Len(Clear))
    BY <1>2, <1>3, Joining DEF v
  <2> QED
    BY <1>2, <1>3, <2>1
<1>6. Joins(StepName, s, v, u, 5, 9)
  <2>1. v \in Seq(StepName) /\ Len(v) = 5
    BY <1>5 DEF Joins
  <2>2. Joins(StepName, s, v, u, Len(v), Len(u))
    BY <1>1, <1>4, <2>1, Joining
  <2> QED
    BY <1>4, <2>1, <2>2
<1>7. /\ s[1] = t[1] /\ s[2] = t[2] /\ s[3] = Clear[1] /\ s[4] = Clear[2] /\ s[5] = Clear[3]
  BY <1>5, <1>6 DEF Joins
<1>8. /\ s[6] = u[1] /\ s[7] = u[2] /\ s[8] = u[3] /\ s[9] = u[4] /\ s[10] = u[5]
      /\ s[11] = u[6] /\ s[12] = u[7] /\ s[13] = u[8] /\ s[14] = u[9]
  BY <1>6 DEF Joins
<1>9. s \in Seq(StepName) /\ Len(s) = 14
  BY <1>6 DEF Joins
<1>10. IsBuildScript(s)
  <2>1. /\ s[1] = "reset build" /\ s[2] = "reset sources"
        /\ s[3] = "drop build" /\ s[4] = "drop generate" /\ s[5] = "drop check"
    BY <1>2, <1>3, <1>7
  <2>2. s[6] = "check" /\ s[7] = "python" /\ s[8] = "native" /\ s[9] = "crate" /\ s[10] = "copy"
    BY <1>4, <1>8
  <2>3. s[11] = "fallback" /\ s[12] = "wheel" /\ s[13] = "executable" /\ s[14] = "report"
    BY <1>4, <1>8
  <2> QED
    BY <1>9, <2>1, <2>2, <2>3 DEF IsBuildScript
<1> QED
  BY <1>10 DEF s

IsGenerateScript(s) ==
  /\ s \in Seq(StepName) /\ Len(s) = 9
  /\ s[1] = "reset sources" /\ s[2] = "drop build" /\ s[3] = "drop generate"
  /\ s[4] = "drop check" /\ s[5] = "check" /\ s[6] = "python" /\ s[7] = "native source"
  /\ s[8] = "crate source" /\ s[9] = "report"

LEMMA GenerateSteps == IsGenerateScript(Script("generate"))
<1> DEFINE s == Script("generate")
           t == <<"reset sources">>
           v == t \o Clear
           u == <<"check", "python", "native source", "crate source", "report">>
<1>1. s = v \o u
  BY DEF Script
<1>2. t \in Seq(StepName) /\ Len(t) = 1 /\ t[1] = "reset sources"
  BY DEF StepName
<1>3. /\ Clear \in Seq(StepName) /\ Len(Clear) = 3
      /\ Clear[1] = "drop build" /\ Clear[2] = "drop generate" /\ Clear[3] = "drop check"
  BY DEF Clear, StepName
<1>4. /\ u \in Seq(StepName) /\ Len(u) = 5 /\ u[1] = "check" /\ u[2] = "python"
      /\ u[3] = "native source" /\ u[4] = "crate source" /\ u[5] = "report"
  BY DEF StepName
<1> HIDE DEF s, t, u, v
<1>5. Joins(StepName, v, t, Clear, 1, 3)
  <2>1. Joins(StepName, v, t, Clear, Len(t), Len(Clear))
    BY <1>2, <1>3, Joining DEF v
  <2> QED
    BY <1>2, <1>3, <2>1
<1>6. Joins(StepName, s, v, u, 4, 5)
  <2>1. v \in Seq(StepName) /\ Len(v) = 4
    BY <1>5 DEF Joins
  <2>2. Joins(StepName, s, v, u, Len(v), Len(u))
    BY <1>1, <1>4, <2>1, Joining
  <2> QED
    BY <1>4, <2>1, <2>2
<1>7. s[1] = t[1] /\ s[2] = Clear[1] /\ s[3] = Clear[2] /\ s[4] = Clear[3]
  BY <1>5, <1>6 DEF Joins
<1>8. s[5] = u[1] /\ s[6] = u[2] /\ s[7] = u[3] /\ s[8] = u[4] /\ s[9] = u[5]
  BY <1>6 DEF Joins
<1>9. s \in Seq(StepName) /\ Len(s) = 9
  BY <1>6 DEF Joins
<1>10. IsGenerateScript(s)
  BY <1>2, <1>3, <1>4, <1>7, <1>8, <1>9 DEF IsGenerateScript
<1> QED
  BY <1>10 DEF s


\* The scripts that have no stage of a build in them, and those that end in a report.
Mild == StepName \ {"python", "native", "native source", "crate", "crate source", "copy",
                    "fallback", "wheel", "executable"}
Mildly(left) == left \in Seq(Mild)
Reporting(left) == left # <<>> => left[Len(left)] = "report"

Reporters == {"build", "generate"}
InBuild    == cmd.kind = "build" /\ ~ cmd.failed
InGenerate == cmd.kind = "generate" /\ ~ cmd.failed
Remaining  == Len(cmd.left)

Statuses == {"none", "checked", "not built", "evidence required", "fallback failed", "native failed",
             "executable failed", "crate failed", "built"}
ReportRecord == [run : Stamp, status : Statuses, lists : SUBSET Names]
CommandRecord == [kind : Kinds \cup {"idle"}, config : Config, left : Seq(StepName), failed : BOOLEAN]
StageResults == [Stages -> {"none", "skipped", "built", "failed"}]

WellTyped ==
  /\ tree \in Pieces /\ copy \in Pieces
  /\ dist \in [Names -> Pieces]
  /\ reports \in [Reports -> ReportRecord]
  /\ cmd \in CommandRecord
  /\ results \in StageResults
  /\ ended \in [kind : Kinds \cup {"idle", "died"}, exit : {0, 1}]
  /\ count \in Stamp /\ Commands \in Nat

\* Where a command is in its script.
InScript ==
  /\ cmd.kind = "idle" => cmd.left = <<>> /\ ~ cmd.failed
  /\ InBuild => Tailing(cmd.left, Script("build"))
  /\ InGenerate => Tailing(cmd.left, Script("generate"))
  /\ cmd.failed \/ cmd.kind \in {"check", "clean"} => Mildly(cmd.left)
  /\ cmd.kind \in Reporters => Reporting(cmd.left)

LEMMA Types0 ==
  /\ Nothing \in Pieces /\ NoReport \in ReportRecord /\ Idle \in CommandRecord /\ NoResults \in StageResults
  /\ Plain \in Config /\ None \in Stamp
<1>1. None \in Stamp
  BY CommandsAssumption DEF None, Stamp
<1>2. Plain \in Config
  BY DEF Plain, Config
<1>3. Nothing \in Pieces
  BY <1>1 DEF Nothing, Pieces
<1>4. NoReport \in ReportRecord
  BY <1>1 DEF NoReport, ReportRecord, Statuses
<1>5. NoResults \in StageResults
  BY DEF NoResults, StageResults
<1>6. Idle \in CommandRecord
  BY <1>2 DEF Idle, CommandRecord
<1> QED
  BY <1>1, <1>2, <1>3, <1>4, <1>5, <1>6

LEMMA MildTail ==
  ASSUME NEW left \in Seq(StepName), left # <<>>
  PROVE  /\ Len(Tail(left)) = Len(left) - 1 /\ (Tail(left) = <<>> => Len(left) = 1)
         /\ Mildly(left) => Mildly(Tail(left)) /\ Head(left) \in Mild
         /\ Reporting(left) => Reporting(Tail(left)) /\ (Len(left) = 1 => Head(left) = "report")
<1>1. /\ Len(left) \in Nat /\ Len(left) >= 1 /\ Head(left) = left[1]
      /\ Tail(left) \in Seq(StepName) /\ Len(Tail(left)) = Len(left) - 1
      /\ \A i \in 1..Len(Tail(left)) : Tail(left)[i] = left[i + 1]
  OBVIOUS
<1>2. ASSUME left \in Seq(Mild) PROVE Tail(left) \in Seq(Mild) /\ left[1] \in Mild
  BY <1>1, <1>2
<1>3. ASSUME Reporting(left), Tail(left) # <<>> PROVE Tail(left)[Len(Tail(left))] = "report"
  <2>1. Len(Tail(left)) \in 1..Len(Tail(left)) /\ Len(Tail(left)) + 1 = Len(left)
    BY <1>1, <1>3
  <2>2. left[Len(left)] = "report"
    BY <1>3 DEF Reporting
  <2> QED
    BY <1>1, <2>1, <2>2
<1>4. Reporting(left) /\ Len(left) = 1 => left[1] = "report"
  BY DEF Reporting
<1>5. Tail(left) = <<>> => Len(left) = 1
  <2> DEFINE rest == Tail(left)
  <2>1. Len(rest) = Len(left) - 1 /\ Len(left) \in Nat
    BY <1>1
  <2> HIDE DEF rest
  <2>2. rest = <<>> => Len(rest) = 0
    OBVIOUS
  <2>3. rest = <<>> => Len(left) = 1
    BY <2>1, <2>2
  <2> QED
    BY <2>3 DEF rest
<1> QED
  BY <1>1, <1>2, <1>3, <1>4, <1>5 DEF Mildly, Reporting

LEMMA Finished ==
  ASSUME NEW s, s \in Seq(Mild), NEW k \in 1..20, Len(s) = k, s[k] = "report"
  PROVE  Mildly(s) /\ Reporting(s) /\ s # <<>>
<1>1. s # <<>>
  OBVIOUS
<1> QED
  BY <1>1 DEF Mildly, Reporting

LEMMA MildScripts ==
  /\ \A s \in {Rejected, PluginFailed, OpenClosure} : Mildly(s) /\ Reporting(s) /\ s # <<>>
  /\ Mildly(Script("check")) /\ Mildly(Script("clean"))
<1>1. /\ Clear \in Seq(Mild) /\ Len(Clear) = 3
      /\ <<"check", "report">> \in Seq(Mild) /\ Len(<<"check", "report">>) = 2
      /\ <<"check", "report">>[2] = "report"
      /\ <<"check">> \in Seq(Mild)
  BY DEF Clear, Mild, StepName
<1>2. /\ <<"reset build", "reset sources", "remove executable", "remove crate", "remove wheels">>
           \in Seq(Mild)
      /\ Len(<<"reset build", "reset sources", "remove executable", "remove crate",
               "remove wheels">>) = 5
      /\ <<"reset build", "reset sources">> \in Seq(Mild)
  BY DEF Mild, StepName
<1>3. Joins(Mild, Rejected, Clear, <<"check", "report">>, 3, 2)
  <2>1. Joins(Mild, Rejected, Clear, <<"check", "report">>, Len(Clear), Len(<<"check", "report">>))
    BY <1>1, Joining DEF Rejected
  <2> QED
    BY <1>1, <2>1
<1>4. Rejected \in Seq(Mild) /\ Len(Rejected) = 5 /\ Rejected[5] = "report"
  BY <1>1, <1>3 DEF Joins
<1>5. PluginFailed \in Seq(Mild) /\ Len(PluginFailed) = 2 /\ PluginFailed[2] = "report"
  BY <1>1 DEF PluginFailed
<1>6. OpenClosure \in Seq(Mild) /\ Len(OpenClosure) = 10 /\ OpenClosure[10] = "report"
  <2> DEFINE t == <<"reset build", "reset sources", "remove executable", "remove crate", "remove wheels">>
  <2>1. OpenClosure = t \o Rejected
    BY DEF OpenClosure
  <2>2. t \in Seq(Mild) /\ Len(t) = 5
    BY <1>2
  <2> HIDE DEF t
  <2>3. Joins(Mild, OpenClosure, t, Rejected, Len(t), Len(Rejected))
    BY <1>4, <2>1, <2>2, Joining
  <2>4. Joins(Mild, OpenClosure, t, Rejected, 5, 5)
    BY <1>4, <2>2, <2>3
  <2>5. OpenClosure[5 + 5] = Rejected[5]
    BY <2>4 DEF Joins
  <2> QED
    BY <1>4, <2>4, <2>5 DEF Joins
<1>7. Script("check") \in Seq(Mild)
  BY <1>1 DEF Script
<1>8. Script("clean") \in Seq(Mild)
  <2>1. Script("clean") = <<"reset build", "reset sources">> \o Clear
    BY DEF Script
  <2> QED
    BY <1>1, <1>2, <2>1, Joined
<1>9. Mildly(Rejected) /\ Reporting(Rejected) /\ Rejected # <<>>
  <2>1. 5 \in 1..20
    OBVIOUS
  <2> QED
    BY <1>4, <2>1, Finished
<1>10. Mildly(PluginFailed) /\ Reporting(PluginFailed) /\ PluginFailed # <<>>
  <2>1. 2 \in 1..20
    OBVIOUS
  <2> QED
    BY <1>5, <2>1, Finished
<1>11. Mildly(OpenClosure) /\ Reporting(OpenClosure) /\ OpenClosure # <<>>
  <2>1. 10 \in 1..20
    OBVIOUS
  <2> QED
    BY <1>6, <2>1, Finished
<1> QED
  BY <1>7, <1>8, <1>9, <1>10, <1>11 DEF Mildly


\* A step of the script goes on to the next one, and its name says how far the
\* command has come.
AtBuild(act) ==
  /\ Remaining \in 1..14
  /\ act = "reset build" <=> Remaining = 14
  /\ act = "reset sources" <=> Remaining = 13
  /\ act = "drop build" <=> Remaining = 12
  /\ act = "python" <=> Remaining = 8
  /\ act = "native" <=> Remaining = 7
  /\ act = "crate" <=> Remaining = 6
  /\ act = "copy" <=> Remaining = 5
  /\ act = "wheel" <=> Remaining = 3
  /\ act = "executable" <=> Remaining = 2
  /\ act = "report" <=> Remaining = 1
  /\ act \notin {"native source", "crate source", "remove executable", "remove crate", "remove wheels"}

AtGenerate(act) ==
  /\ Remaining \in 1..9
  /\ act = "reset sources" <=> Remaining = 9
  /\ act = "python" <=> Remaining = 4
  /\ act = "report" <=> Remaining = 1
  /\ act \notin {"native", "crate", "copy", "wheel", "executable", "reset build"}

AtStep(act) ==
  /\ cmd.left # <<>> /\ act \in StepName
  /\ InBuild => AtBuild(act)
  /\ InGenerate => AtGenerate(act)
  /\ cmd.failed \/ cmd.kind \in {"check", "clean"} => act \in Mild
  /\ cmd.kind \in Reporters /\ Remaining = 1 => act = "report"
  /\ cmd.kind \in Kinds

Onwards ==
  /\ cmd' \in CommandRecord
  /\ cmd'.kind = cmd.kind /\ cmd'.config = cmd.config /\ cmd'.failed = cmd.failed
  /\ cmd'.left = Tail(cmd.left)
  /\ Remaining' = Remaining - 1 /\ Remaining \in Nat /\ Remaining >= 1
  /\ cmd'.left = <<>> => Remaining = 1
  /\ InBuild' = InBuild /\ InGenerate' = InGenerate

LEMMA Goes ==
  ASSUME WellTyped, InScript, NEW act, At(act), Advance
  PROVE  AtStep(act) /\ Onwards /\ InScript'
<1>1. /\ cmd \in CommandRecord /\ cmd.left \in Seq(StepName) /\ cmd.left # <<>> /\ Head(cmd.left) = act
      /\ cmd.kind # "idle" /\ cmd.kind \in Kinds
  BY DEF WellTyped, InScript, At, CommandRecord
<1>2. act \in StepName /\ Remaining \in Nat /\ Remaining >= 1
  BY <1>1 DEF Remaining
<1>3. Onwards
  <2>1. cmd' = [cmd EXCEPT !.left = Tail(cmd.left)] /\ Tail(cmd.left) \in Seq(StepName)
    BY <1>1 DEF Advance
  <2>2. /\ cmd' \in CommandRecord /\ cmd'.left = Tail(cmd.left)
        /\ cmd'.kind = cmd.kind /\ cmd'.config = cmd.config /\ cmd'.failed = cmd.failed
    BY <1>1, <2>1 DEF CommandRecord
  <2>3. Len(Tail(cmd.left)) = Len(cmd.left) - 1 /\ (Tail(cmd.left) = <<>> => Len(cmd.left) = 1)
    BY <1>1, MildTail
  <2>4. Remaining' = Remaining - 1 /\ (cmd'.left = <<>> => Remaining = 1)
    BY <2>2, <2>3 DEF Remaining
  <2> QED
    BY <1>2, <2>2, <2>4 DEF Onwards, InBuild, InGenerate
<1>4. /\ Mildly(cmd.left) => Mildly(cmd'.left) /\ act \in Mild
      /\ Reporting(cmd.left) => Reporting(cmd'.left) /\ (Remaining = 1 => act = "report")
  BY <1>1, <1>3, MildTail DEF Onwards, Remaining
<1>5. ASSUME InBuild
      PROVE  /\ Tailing(cmd'.left, Script("build"))
             /\ Remaining \in 1..14 /\ act = Script("build")[15 - Remaining]
  <2>1. Tailing(cmd.left, Script("build")) /\ Script("build") \in Seq(StepName) /\ Len(Script("build")) = 14
    BY <1>5, BuildSteps DEF InScript, IsBuildScript
  <2>2. /\ Tailing(Tail(cmd.left), Script("build")) /\ Remaining \in 1..Len(Script("build"))
        /\ Head(cmd.left) = Script("build")[Len(Script("build")) - Remaining + 1]
    BY <1>1, <2>1, TailOfTail DEF Remaining
  <2>3. 14 - Remaining + 1 = 15 - Remaining
    BY <1>2
  <2> QED
    BY <1>1, <1>3, <2>1, <2>2, <2>3 DEF Onwards
<1>6. ASSUME InGenerate
      PROVE  /\ Tailing(cmd'.left, Script("generate"))
             /\ Remaining \in 1..9 /\ act = Script("generate")[10 - Remaining]
  <2>1. /\ Tailing(cmd.left, Script("generate")) /\ Script("generate") \in Seq(StepName)
        /\ Len(Script("generate")) = 9
    BY <1>6, GenerateSteps DEF InScript, IsGenerateScript
  <2>2. /\ Tailing(Tail(cmd.left), Script("generate")) /\ Remaining \in 1..Len(Script("generate"))
        /\ Head(cmd.left) = Script("generate")[Len(Script("generate")) - Remaining + 1]
    BY <1>1, <2>1, TailOfTail DEF Remaining
  <2>3. 9 - Remaining + 1 = 10 - Remaining
    BY <1>2
  <2> QED
    BY <1>1, <1>3, <2>1, <2>2, <2>3 DEF Onwards
<1>7. InScript'
  <2>1. (cmd.kind \in Reporters => Reporting(cmd'.left))
        /\ (cmd.failed \/ cmd.kind \in {"check", "clean"} => Mildly(cmd'.left))
    BY <1>4 DEF InScript
  <2> QED
    BY <1>1, <1>3, <1>5, <1>6, <2>1 DEF InScript, Onwards
<1>8. AtStep(act)
  <2>1. ASSUME InBuild PROVE AtBuild(act)
    <3> DEFINE s == Script("build")
    <3>1. Remaining \in 1..14 /\ act = s[15 - Remaining]
      BY <1>5, <2>1
    <3>2. \/ Remaining = 1 \/ Remaining = 2 \/ Remaining = 3 \/ Remaining = 4 \/ Remaining = 5
          \/ Remaining = 6 \/ Remaining = 7 \/ Remaining = 8 \/ Remaining = 9 \/ Remaining = 10
          \/ Remaining = 11 \/ Remaining = 12 \/ Remaining = 13 \/ Remaining = 14
      BY <3>1
    <3>3. IsBuildScript(s)
      BY BuildSteps
    <3> HIDE DEF s
    <3>4. /\ Remaining = 14 => act = s[1]
          /\ Remaining = 13 => act = s[2]
          /\ Remaining = 12 => act = s[3]
          /\ Remaining = 11 => act = s[4]
          /\ Remaining = 10 => act = s[5]
          /\ Remaining = 9 => act = s[6]
          /\ Remaining = 8 => act = s[7]
          /\ Remaining = 7 => act = s[8]
          /\ Remaining = 6 => act = s[9]
          /\ Remaining = 5 => act = s[10]
          /\ Remaining = 4 => act = s[11]
          /\ Remaining = 3 => act = s[12]
          /\ Remaining = 2 => act = s[13]
          /\ Remaining = 1 => act = s[14]
      BY <3>1
    <3>5. /\ Remaining = 14 => act = "reset build"
          /\ Remaining = 13 => act = "reset sources"
          /\ Remaining = 12 => act = "drop build"
          /\ Remaining = 11 => act = "drop generate"
      <4>1. s[1] = "reset build" /\ s[2] = "reset sources" /\ s[3] = "drop build" /\ s[4] = "drop generate"
        BY <3>3 DEF IsBuildScript
      <4> QED
        BY <3>4, <4>1
    <3>6. /\ Remaining = 10 => act = "drop check"
          /\ Remaining = 9 => act = "check"
          /\ Remaining = 8 => act = "python"
      <4>1. s[5] = "drop check" /\ s[6] = "check" /\ s[7] = "python"
        BY <3>3 DEF IsBuildScript
      <4> QED
        BY <3>4, <4>1
    <3>7. /\ Remaining = 7 => act = "native"
          /\ Remaining = 6 => act = "crate"
          /\ Remaining = 5 => act = "copy"
      <4>1. s[8] = "native" /\ s[9] = "crate" /\ s[10] = "copy"
        BY <3>3 DEF IsBuildScript
      <4> QED
        BY <3>4, <4>1
    <3>8. /\ Remaining = 4 => act = "fallback"
          /\ Remaining = 3 => act = "wheel"
          /\ Remaining = 2 => act = "executable"
          /\ Remaining = 1 => act = "report"
      <4>1. s[11] = "fallback" /\ s[12] = "wheel" /\ s[13] = "executable" /\ s[14] = "report"
        BY <3>3 DEF IsBuildScript
      <4> QED
        BY <3>4, <4>1
    <3> QED
      BY <3>1, <3>2, <3>5, <3>6, <3>7, <3>8 DEF AtBuild
  <2>2. ASSUME InGenerate PROVE AtGenerate(act)
    <3> DEFINE s == Script("generate")
    <3>1. Remaining \in 1..9 /\ act = s[10 - Remaining]
      BY <1>6, <2>2
    <3>2. \/ Remaining = 1 \/ Remaining = 2 \/ Remaining = 3 \/ Remaining = 4 \/ Remaining = 5
          \/ Remaining = 6 \/ Remaining = 7 \/ Remaining = 8 \/ Remaining = 9
      BY <3>1
    <3>3. IsGenerateScript(s)
      BY GenerateSteps
    <3> HIDE DEF s
    <3>4. /\ Remaining = 9 => act = s[1]
          /\ Remaining = 8 => act = s[2]
          /\ Remaining = 7 => act = s[3]
          /\ Remaining = 6 => act = s[4]
          /\ Remaining = 5 => act = s[5]
          /\ Remaining = 4 => act = s[6]
          /\ Remaining = 3 => act = s[7]
          /\ Remaining = 2 => act = s[8]
          /\ Remaining = 1 => act = s[9]
      BY <3>1
    <3>5. /\ Remaining = 9 => act = "reset sources"
          /\ Remaining = 8 => act = "drop build"
          /\ Remaining = 7 => act = "drop generate"
          /\ Remaining = 6 => act = "drop check"
      <4>1. /\ s[1] = "reset sources" /\ s[2] = "drop build"
            /\ s[3] = "drop generate" /\ s[4] = "drop check"
        BY <3>3 DEF IsGenerateScript
      <4> QED
        BY <3>4, <4>1
    <3>6. /\ Remaining = 5 => act = "check"
          /\ Remaining = 4 => act = "python"
          /\ Remaining = 3 => act = "native source"
          /\ Remaining = 2 => act = "crate source"
          /\ Remaining = 1 => act = "report"
      <4>1. /\ s[5] = "check" /\ s[6] = "python" /\ s[7] = "native source"
            /\ s[8] = "crate source" /\ s[9] = "report"
        BY <3>3 DEF IsGenerateScript
      <4> QED
        BY <3>4, <4>1
    <3> QED
      BY <3>1, <3>2, <3>5, <3>6 DEF AtGenerate
  <2>3. /\ cmd.failed \/ cmd.kind \in {"check", "clean"} => act \in Mild
        /\ cmd.kind \in Reporters /\ Remaining = 1 => act = "report"
    BY <1>4 DEF InScript
  <2> QED
    BY <1>1, <1>2, <2>1, <2>2, <2>3 DEF AtStep
<1> QED
  BY <1>3, <1>7, <1>8


-----------------------------------------------------------------------------
(* The inductive invariant.                                                 *)
\* No tree and no artifact has the native module of one command and the
\* wrappers of another.
One(x) == x.python = None \/ x.native \in {None, x.python}
Whole  == /\ One(tree) /\ One(copy) /\ \A x \in Names : One(dist[x])
          /\ dist["pure-wheel"].native = None

\* Whose the generated tree and its copy are, by the distance from the end.
Current ==
  /\ InBuild => /\ Remaining \in 8..12 => tree = Nothing
                /\ Remaining \in 0..7 => tree.python = me
                /\ Remaining \in 0..4 => copy.python = me
  /\ InGenerate => (Remaining \in 4..8 => tree = Nothing)

Lists == reports["build"].lists

Kept == \A x \in Lists : dist[x] = Nothing \/ reports["build"].run \in {dist[x].python, dist[x].native}

\* Between its reset and its report a build has no report, and what a stage
\* built is this command's.
OwnResults ==
  InBuild =>
    /\ Remaining \in 1..11 => Lists = {}
    /\ results["wheel"] = "built" => Remaining \in 0..2 /\ dist[WheelName].python = me
    /\ results["executable"] = "built" =>
         Remaining \in 0..1 /\ me \in {dist["executable"].python, dist["executable"].native}
    /\ results["crate"] = "built" => Remaining \in 0..5 /\ dist["crate"].native = me

\* A command whose script has ended has reported, and with the right status.
Reported ==
  cmd.kind \in Reporters /\ cmd.left = <<>> =>
    /\ reports[cmd.kind].run = me
    /\ (reports[cmd.kind].status = "built") = ~ (cmd.failed \/ Blocked \/ FailedStage)

PipelineInv == WellTyped /\ InScript /\ Whole /\ Current /\ Kept /\ OwnResults /\ Reported /\ ExitMatchesReport


\* The distances from the end, before a step of the script and after it.
Countdown(old, new) ==
  /\ new \in 8..12 => old \in 9..13
  /\ new \in 0..7 => old \in 1..8
  /\ new \in 0..4 => old \in 1..5
  /\ new \in 4..8 => old \in 5..9
  /\ new \in 1..11 => old \in 2..12
  /\ old \in 9..13 /\ old # 13 => old \in 8..12
  /\ old \in 1..8 /\ old # 8 => old \in 0..7
  /\ old \in 1..5 /\ old # 5 => old \in 0..4
  /\ old \in 5..9 /\ old # 9 => old \in 4..8
  /\ old \in 2..12 /\ old # 12 => old \in 1..11
  /\ old \in 0..2 => new \in 0..2 /\ old \notin 5..14
  /\ old \in 0..1 => new \in 0..1
  /\ old \in 0..5 => new \in 0..5
  /\ old = 14 => old \in 5..14 /\ new \notin 8..12 /\ new \notin 0..7 /\ new \notin 0..4
  /\ old = 13 => new \notin 0..7 /\ new \notin 0..4
  /\ old = 8 => new \notin 8..12 /\ new \notin 0..4
  /\ old = 5 => old \in 5..14 /\ new \notin 8..12 /\ old \in 0..7
  /\ old = 4 => new \notin 4..8
  /\ old = 7 => new \notin 8..12 /\ old \in 0..7 /\ old \notin 0..4 /\ new \notin 0..4
  /\ old = 6 => new \in 0..5 /\ old \in 1..11 /\ old \notin 0..2 /\ old \notin 0..1
  /\ old = 3 => new \in 0..2 /\ old \in 1..11 /\ old \in 0..4 /\ old \notin 0..1
  /\ old = 2 => new \in 0..1 /\ old \in 1..11 /\ old \in 0..4
  /\ old = 1 => new \notin 1..11 /\ new \in 0..2 /\ new \in 0..1 /\ new \in 0..5

LEMMA Counting ==
  ASSUME NEW old \in 1..14, NEW new, new = old - 1
  PROVE  Countdown(old, new)
<1>1. /\ new \in 8..12 => old \in 9..13
      /\ new \in 0..7 => old \in 1..8
      /\ new \in 0..4 => old \in 1..5
  OBVIOUS
<1>2. /\ new \in 4..8 => old \in 5..9
      /\ new \in 1..11 => old \in 2..12
      /\ old \in 9..13 /\ old # 13 => old \in 8..12
  OBVIOUS
<1>3. /\ old \in 1..8 /\ old # 8 => old \in 0..7
      /\ old \in 1..5 /\ old # 5 => old \in 0..4
      /\ old \in 5..9 /\ old # 9 => old \in 4..8
      /\ old \in 2..12 /\ old # 12 => old \in 1..11
  OBVIOUS
<1>4. /\ old \in 0..2 => new \in 0..2 /\ old \notin 5..14
      /\ old \in 0..1 => new \in 0..1
      /\ old \in 0..5 => new \in 0..5
  OBVIOUS
<1>5. /\ old = 14 => old \in 5..14 /\ new \notin 8..12 /\ new \notin 0..7 /\ new \notin 0..4
      /\ old = 13 => new \notin 0..7 /\ new \notin 0..4
      /\ old = 8 => new \notin 8..12 /\ new \notin 0..4
  OBVIOUS
<1>6. /\ old = 5 => old \in 5..14 /\ new \notin 8..12 /\ old \in 0..7
      /\ old = 4 => new \notin 4..8
  OBVIOUS
<1>7. /\ old = 7 => new \notin 8..12 /\ old \in 0..7 /\ old \notin 0..4 /\ new \notin 0..4
      /\ old = 6 => new \in 0..5 /\ old \in 1..11 /\ old \notin 0..2 /\ old \notin 0..1
  OBVIOUS
<1>8. /\ old = 3 => new \in 0..2 /\ old \in 1..11 /\ old \in 0..4 /\ old \notin 0..1
      /\ old = 2 => new \in 0..1 /\ old \in 1..11 /\ old \in 0..4
  OBVIOUS
<1>9. old = 1 => new \notin 1..11 /\ new \in 0..2 /\ new \in 0..1 /\ new \in 0..5
  OBVIOUS
<1> QED
  BY <1>1, <1>2, <1>3, <1>4, <1>5, <1>6, <1>7, <1>8, <1>9 DEF Countdown

LEMMA CountingBuild ==
  ASSUME NEW act, InBuild, AtStep(act), Onwards
  PROVE  Countdown(Remaining, Remaining')
<1>1. Remaining \in 1..14 /\ Remaining' = Remaining - 1
  BY DEF AtStep, AtBuild, Onwards
<1> QED
  BY <1>1, Counting

LEMMA CountingGenerate ==
  ASSUME NEW act, InGenerate, AtStep(act), Onwards
  PROVE  Countdown(Remaining, Remaining')
<1>1. Remaining \in 1..9 /\ Remaining' = Remaining - 1
  BY DEF AtStep, AtGenerate, Onwards
<1>2. ASSUME NEW old \in 1..9 PROVE old \in 1..14
  OBVIOUS
<1> QED
  BY <1>1, <1>2, Counting

LEMMA Advances ==
  ASSUME PipelineInv, NEW act, At(act), Advance
  PROVE  /\ AtStep(act) /\ Onwards /\ InScript' /\ ExitMatchesReport'
         /\ act # "report" => Reported'
<1>1. AtStep(act) /\ Onwards /\ InScript'
  BY Goes DEF PipelineInv
<1>2. ExitMatchesReport'
  <2>1. cmd'.kind # "idle"
    BY <1>1 DEF AtStep, Onwards, Kinds
  <2> QED
    BY <2>1 DEF ExitMatchesReport, Running
<1>3. ASSUME act # "report" PROVE ~ (cmd'.kind \in Reporters /\ cmd'.left = <<>>)
  BY <1>1, <1>3 DEF AtStep, Onwards
<1> QED
  BY <1>1, <1>2, <1>3 DEF Reported

\* What a step of the script leaves alone stays true of it.
LEMMA FreshStays ==
  ASSUME Current, NEW act, AtStep(act), Onwards, UNCHANGED <<tree, copy, count>>,
         act \notin {"reset sources", "python", "copy"}
  PROVE  Current'
<1>1. ASSUME InBuild
      PROVE  /\ Remaining' \in 8..12 => tree = Nothing
             /\ Remaining' \in 0..7 => tree.python = me
             /\ Remaining' \in 0..4 => copy.python = me
  <2>1. Remaining # 13 /\ Remaining # 8 /\ Remaining # 5
    BY <1>1 DEF AtStep, AtBuild, Onwards
  <2>2. /\ Remaining' \in 8..12 => Remaining \in 8..12
        /\ Remaining' \in 0..7 => Remaining \in 0..7
        /\ Remaining' \in 0..4 => Remaining \in 0..4
    BY <1>1, <2>1, CountingBuild DEF Countdown
  <2> QED
    BY <1>1, <2>2 DEF Current
<1>2. ASSUME InGenerate PROVE Remaining' \in 4..8 => tree = Nothing
  <2>1. Remaining # 9
    BY <1>2 DEF AtStep, AtGenerate, Onwards
  <2>2. Remaining' \in 4..8 => Remaining \in 4..8
    BY <1>2, <2>1, CountingGenerate DEF Countdown
  <2> QED
    BY <1>2, <2>2 DEF Current
<1> QED
  BY <1>1, <1>2 DEF Current, Onwards, me

LEMMA KeptStays ==
  ASSUME Kept, UNCHANGED dist, reports'["build"] = reports["build"]
  PROVE  Kept'
BY DEF Kept, Lists

LEMMA MadeStays ==
  ASSUME OwnResults, NEW act, AtStep(act), Onwards, UNCHANGED <<dist, results, count>>,
         copy' = copy \/ (InBuild => Remaining \in 5..14),
         \/ reports'["build"].lists = {}
         \/ act # "drop build" /\ reports'["build"] = reports["build"]
  PROVE  OwnResults'
<1>1. SUFFICES ASSUME InBuild PROVE OwnResults'
  BY DEF OwnResults, Onwards
<1>2. Remaining \in 1..14 /\ (act # "drop build" => Remaining # 12)
  BY <1>1 DEF AtStep, AtBuild, Onwards
<1>3. Remaining' \in 1..11 => Lists' = {}
  <2>1. Remaining' \in 1..11 /\ Remaining # 12 => Remaining \in 1..11
    BY <1>1, CountingBuild DEF Countdown
  <2> QED
    BY <1>1, <1>2, <2>1 DEF OwnResults, Lists
<1>4. /\ Remaining \in 0..2 => Remaining' \in 0..2 /\ Remaining \notin 5..14
      /\ Remaining \in 0..1 => Remaining' \in 0..1
      /\ Remaining \in 0..5 => Remaining' \in 0..5
  BY <1>1, CountingBuild DEF Countdown
<1>5. results["wheel"] = "built" => Remaining' \in 0..2 /\ dist[WheelName'].python = me
  BY <1>1, <1>4 DEF OwnResults, WheelName, Onwards
<1> QED
  BY <1>1, <1>3, <1>4, <1>5 DEF OwnResults, me

-----------------------------------------------------------------------------
(* The steps that write the trees.                                          *)
LEMMA TreeSteps ==
  ASSUME PipelineInv, ResetBuildDir \/ ResetSources \/ WritePython \/ CopyTree
  PROVE  PipelineInv'
<1> USE Types0
<1>0. PICK act \in {"reset build", "reset sources", "python", "copy"} :
        /\ At(act) /\ Advance
        /\ act = "reset build" => copy' = Nothing /\ tree' = tree
        /\ act = "reset sources" => tree' = Nothing /\ copy' = copy
        /\ act = "python" => tree' = [tree EXCEPT !.python = me] /\ copy' = copy
        /\ act = "copy" => copy' = tree /\ tree' = tree
        /\ UNCHANGED <<dist, reports, results, ended, count>>
  BY DEF ResetBuildDir, ResetSources, WritePython, CopyTree
<1>1. AtStep(act) /\ Onwards /\ InScript' /\ ExitMatchesReport' /\ Reported'
  BY <1>0, Advances
<1>2. WellTyped'
  BY <1>0, <1>1 DEF PipelineInv, WellTyped, Pieces, Onwards, me
<1>3. /\ InBuild => /\ act = "reset build" <=> Remaining = 14
                    /\ act = "reset sources" <=> Remaining = 13
                    /\ act = "python" <=> Remaining = 8
                    /\ act = "copy" <=> Remaining = 5
                    /\ Remaining \in 1..14
      /\ InGenerate => /\ act = "reset sources" <=> Remaining = 9
                       /\ act = "python" <=> Remaining = 4
                       /\ act \in {"reset sources", "python"} /\ Remaining \in 1..9
      /\ cmd.failed \/ cmd.kind \in {"check", "clean"} => act \in {"reset build", "reset sources"}
      /\ Remaining' = Remaining - 1
  BY <1>0, <1>1 DEF AtStep, AtBuild, AtGenerate, Onwards, Mild
<1>4. act = "python" => tree = Nothing
  <2>1. act = "python" => InBuild \/ InGenerate
    BY <1>1, <1>3 DEF AtStep, InBuild, InGenerate, Kinds
  <2> QED
    BY <1>3, <2>1 DEF PipelineInv, Current
<1>5. Whole'
  <2>1. One(tree) /\ One(copy) /\ One(Nothing) /\ tree \in Pieces
    BY DEF PipelineInv, WellTyped, Whole, One, Nothing
  <2>2. One(tree')
    <3>1. CASE act = "python"
      BY <1>0, <1>4, <2>1, <3>1 DEF One, Nothing, Pieces
    <3> QED
      BY <1>0, <2>1, <3>1
  <2>3. One(copy')
    BY <1>0, <2>1
  <2> QED
    BY <1>0, <2>2, <2>3 DEF PipelineInv, Whole, One
<1>6. Current'
  <2>1. ASSUME InBuild
        PROVE  /\ Remaining' \in 8..12 => tree' = Nothing
               /\ Remaining' \in 0..7 => tree'.python = me
               /\ Remaining' \in 0..4 => copy'.python = me
    <3>0. Countdown(Remaining, Remaining')
      BY <1>1, <2>1, CountingBuild
    <3>1. CASE act = "reset build"
      <4>1. Remaining = 14
        BY <1>3, <2>1, <3>1
      <4> QED
        BY <3>0, <4>1 DEF Countdown
    <3>2. CASE act = "reset sources"
      <4>1. Remaining = 13
        BY <1>3, <2>1, <3>2
      <4>2. tree' = Nothing
        BY <1>0, <3>2
      <4> QED
        BY <3>0, <4>1, <4>2 DEF Countdown
    <3>3. CASE act = "python"
      <4>1. Remaining = 8
        BY <1>3, <2>1, <3>3
      <4>2. tree'.python = me
        BY <1>0, <3>3 DEF PipelineInv, WellTyped, Pieces
      <4> QED
        BY <3>0, <4>1, <4>2 DEF Countdown
    <3>4. CASE act = "copy"
      <4>1. Remaining = 5
        BY <1>3, <2>1, <3>4
      <4>2. tree.python = me
        BY <2>1, <3>0, <4>1 DEF PipelineInv, Current, Countdown
      <4>3. tree'.python = me /\ copy'.python = me
        BY <1>0, <3>4, <4>2
      <4> QED
        BY <3>0, <4>1, <4>3 DEF Countdown
    <3> QED
      BY <1>0, <3>1, <3>2, <3>3, <3>4
  <2>2. ASSUME InGenerate PROVE Remaining' \in 4..8 => tree' = Nothing
    <3>1. CASE act = "reset sources"
      BY <1>0, <3>1
    <3>2. CASE act = "python"
      <4>1. Remaining = 4
        BY <1>3, <2>2, <3>2
      <4> QED
        BY <1>1, <2>2, <4>1, CountingGenerate DEF Countdown
    <3> QED
      BY <1>3, <2>2, <3>1, <3>2
  <2> QED
    BY <1>0, <1>1, <2>1, <2>2 DEF Current, Onwards, me
<1>7. Kept'
  BY <1>0, KeptStays DEF PipelineInv
<1>8. OwnResults'
  <2>1. ASSUME InBuild, copy' # copy PROVE Remaining \in 5..14
    <3>1. act = "reset build" \/ act = "copy"
      BY <1>0, <2>1
    <3>2. Remaining = 14 \/ Remaining = 5
      BY <1>3, <2>1, <3>1
    <3> QED
      BY <1>1, <2>1, <3>2, CountingBuild DEF Countdown
  <2> QED
    BY <1>0, <1>1, <2>1, MadeStays DEF PipelineInv
<1> QED
  BY <1>1, <1>2, <1>5, <1>6, <1>7, <1>8 DEF PipelineInv

(* The steps that write reports.                                            *)
LEMMA ReportTypes ==
  /\ [run |-> me, status |-> "checked", lists |-> {}] \in ReportRecord \/ ~ WellTyped
  /\ WellTyped => [run |-> me, status |-> BuildStatus, lists |-> Listed] \in ReportRecord
<1>1. ASSUME WellTyped PROVE me \in Stamp
  BY <1>1 DEF WellTyped, me
<1>2. BuildStatus \in Statuses
  BY DEF BuildStatus, Statuses
<1>3. Listed \in SUBSET Names
  BY DEF Listed, WheelName, Names, Wheels
<1>4. "checked" \in Statuses
  BY DEF Statuses
<1> QED
  BY <1>1, <1>2, <1>3, <1>4 DEF ReportRecord

LEMMA OtherReports ==
  ASSUME PipelineInv, ResetReport \/ WriteCheck
  PROVE  PipelineInv'
<1> USE Types0
<1>0. PICK act \in {"drop build", "drop generate", "drop check", "check"} :
        /\ At(act) /\ Advance /\ reports' \in [Reports -> ReportRecord]
        /\ act = "drop build" => reports'["build"] = NoReport
        /\ act # "drop build" => reports'["build"] = reports["build"]
        /\ UNCHANGED <<tree, copy, dist, results, ended, count>>
  <2>1. CASE ResetReport
    <3>1. PICK r \in Reports : /\ At(Drop[r]) /\ Advance
                               /\ reports' = [reports EXCEPT ![r] = NoReport]
                               /\ UNCHANGED <<tree, copy, dist, results, ended, count>>
      BY <2>1 DEF ResetReport
    <3>2. /\ Drop[r] \in {"drop build", "drop generate", "drop check"}
          /\ Drop[r] = "drop build" <=> r = "build"
      <4>1. /\ Drop["build"] = "drop build" /\ Drop["generate"] = "drop generate"
            /\ Drop["check"] = "drop check"
        BY DEF Drop
      <4>2. r = "build" \/ r = "generate" \/ r = "check"
        BY DEF Reports
      <4> QED
        BY <4>1, <4>2
    <3>3. reports' \in [Reports -> ReportRecord] /\ "build" \in Reports
      BY <3>1 DEF PipelineInv, WellTyped, Reports
    <3> QED
      BY <3>1, <3>2, <3>3 DEF PipelineInv, WellTyped
  <2>2. CASE WriteCheck
    <3>1. /\ At("check") /\ Advance
          /\ UNCHANGED <<tree, copy, dist, results, ended, count>>
      BY <2>2 DEF WriteCheck
    <3>2. \/ reports' = [reports EXCEPT !["check"] =
                            [run |-> me, status |-> "checked", lists |-> {}]]
          \/ reports' = reports
      BY <2>2 DEF WriteCheck
    <3>3. /\ reports \in [Reports -> ReportRecord]
          /\ [run |-> me, status |-> "checked", lists |-> {}] \in ReportRecord
      BY ReportTypes DEF PipelineInv, WellTyped
    <3>4. reports' \in [Reports -> ReportRecord] /\ reports'["build"] = reports["build"]
      BY <3>2, <3>3 DEF Reports
    <3> QED
      BY <3>1, <3>4
  <2> QED
    BY <2>1, <2>2
<1>1. AtStep(act) /\ Onwards /\ InScript' /\ ExitMatchesReport' /\ Reported'
  BY <1>0, Advances
<1>2. WellTyped'
  BY <1>0, <1>1 DEF PipelineInv, WellTyped, Onwards
<1>3. Whole' /\ Current'
  BY <1>0, <1>1, FreshStays DEF PipelineInv, Whole, One
<1>4. \/ reports'["build"].lists = {}
      \/ act # "drop build" /\ reports'["build"] = reports["build"]
  <2>1. NoReport.lists = {}
    BY DEF NoReport
  <2> QED
    BY <1>0, <2>1
<1>5. Kept'
  <2>1. ASSUME reports'["build"].lists = {} PROVE Kept'
    BY <2>1 DEF Kept, Lists
  <2>2. ASSUME reports'["build"] = reports["build"] PROVE Kept'
    BY <1>0, <2>2, KeptStays DEF PipelineInv
  <2> QED
    BY <1>4, <2>1, <2>2
<1>6. OwnResults'
  BY <1>0, <1>1, <1>4, MadeStays DEF PipelineInv
<1> QED
  BY <1>1, <1>2, <1>3, <1>5, <1>6 DEF PipelineInv


LEMMA StatusOfResults ==
  (BuildStatus = "built") = ~ (cmd.failed \/ Blocked \/ FailedStage)
<1>1. FailedStage <=> \/ Failed({"fallback"}) \/ Failed({"native"})
                      \/ Failed({"executable"}) \/ Failed({"crate"})
  BY DEF FailedStage, Failed
<1>2. CASE cmd.failed \/ Blocked \/ FailedStage
  <2>1. BuildStatus # "built"
    BY <1>1, <1>2 DEF BuildStatus
  <2> QED
    BY <1>2, <2>1
<1>3. CASE ~ (cmd.failed \/ Blocked \/ FailedStage)
  <2>1. BuildStatus = "built"
    BY <1>1, <1>3 DEF BuildStatus
  <2> QED
    BY <1>3, <2>1
<1> QED
  BY <1>2, <1>3

LEMMA OwnReport ==
  ASSUME PipelineInv, WriteReport
  PROVE  PipelineInv'
<1> DEFINE act == "report"
           report == [run |-> me, status |-> BuildStatus, lists |-> Listed]
<1>0. /\ At(act) /\ Advance /\ reports' = [reports EXCEPT ![cmd.kind] = report]
      /\ UNCHANGED <<tree, copy, dist, results, ended, count>>
  BY DEF WriteReport
<1>1. AtStep(act) /\ Onwards /\ InScript' /\ ExitMatchesReport'
  BY <1>0, Advances
<1>2. /\ reports' \in [Reports -> ReportRecord] /\ "build" \in Reports
      /\ cmd.kind \in Reporters => reports'[cmd.kind] = report
      /\ cmd.kind # "build" => reports'["build"] = reports["build"]
  <2>1. report \in ReportRecord /\ reports \in [Reports -> ReportRecord]
    BY ReportTypes DEF PipelineInv, WellTyped
  <2> HIDE DEF report
  <2> QED
    BY <1>0, <2>1 DEF Reports, Reporters
<1>3. WellTyped'
  BY <1>0, <1>1, <1>2 DEF PipelineInv, WellTyped, Onwards
<1>4. Whole' /\ Current'
  BY <1>0, <1>1, FreshStays DEF PipelineInv, Whole, One
<1>5. ASSUME InBuild
      PROVE  /\ Remaining' \notin 1..11 /\ Remaining' \in 0..2 /\ Remaining' \in 0..1 /\ Remaining' \in 0..5
  <2>1. Remaining = 1
    BY <1>1, <1>5 DEF AtStep, AtBuild
  <2> QED
    BY <1>1, <1>5, <2>1, CountingBuild DEF Countdown
<1>6. OwnResults'
  <2>1. WheelName' = WheelName
    BY <1>0, <1>1 DEF WheelName, Onwards
  <2> QED
    BY <1>0, <1>1, <1>5, <2>1 DEF PipelineInv, OwnResults, Onwards, me
<1>7. Kept'
  <2>1. CASE cmd.kind # "build"
    BY <1>0, <1>2, <2>1, KeptStays DEF PipelineInv
  <2>2. CASE cmd.kind = "build"
    <3>1. reports'["build"].lists = Listed /\ reports'["build"].run = me
      BY <1>2, <2>2 DEF Reporters
    <3>2. ASSUME NEW x \in Listed PROVE me \in {dist[x].python, dist[x].native}
      <4>1. InBuild
        BY <2>2, <3>2 DEF Listed, InBuild
      <4>2. \/ x = "executable" /\ results["executable"] = "built"
            \/ x = "crate" /\ results["crate"] = "built"
            \/ x = WheelName /\ results["wheel"] = "built"
        BY <3>2 DEF Listed
      <4> QED
        BY <4>1, <4>2 DEF PipelineInv, OwnResults
    <3> QED
      BY <1>0, <3>1, <3>2 DEF Kept, Lists
  <2> QED
    BY <2>1, <2>2
<1>8. Reported'
  <2>1. ASSUME cmd.kind \in Reporters
        PROVE  /\ reports'[cmd.kind].run = me
               /\ (reports'[cmd.kind].status = "built") = ~ (cmd.failed \/ Blocked \/ FailedStage)
    BY <1>2, <2>1, StatusOfResults
  <2>2. (Blocked <=> Blocked') /\ (FailedStage <=> FailedStage') /\ me' = me
    BY <1>0, <1>1 DEF Blocked, FailedStage, Failed, Onwards, me
  <2> QED
    BY <1>1, <2>1, <2>2 DEF Reported, Onwards
<1> QED
  BY <1>1, <1>3, <1>4, <1>6, <1>7, <1>8 DEF PipelineInv

-----------------------------------------------------------------------------
(* The stages.                                                              *)
\* What one stage of a build does: it records a result.
Records(stage) == \E result \in {"skipped", "built", "failed"} : Finish(stage, result)

LEMMA Recorded ==
  ASSUME WellTyped, NEW stage \in Stages, Records(stage)
  PROVE  /\ results' \in StageResults
         /\ \A s \in Stages \ {stage} : results'[s] = results[s]
BY DEF WellTyped, StageResults, Records, Finish

\* The stages that write nothing in dist.
LEMMA QuietStages ==
  ASSUME PipelineInv, BuildNative \/ BuildFallback \/ GenerateSource
  PROVE  PipelineInv'
<1>0. PICK act \in {"native", "fallback", "native source", "crate source"} :
        /\ At(act) /\ Advance
        /\ act = "native" => Records("native") /\ tree' \in {tree, [tree EXCEPT !.native = me]}
        /\ act = "fallback" => Records("fallback") /\ tree' = tree
        /\ act = "native source" => Records("native") /\ tree' = tree
        /\ act = "crate source" => Records("crate") /\ tree' = tree
        /\ UNCHANGED <<copy, dist, reports, ended, count>>
  <2>1. CASE BuildNative
    BY <2>1 DEF BuildNative, Records
  <2>2. CASE BuildFallback
    BY <2>2 DEF BuildFallback, Records
  <2>3. CASE GenerateSource
    BY <2>3 DEF GenerateSource, Records
  <2> QED
    BY <2>1, <2>2, <2>3
<1>1. AtStep(act) /\ Onwards /\ InScript' /\ ExitMatchesReport' /\ Reported'
  BY <1>0, Advances
<1>2. /\ results' \in StageResults
      /\ act \in {"native", "fallback"} =>
           \A s \in {"wheel", "executable", "crate"} : results'[s] = results[s]
  BY <1>0, Recorded DEF PipelineInv, Stages
<1>3. act = "native" => InBuild /\ Remaining = 7 /\ tree.python = me
  <2>1. ASSUME act = "native" PROVE InBuild
    BY <1>1, <2>1 DEF AtStep, AtGenerate, InBuild, InGenerate, Mild, Kinds
  <2>2. ASSUME act = "native" PROVE Remaining = 7 /\ Countdown(Remaining, Remaining')
    BY <1>1, <2>1, <2>2, CountingBuild DEF AtStep, AtBuild
  <2> QED
    BY <2>1, <2>2 DEF PipelineInv, Current, Countdown
<1>4. tree' \in Pieces /\ One(tree')
  <2>1. CASE act = "native"
    BY <1>0, <1>3, <2>1 DEF PipelineInv, WellTyped, Pieces, Whole, One, me
  <2> QED
    BY <1>0, <2>1 DEF PipelineInv, WellTyped, Whole, One
<1>5. WellTyped'
  BY <1>0, <1>1, <1>2, <1>4 DEF PipelineInv, WellTyped, Onwards
<1>6. Whole'
  BY <1>0, <1>4 DEF PipelineInv, Whole, One
<1>7. Current'
  <2>1. CASE tree' = tree
    BY <1>0, <1>1, <2>1, FreshStays DEF PipelineInv
  <2>2. CASE tree' # tree
    <3>1. act = "native" /\ tree' = [tree EXCEPT !.native = me]
      BY <1>0, <2>2
    <3>2. InBuild /\ Remaining = 7 /\ tree'.python = me /\ Countdown(Remaining, Remaining')
      BY <1>1, <1>3, <3>1, CountingBuild DEF PipelineInv, WellTyped, Pieces
    <3>3. Remaining' \notin 8..12 /\ Remaining' \notin 0..4
      BY <3>2 DEF Countdown
    <3> QED
      BY <1>0, <1>1, <3>2, <3>3 DEF Current, Onwards, InBuild, InGenerate, me
  <2> QED
    BY <2>1, <2>2
<1>8. Kept'
  BY <1>0, KeptStays DEF PipelineInv
<1>9. OwnResults'
  <2>1. SUFFICES ASSUME InBuild PROVE OwnResults'
    BY <1>1 DEF OwnResults, Onwards
  <2>2. act \in {"native", "fallback"} /\ Remaining # 12 /\ Countdown(Remaining, Remaining')
    BY <1>0, <1>1, <2>1, CountingBuild DEF AtStep, AtBuild
  <2>3. /\ results'["wheel"] = results["wheel"] /\ results'["executable"] = results["executable"]
        /\ results'["crate"] = results["crate"] /\ WheelName' = WheelName
        /\ me' = me /\ Lists' = Lists
    BY <1>0, <1>1, <1>2, <2>2 DEF WheelName, Onwards, me, Lists
  <2>4. /\ Remaining' \in 1..11 => Remaining \in 1..11
        /\ Remaining \in 0..2 => Remaining' \in 0..2
        /\ Remaining \in 0..1 => Remaining' \in 0..1
        /\ Remaining \in 0..5 => Remaining' \in 0..5
    BY <2>2 DEF Countdown
  <2> QED
    BY <1>0, <2>1, <2>3, <2>4 DEF PipelineInv, OwnResults
<1> QED
  BY <1>1, <1>5, <1>6, <1>7, <1>8, <1>9 DEF PipelineInv


\* The stages that write an artifact: what they have in common.
WritesArtifact(act, stage) ==
  /\ At(act) /\ Advance /\ Records(stage)
  /\ UNCHANGED <<tree, copy, reports, ended, count>>

LEMMA WritingStages ==
  ASSUME PipelineInv, NEW act \in {"crate", "wheel", "executable"}, WritesArtifact(act, act),
         dist' \in [Names -> Pieces], \A x \in Names : One(dist'[x]), dist'["pure-wheel"].native = None,
         OwnResults'
  PROVE  PipelineInv'
<1>1. AtStep(act) /\ Onwards /\ InScript' /\ ExitMatchesReport' /\ Reported'
  BY Advances DEF WritesArtifact
<1>2. results' \in StageResults
  BY Recorded DEF PipelineInv, Stages, WritesArtifact
<1>3. WellTyped'
  BY <1>1, <1>2 DEF PipelineInv, WellTyped, Onwards, WritesArtifact
<1>4. Whole' /\ Current'
  BY <1>1, FreshStays DEF PipelineInv, Whole, One, WritesArtifact
<1>5. Kept'
  <2>1. InBuild
    BY <1>1 DEF AtStep, AtGenerate, InBuild, InGenerate, Mild, Kinds
  <2>2. Remaining = 6 \/ Remaining = 3 \/ Remaining = 2
    BY <1>1, <2>1 DEF AtStep, AtBuild
  <2>3. Remaining \in 1..11
    BY <1>1, <2>1, <2>2, CountingBuild DEF Countdown
  <2>4. Lists = {}
    BY <2>1, <2>3 DEF PipelineInv, OwnResults
  <2> QED
    BY <2>4 DEF Kept, Lists, WritesArtifact
<1> QED
  BY <1>1, <1>3, <1>4, <1>5 DEF PipelineInv

LEMMA InABuild ==
  ASSUME PipelineInv, NEW act \in {"crate", "wheel", "executable"}, WritesArtifact(act, act)
  PROVE  /\ InBuild /\ Onwards /\ Countdown(Remaining, Remaining')
         /\ Remaining = (CASE act = "crate" -> 6 [] act = "wheel" -> 3 [] act = "executable" -> 2)
         /\ Remaining' \in 1..11 => Lists' = {}
         /\ \A s \in Stages \ {act} : results'[s] = results[s]
         /\ WheelName' = WheelName /\ me' = me /\ (InBuild <=> InBuild')
<1>1. AtStep(act) /\ Onwards
  BY Advances DEF WritesArtifact
<1>2. InBuild
  BY <1>1 DEF AtStep, AtGenerate, InBuild, InGenerate, Mild, Kinds
<1>3. Countdown(Remaining, Remaining')
  BY <1>1, <1>2, CountingBuild
<1>4. /\ act = "crate" => Remaining = 6
      /\ act = "wheel" => Remaining = 3
      /\ act = "executable" => Remaining = 2
  BY <1>1, <1>2 DEF AtStep, AtBuild
<1>5. Remaining \in 1..11
  BY <1>3, <1>4 DEF Countdown
<1>6. Lists' = {}
  BY <1>2, <1>5 DEF PipelineInv, OwnResults, Lists, WritesArtifact
<1>7. \A s \in Stages \ {act} : results'[s] = results[s]
  BY Recorded DEF PipelineInv, Stages, WritesArtifact
<1>8. WheelName' = WheelName /\ me' = me /\ (InBuild <=> InBuild')
  BY <1>1 DEF Onwards, WheelName, me, WritesArtifact
<1> QED
  BY <1>1, <1>2, <1>3, <1>4, <1>6, <1>7, <1>8

\* A packed tree, the pieces of a Rust executable and those of a crate.
LEMMA ArtifactPieces ==
  ASSUME PipelineInv
  PROVE  /\ me \in Stamp /\ "executable" \in Names /\ "crate" \in Names
         /\ \A x \in {copy, Nothing, [python |-> me, native |-> me], [python |-> None, native |-> me]} :
              x \in Pieces /\ One(x)
         /\ WheelName \in Names \ {"executable", "crate"}
         /\ WheelName = "pure-wheel" => copy.native = None
<1> USE Types0
<1>1. me \in Stamp /\ None \in Stamp
  BY DEF PipelineInv, WellTyped, me
<1>2. copy \in Pieces /\ One(copy) /\ Nothing \in Pieces /\ One(Nothing)
  BY DEF PipelineInv, WellTyped, Whole, One, Nothing
<1>3. [python |-> me, native |-> me] \in Pieces /\ One([python |-> me, native |-> me])
  BY <1>1 DEF Pieces, One
<1>4. [python |-> None, native |-> me] \in Pieces /\ One([python |-> None, native |-> me])
  BY <1>1 DEF Pieces, One
<1>5. /\ WheelName \in Names \ {"executable", "crate"}
      /\ WheelName = "pure-wheel" => copy.native = None
  BY DEF WheelName, Names, Wheels
<1>6. "executable" \in Names /\ "crate" \in Names
  BY DEF Names
<1> QED
  BY <1>1, <1>2, <1>3, <1>4, <1>5, <1>6

LEMMA CrateStage ==
  ASSUME PipelineInv, BuildCrate
  PROVE  PipelineInv'
<1> DEFINE act == "crate"
           crate == [python |-> None, native |-> me]
<1>0. /\ WritesArtifact(act, act)
      /\ \/ dist' = dist /\ results'["crate"] # "built"
         \/ dist' = [dist EXCEPT !["crate"] = crate]
  BY DEF BuildCrate, WritesArtifact, Records, Finish, PipelineInv, WellTyped, StageResults, Stages
<1>1. dist' \in [Names -> Pieces] /\ \A x \in Names \ {"crate"} : dist'[x] = dist[x]
  BY <1>0, ArtifactPieces DEF PipelineInv, WellTyped
<1>2. dist'["crate"] \in {dist["crate"], crate} /\ (results'["crate"] = "built" => dist'["crate"] = crate)
  BY <1>0, ArtifactPieces DEF PipelineInv, WellTyped
<1>3. /\ \A x \in Names : One(dist'[x])
      /\ dist'["pure-wheel"].native = None
  BY <1>1, <1>2, ArtifactPieces DEF PipelineInv, Whole, Names, Wheels
<1>4. OwnResults'
  <2>1. /\ InBuild /\ Onwards /\ Countdown(Remaining, Remaining') /\ Remaining = 6
        /\ Remaining' \in 1..11 => Lists' = {}
        /\ results'["wheel"] = results["wheel"] /\ results'["executable"] = results["executable"]
        /\ WheelName' = WheelName /\ me' = me
    BY <1>0, InABuild DEF Stages
  <2>2. Remaining \notin 0..2 /\ Remaining \notin 0..1 /\ Remaining' \in 0..5
    BY <2>1 DEF Countdown
  <2>3. results["wheel"] # "built" /\ results["executable"] # "built"
    BY <2>1, <2>2 DEF PipelineInv, OwnResults
  <2>4. results'["crate"] = "built" => dist'["crate"].native = me
    BY <1>2
  <2> QED
    BY <2>1, <2>2, <2>3, <2>4 DEF OwnResults
<1> QED
  BY <1>0, <1>1, <1>3, <1>4, WritingStages

LEMMA WheelStage ==
  ASSUME PipelineInv, BuildWheel
  PROVE  PipelineInv'
<1> DEFINE act == "wheel"
<1>0. /\ WritesArtifact(act, act)
      /\ \/ dist' = dist /\ results'["wheel"] # "built"
         \/ dist' = [dist EXCEPT ![WheelName] = copy]
  BY DEF BuildWheel, WritesArtifact, Records, Finish, PipelineInv, WellTyped, StageResults, Stages
<1>1. /\ dist' \in [Names -> Pieces] /\ \A x \in Names : dist'[x] # dist[x] => x = WheelName
      /\ dist'[WheelName] \in {dist[WheelName], copy}
      /\ results'["wheel"] = "built" => dist'[WheelName] = copy
  BY <1>0, ArtifactPieces DEF PipelineInv, WellTyped
<1>2. /\ \A x \in Names : One(dist'[x])
      /\ dist'["pure-wheel"].native = None
  <2>1. "pure-wheel" \in Names
    BY DEF Names, Wheels
  <2> QED
    BY <1>1, <2>1, ArtifactPieces DEF PipelineInv, Whole
<1>3. OwnResults'
  <2>1. /\ InBuild /\ Onwards /\ Countdown(Remaining, Remaining') /\ Remaining = 3
        /\ Remaining' \in 1..11 => Lists' = {}
        /\ results'["crate"] = results["crate"] /\ results'["executable"] = results["executable"]
        /\ WheelName' = WheelName /\ me' = me
    BY <1>0, InABuild DEF Stages
  <2>2. Remaining' \in 0..2 /\ Remaining \in 0..4 /\ Remaining \notin 0..1
        /\ (Remaining \in 0..5 => Remaining' \in 0..5)
    BY <2>1 DEF Countdown
  <2>3. results["executable"] # "built" /\ copy.python = me
    BY <2>1, <2>2 DEF PipelineInv, OwnResults, Current
  <2>4. dist'["crate"] = dist["crate"]
    BY <1>1, ArtifactPieces
  <2>5. results["crate"] = "built" => Remaining' \in 0..5 /\ dist["crate"].native = me
    BY <2>1, <2>2 DEF PipelineInv, OwnResults
  <2> QED
    BY <1>1, <2>1, <2>2, <2>3, <2>4, <2>5 DEF OwnResults
<1> QED
  BY <1>0, <1>1, <1>2, <1>3, WritingStages

LEMMA ExecutableStage ==
  ASSUME PipelineInv, BuildExecutable
  PROVE  PipelineInv'
<1> DEFINE act == "executable"
           rust == [python |-> me, native |-> me]
<1>0. /\ WritesArtifact(act, act)
      /\ \/ dist' = dist /\ results'["executable"] # "built"
         \/ Put(Nothing) /\ results'["executable"] # "built"
         \/ Put(copy)
         \/ Put(rust)
  BY
     DEF BuildExecutable, WritesArtifact, Records, Finish, PipelineInv, WellTyped, StageResults,
         Stages
<1>1. PICK x \in {dist["executable"], Nothing, copy, rust} :
        /\ dist' = [dist EXCEPT !["executable"] = x]
        /\ results'["executable"] = "built" => x \in {copy, rust}
  BY <1>0 DEF Put, PipelineInv, WellTyped
<1>2. x \in Pieces /\ One(x)
  BY ArtifactPieces DEF PipelineInv, WellTyped, Whole
<1>3. /\ dist' \in [Names -> Pieces] /\ dist'["executable"] = x
      /\ \A y \in Names \ {"executable"} : dist'[y] = dist[y]
  BY <1>1, <1>2, ArtifactPieces DEF PipelineInv, WellTyped
<1>4. /\ \A y \in Names : One(dist'[y])
      /\ dist'["pure-wheel"].native = None
  <2>1. "pure-wheel" \in Names \ {"executable"}
    BY DEF Names, Wheels
  <2> QED
    BY <1>2, <1>3, <2>1 DEF PipelineInv, Whole
<1>5. OwnResults'
  <2>1. /\ InBuild /\ Onwards /\ Countdown(Remaining, Remaining') /\ Remaining = 2
        /\ Remaining' \in 1..11 => Lists' = {}
        /\ results'["crate"] = results["crate"] /\ results'["wheel"] = results["wheel"]
        /\ WheelName' = WheelName /\ me' = me
    BY <1>0, InABuild DEF Stages
  <2>2. /\ Remaining' \in 0..1 /\ Remaining \in 0..4
        /\ Remaining \in 0..5 => Remaining' \in 0..5
        /\ Remaining \in 0..2 => Remaining' \in 0..2
    BY <2>1 DEF Countdown
  <2>3. copy.python = me
    BY <2>1, <2>2 DEF PipelineInv, Current
  <2>4. results'["executable"] = "built" => dist'["executable"].python = me
    BY <1>1, <1>3, <2>3
  <2>5. dist'["crate"] = dist["crate"] /\ dist'[WheelName] = dist[WheelName]
    BY <1>3, ArtifactPieces
  <2>6. /\ results["crate"] = "built" => Remaining' \in 0..5 /\ dist["crate"].native = me
        /\ results["wheel"] = "built" => Remaining' \in 0..2 /\ dist[WheelName].python = me
    BY <2>1, <2>2 DEF PipelineInv, OwnResults
  <2> QED
    BY <2>1, <2>2, <2>4, <2>5, <2>6 DEF OwnResults
<1> QED
  BY <1>0, <1>3, <1>4, <1>5, WritingStages

LEMMA Removals ==
  ASSUME PipelineInv, RemoveOutputs
  PROVE  PipelineInv'
<1>0. PICK act \in {"remove executable", "remove crate", "remove wheels"} :
        /\ At(act) /\ Advance
        /\ \/ Put(Nothing)
           \/ dist' = [dist EXCEPT !["crate"] = Nothing]
           \/ dist' = [x \in Names |-> IF x \in Wheels THEN Nothing ELSE dist[x]]
        /\ UNCHANGED <<tree, copy, reports, results, ended, count>>
  BY DEF RemoveOutputs
<1>1. AtStep(act) /\ Onwards /\ InScript' /\ ExitMatchesReport' /\ Reported'
  BY <1>0, Advances
<1>2. dist' \in [Names -> Pieces] /\ \A x \in Names : dist'[x] \in {dist[x], Nothing}
  BY <1>0, Types0 DEF Put, PipelineInv, WellTyped
<1>3. WellTyped'
  BY <1>0, <1>1, <1>2 DEF PipelineInv, WellTyped, Onwards
<1>4. Whole' /\ Current'
  <2>1. One(Nothing) /\ Nothing.native = None /\ "pure-wheel" \in Names
    BY DEF One, Nothing, Names, Wheels
  <2>2. Whole'
    BY <1>0, <1>2, <2>1 DEF PipelineInv, Whole, One
  <2> QED
    BY <1>0, <1>1, <2>2, FreshStays DEF PipelineInv
<1>5. Kept'
  <2>1. Lists \subseteq Names
    BY DEF PipelineInv, WellTyped, Lists, ReportRecord, Reports
  <2> QED
    BY <1>0, <1>2, <2>1 DEF PipelineInv, Kept, Lists
<1>6. OwnResults'
  BY <1>0, <1>1 DEF AtStep, AtBuild, OwnResults, Onwards
<1> QED
  BY <1>1, <1>3, <1>4, <1>5, <1>6 DEF PipelineInv


-----------------------------------------------------------------------------
(* The beginning and the end of a command.                                  *)
LEMMA MildIsSteps ==
  ASSUME NEW left, Mildly(left)
  PROVE  left \in Seq(StepName)
<1>1. Mild \subseteq StepName
  BY DEF Mild
<1>2. left \in Seq(Mild)
  BY DEF Mildly
<1> QED
  BY <1>1, <1>2

\* A command that starts, or that starts over to report a failure.
Starts(kind, left, failed) ==
  /\ kind \in Kinds /\ failed \in BOOLEAN /\ left \in Seq(StepName)
  /\ kind \in Reporters => left # <<>> /\ Reporting(left)
  /\ failed \/ kind \in {"check", "clean"} => Mildly(left)
  /\ ~ failed /\ kind = "build" => left = Script("build")
  /\ ~ failed /\ kind = "generate" => left = Script("generate")

LEMMA OwnTail ==
  ASSUME NEW s \in Seq(StepName)
  PROVE  Tailing(s, s)
<1>1. \A i \in 1..Len(s) : Len(s) - Len(s) + i = i
  OBVIOUS
<1> QED
  BY <1>1 DEF Tailing

LEMMA StartedOver ==
  ASSUME PipelineInv, NEW kind, NEW config \in Config, NEW left, NEW failed, Starts(kind, left, failed),
         cmd' = [kind |-> kind, config |-> config, left |-> left, failed |-> failed],
         results' \in StageResults, failed \/ results' = NoResults,
         count' \in Stamp, UNCHANGED <<tree, copy, dist, reports, ended>>
  PROVE  PipelineInv'
<1>1. cmd' \in CommandRecord
  BY DEF Starts, CommandRecord
<1>2. WellTyped'
  BY <1>1 DEF PipelineInv, WellTyped
<1>3. /\ cmd'.kind = kind /\ cmd'.left = left /\ cmd'.failed = failed
      /\ InBuild' <=> kind = "build" /\ ~ failed
      /\ InGenerate' <=> kind = "generate" /\ ~ failed
      /\ Remaining' = Len(left)
  BY DEF InBuild, InGenerate, Remaining
<1>4. /\ InBuild' => /\ left = Script("build") /\ Len(left) = 14 /\ Tailing(left, Script("build"))
      /\ InGenerate' => /\ left = Script("generate") /\ Len(left) = 9
                        /\ Tailing(left, Script("generate"))
  BY <1>3, BuildSteps, GenerateSteps, OwnTail DEF Starts, IsBuildScript, IsGenerateScript
<1>5. InScript'
  BY <1>3, <1>4 DEF InScript, Starts, Kinds
<1>6. /\ InBuild' => /\ Remaining' \notin 8..12 /\ Remaining' \notin 0..7 /\ Remaining' \notin 0..4
                     /\ Remaining' \notin 1..11
      /\ InGenerate' => Remaining' \notin 4..8
  <2>1. 14 \notin 8..12 /\ 14 \notin 0..7 /\ 14 \notin 0..4 /\ 14 \notin 1..11 /\ 9 \notin 4..8
    OBVIOUS
  <2> QED
    BY <1>3, <1>4, <2>1
<1>7. Whole' /\ Current' /\ Kept'
  <2>1. Whole' /\ Kept'
    BY DEF PipelineInv, Whole, One, Kept, Lists
  <2> QED
    BY <1>6, <2>1 DEF Current
<1>8. OwnResults'
  <2>1. InBuild' => results' = NoResults
    BY <1>3
  <2>2. \A s \in {"wheel", "executable", "crate"} : NoResults[s] # "built"
    BY DEF NoResults, Stages
  <2> QED
    BY <1>6, <2>1, <2>2 DEF OwnResults
<1>9. Reported' /\ ExitMatchesReport'
  BY <1>3 DEF Starts, Reported, ExitMatchesReport, Running, Kinds
<1> QED
  BY <1>2, <1>5, <1>7, <1>8, <1>9 DEF PipelineInv

LEMMA ScriptsStart ==
  /\ \A kind \in Kinds : Starts(kind, Script(kind), FALSE)
  /\ \A kind \in Reporters, left \in {Rejected, PluginFailed, OpenClosure} : Starts(kind, left, TRUE)
<1>1. Starts("build", Script("build"), FALSE)
  <2>1. /\ Script("build") \in Seq(StepName) /\ Script("build") # <<>>
        /\ Script("build")[Len(Script("build"))] = "report"
    <3>1. /\ Script("build") \in Seq(StepName) /\ Len(Script("build")) = 14
          /\ Script("build")[14] = "report"
      BY BuildSteps DEF IsBuildScript
    <3>2. ASSUME NEW s, Len(s) = 14 PROVE s # <<>>
      BY <3>2
    <3> QED
      BY <3>1, <3>2
  <2> QED
    BY <2>1 DEF Starts, Reporting, Kinds
<1>2. Starts("generate", Script("generate"), FALSE)
  <2>1. /\ Script("generate") \in Seq(StepName) /\ Script("generate") # <<>>
        /\ Script("generate")[Len(Script("generate"))] = "report"
    <3>1. /\ Script("generate") \in Seq(StepName) /\ Len(Script("generate")) = 9
          /\ Script("generate")[9] = "report"
      BY GenerateSteps DEF IsGenerateScript
    <3>2. ASSUME NEW s, Len(s) = 9 PROVE s # <<>>
      BY <3>2
    <3> QED
      BY <3>1, <3>2
  <2> QED
    BY <2>1 DEF Starts, Reporting, Kinds
<1>3. Starts("check", Script("check"), FALSE) /\ Starts("clean", Script("clean"), FALSE)
  BY MildScripts, MildIsSteps DEF Starts, Kinds, Reporters
<1>4. ASSUME NEW kind \in Reporters, NEW left \in {Rejected, PluginFailed, OpenClosure}
      PROVE  Starts(kind, left, TRUE)
  <2>1. Mildly(left) /\ Reporting(left) /\ left # <<>> /\ left \in Seq(StepName)
    BY MildScripts, MildIsSteps
  <2> QED
    BY <2>1 DEF Starts, Kinds, Reporters
<1> QED
  BY <1>1, <1>2, <1>3, <1>4 DEF Kinds

LEMMA StartStep ==
  ASSUME PipelineInv, Start
  PROVE  PipelineInv'
<1>1. PICK kind \in Kinds, config \in Config :
        cmd' \in [kind : {kind}, config : {config}, left : {Script(kind)}, failed : {FALSE}]
           \cup (IF kind \in {"build", "generate"}
                   THEN [kind : {kind}, config : {config}, failed : {TRUE},
                         left : {Rejected, PluginFailed} \cup
                                (IF kind = "build" /\ config.executable = "rust"
                                   THEN {OpenClosure} ELSE {})]
                   ELSE {})
  BY DEF Start
<1>2. PICK left, failed :
        /\ failed \in BOOLEAN
        /\ cmd' = [kind |-> kind, config |-> config, left |-> left, failed |-> failed]
        /\ \/ left = Script(kind) /\ ~ failed
           \/ kind \in Reporters /\ failed /\ left \in {Rejected, PluginFailed, OpenClosure}
  <2>1. CASE cmd' \in [kind : {kind}, config : {config}, left : {Script(kind)}, failed : {FALSE}]
    BY <2>1
  <2>2. CASE kind \in Reporters /\ cmd' \in [kind : {kind}, config : {config}, failed : {TRUE},
                                             left : {Rejected, PluginFailed, OpenClosure}]
    BY <2>2
  <2> QED
    BY <1>1, <2>1, <2>2 DEF Reporters
<1>3. Starts(kind, left, failed)
  BY <1>2, ScriptsStart
<1>4. count' \in Stamp /\ results' = NoResults /\ UNCHANGED <<tree, copy, dist, reports, ended>>
  BY DEF Start, PipelineInv, WellTyped, Stamp
<1> QED
  BY <1>2, <1>3, <1>4, Types0, StartedOver

LEMMA RaiseStep ==
  ASSUME PipelineInv, StageRaises
  PROVE  PipelineInv'
<1>1. PICK left \in {PluginFailed, Rejected} : cmd' = [cmd EXCEPT !.failed = TRUE, !.left = left]
  BY DEF StageRaises
<1>2. PICK act \in {"native", "native source", "crate source", "executable", "wheel"} :
        At(act) /\ ~ cmd.failed
  BY DEF StageRaises
<1>3. cmd.kind \in Reporters
  <2>1. cmd.left # <<>> /\ cmd.left \in Seq(StepName) /\ Head(cmd.left) = act
    BY <1>2 DEF At, PipelineInv, WellTyped, CommandRecord
  <2>2. ~ Mildly(cmd.left)
    BY <1>2, <2>1, MildTail DEF Mild
  <2> QED
    BY <2>1, <2>2 DEF PipelineInv, WellTyped, InScript, CommandRecord, Kinds, Reporters
<1>4. /\ cmd' = [kind |-> cmd.kind, config |-> cmd.config, left |-> left, failed |-> TRUE]
      /\ cmd.config \in Config
  BY <1>1 DEF PipelineInv, WellTyped, CommandRecord
<1>5. Starts(cmd.kind, left, TRUE)
  BY <1>3, ScriptsStart
<1>6. UNCHANGED <<tree, copy, dist, reports, results, ended, count>>
  BY DEF StageRaises
<1>7. results' \in StageResults /\ count' \in Stamp
  BY <1>6 DEF PipelineInv, WellTyped
<1> QED
  BY <1>4, <1>5, <1>6, <1>7, StartedOver

LEMMA Ends ==
  ASSUME PipelineInv, Return \/ Dies
  PROVE  PipelineInv'
<1> USE Types0
<1>1. /\ cmd' = Idle /\ results' = NoResults /\ ended' \in [kind : Kinds \cup {"idle", "died"}, exit : {0, 1}]
      /\ UNCHANGED <<tree, copy, dist, reports, count>>
  <2>1. CASE Return
    <3>1. PICK exit \in ExitCodes : ended' = [kind |-> cmd.kind, exit |-> exit]
      BY <2>1 DEF Return
    <3>2. exit \in {0, 1}
      BY <3>1 DEF ExitCodes
    <3> QED
      BY <2>1, <3>1, <3>2 DEF Return, PipelineInv, WellTyped, CommandRecord
  <2>2. CASE Dies
    BY <2>2 DEF Dies
  <2> QED
    BY <2>1, <2>2
<1>2. WellTyped'
  BY <1>1 DEF PipelineInv, WellTyped
<1>3. cmd'.kind = "idle" /\ cmd'.left = <<>> /\ ~ cmd'.failed
  BY <1>1 DEF Idle
<1>4. ~ InBuild' /\ ~ InGenerate' /\ Mildly(<<>>)
  BY <1>3 DEF InBuild, InGenerate, Mildly
<1>5. InScript' /\ Reported'
  BY <1>3, <1>4 DEF InScript, Reported, Reporters
<1>6. Current' /\ OwnResults'
  BY <1>4 DEF Current, OwnResults
<1>7. Whole' /\ Kept'
  BY <1>1 DEF PipelineInv, Whole, One, Kept, Lists
<1>8. ExitMatchesReport'
  <2>1. CASE Dies
    BY <2>1 DEF Dies, ExitMatchesReport
  <2>2. CASE Return
    <3>1. PICK exit \in ExitCodes : ended' = [kind |-> cmd.kind, exit |-> exit]
      BY <2>2 DEF Return
    <3>2. SUFFICES ASSUME cmd.kind \in Reporters
                   PROVE  /\ reports[cmd.kind].run = count
                          /\ (exit = 0) = (reports[cmd.kind].status = "built")
      BY <1>1, <3>1 DEF ExitMatchesReport, Reporters
    <3>3. exit = IF cmd.failed \/ Blocked \/ FailedStage THEN 1 ELSE 0
      BY <3>1, <3>2 DEF ExitCodes, Reporters
    <3>4. /\ reports[cmd.kind].run = count
          /\ (reports[cmd.kind].status = "built") = ~ (cmd.failed \/ Blocked \/ FailedStage)
      BY <2>2, <3>2 DEF PipelineInv, Reported, Return, me
    <3> QED
      BY <3>3, <3>4
  <2> QED
    BY <2>1, <2>2
<1> QED
  BY <1>2, <1>5, <1>6, <1>7, <1>8 DEF PipelineInv

LEMMA PipelineInit == Init => PipelineInv
<1> SUFFICES ASSUME Init PROVE PipelineInv
  OBVIOUS
<1> USE Types0
<1>1. WellTyped
  BY CommandsAssumption DEF Init, WellTyped, None, Stamp, Kinds
<1>2. cmd.kind = "idle" /\ cmd.left = <<>> /\ ~ cmd.failed
  BY DEF Init, Idle
<1>3. ~ InBuild /\ ~ InGenerate /\ Mildly(<<>>)
  BY <1>2 DEF InBuild, InGenerate, Mildly
<1>4. InScript /\ Reported /\ Current /\ OwnResults
  BY <1>2, <1>3 DEF InScript, Reported, Reporters, Current, OwnResults
<1>5. Whole
  BY DEF Init, Whole, One, Nothing, Names, Wheels
<1>6. Kept
  BY DEF Init, Kept, Lists, NoReport, Reports
<1>7. ExitMatchesReport
  BY DEF Init, ExitMatchesReport
<1> QED
  BY <1>1, <1>4, <1>5, <1>6, <1>7 DEF PipelineInv

LEMMA Unmoved == PipelineInv /\ UNCHANGED vars => PipelineInv'
<1> SUFFICES ASSUME PipelineInv, UNCHANGED vars PROVE PipelineInv'
  OBVIOUS
<1>1. UNCHANGED <<tree, copy, dist, reports, cmd, results, ended, count>>
  BY DEF vars
<1>2. WellTyped' /\ InScript'
  BY <1>1 DEF PipelineInv, WellTyped, InScript, InBuild, InGenerate
<1>3. Whole' /\ Current' /\ Kept'
  BY <1>1 DEF PipelineInv, Whole, One, Current, Kept, Lists, InBuild, InGenerate, Remaining, me
<1>4. OwnResults'
  BY <1>1 DEF PipelineInv, OwnResults, Lists, WheelName, InBuild, Remaining, me
<1>5. Reported' /\ ExitMatchesReport'
  BY <1>1 DEF PipelineInv, Reported, Blocked, FailedStage, Failed, ExitMatchesReport, Running, me
<1> QED
  BY <1>2, <1>3, <1>4, <1>5 DEF PipelineInv

LEMMA PipelineSteps == PipelineInv /\ [Next]_vars => PipelineInv'
<1> SUFFICES ASSUME PipelineInv, [Next]_vars PROVE PipelineInv'
  OBVIOUS
<1>1. CASE Start
  BY <1>1, StartStep
<1>2. CASE ResetBuildDir \/ ResetSources \/ WritePython \/ CopyTree
  BY <1>2, TreeSteps
<1>3. CASE ResetReport \/ WriteCheck
  BY <1>3, OtherReports
<1>4. CASE WriteReport
  BY <1>4, OwnReport
<1>5. CASE BuildNative \/ BuildFallback \/ GenerateSource
  BY <1>5, QuietStages
<1>6. CASE BuildCrate
  BY <1>6, CrateStage
<1>7. CASE BuildWheel
  BY <1>7, WheelStage
<1>8. CASE BuildExecutable
  BY <1>8, ExecutableStage
<1>9. CASE RemoveOutputs
  BY <1>9, Removals
<1>10. CASE StageRaises
  BY <1>10, RaiseStep
<1>11. CASE Return \/ Dies
  BY <1>11, Ends
<1>12. CASE NoMore \/ UNCHANGED vars
  BY <1>12, Unmoved DEF NoMore
<1> QED
  BY <1>1, <1>2, <1>3, <1>4, <1>5, <1>6, <1>7, <1>8, <1>9, <1>10, <1>11, <1>12 DEF Next, Step

\* The inductive invariant holds in every state of the commands.
THEOREM PipelineInvariant == Spec => []PipelineInv
<1> QED
  BY PipelineInit, PipelineSteps, PTL DEF Spec

\* Every variable of the commands is of its type.
THEOREM PipelineTyped == Spec => []PipelineTypeOK
<1>1. PipelineInv => PipelineTypeOK
  BY DEF PipelineInv, WellTyped, PipelineTypeOK, ReportRecord, CommandRecord, StageResults
<1> QED
  BY <1>1, PipelineInvariant, PTL

\* The report of a build is true of the artifacts it lists and of the exit of
\* its command, however the commands after it failed or died: a build drops the
\* reports before its first stage and writes its own after the last one.
THEOREM ReportsAreTrue == Spec => []ReportsTrue
<1>1. PipelineInv => ReportsTrue
  BY DEF PipelineInv, Kept, Lists, ReportsTrue, ReportedArtifacts
<1> QED
  BY <1>1, PipelineInvariant, PTL

\* No artifact mixes the native module of one command with the wrappers of
\* another: a build empties the generated tree before it writes there, and what
\* it packs is a copy of the tree it has written itself.
THEOREM ArtifactsAreWhole == Spec => []PiecesOfOneRun
<1>1. PipelineInv => PiecesOfOneRun
  BY DEF PipelineInv, Whole, One, PiecesOfOneRun
<1> QED
  BY <1>1, PipelineInvariant, PTL
=============================================================================
