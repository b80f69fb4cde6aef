--------------------------- MODULE StartupProofs ---------------------------
(***************************************************************************)
(* Theorems about Startup, for every file, every default, every program    *)
(* and every hardware: the configuration means what its lines say, the     *)
(* requests are answered as the registrations say, and the workers fit the *)
(* hardware.                                                               *)
(***************************************************************************)
EXTENDS Startup, FiniteSetTheorems, SequenceTheorems, TLAPS

\* The largest and the smallest element of a set of numbers.
LEMMA MaxIs ==
    ASSUME NEW S \in SUBSET Int, NEW m \in S, \A y \in S : y <= m
    PROVE  Max(S) = m
<1>1. \A y \in S : m >= y
  OBVIOUS
<1>2. Max(S) \in S /\ \A y \in S : Max(S) >= y
  BY <1>1, Zenon DEF Max
<1>3. Max(S) >= m /\ Max(S) <= m /\ Max(S) \in Int /\ m \in Int
  BY <1>2
<1> QED BY <1>3

LEMMA MinIs ==
    ASSUME NEW S \in SUBSET Int, NEW m \in S, \A y \in S : m <= y
    PROVE  Min(S) = m
<1>1. Min(S) \in S /\ \A y \in S : Min(S) <= y
  BY Zenon DEF Min
<1>2. Min(S) >= m /\ Min(S) <= m /\ Min(S) \in Int /\ m \in Int
  BY <1>1
<1> QED BY <1>2

LEMMA PairExtremes ==
    ASSUME NEW a \in Int, NEW b \in Int
    PROVE  /\ Min({a, b}) \in {a, b} /\ Min({a, b}) <= a /\ Min({a, b}) <= b
           /\ Max({a, b}) \in {a, b} /\ Max({a, b}) >= a /\ Max({a, b}) >= b
<1>1. CASE a <= b
  BY <1>1, MinIs, MaxIs
<1>2. CASE b <= a
  BY <1>2, MinIs, MaxIs
<1> QED BY <1>1, <1>2

-----------------------------------------------------------------------------
(* Sections. *)

Headers(i) == {j \in 1 .. i : lines[j].kind = "section"}

\* The headers up to a line have a last one, unless there are none.
HeadersInv ==
    \A i \in 0 .. Len(lines) :
        Headers(i) = {} \/ \E h \in Headers(i) : \A j \in Headers(i) : j <= h

\* The section of load_config is that of the last line read.
SectionInv == section = SectionOf(Len(lines))

\* A line leaves the sections of the earlier ones alone, and belongs to the
\* section of the line before it unless it is a header.
LEMMA SectionStep ==
    ASSUME lines \in Seq(Lines), HeadersInv, NEW l \in Lines, lines' = Append(lines, l),
           NEW n \in Nat, n = Len(lines)
    PROVE  /\ HeadersInv'
           /\ \A i \in 0 .. n : SectionOf(i)' = SectionOf(i)
           /\ SectionOf(n + 1)' = IF l.kind = "section" THEN l.name ELSE SectionOf(n)
<1>1. /\ Len(lines') = n + 1 /\ lines'[n + 1] = l
      /\ \A i \in 1 .. n : lines'[i] = lines[i]
  OBVIOUS
<1>2. \A i \in 0 .. n : Headers(i)' = Headers(i) /\ Headers(i) \subseteq 1 .. n
  BY <1>1 DEF Headers
<1>a. \A i \in 1 .. n + 1 : i \in 1 .. n \/ i = n + 1
  OBVIOUS
<1>b. 1 .. n \subseteq 1 .. n + 1 /\ n + 1 \in 1 .. n + 1
  OBVIOUS
<1>c. /\ \A j : j \in Headers(n + 1)' <=> j \in 1 .. n + 1 /\ lines'[j].kind = "section"
      /\ \A j : j \in Headers(n) <=> j \in 1 .. n /\ lines[j].kind = "section"
  BY DEF Headers
<1>3. /\ l.kind = "section" => Headers(n + 1)' = Headers(n) \cup {n + 1}
      /\ l.kind # "section" => Headers(n + 1)' = Headers(n)
  BY ONLY <1>1, <1>a, <1>b, <1>c, Zenon
<1>4. Headers(n) \subseteq 1 .. n /\ n \in 0 .. n
  BY <1>2
<1>s. \A i : SectionOf(i) = IF Headers(i) = {} THEN "none" ELSE lines[Max(Headers(i))].name
  BY DEF SectionOf, Headers
<1>r. \A i : SectionOf(i)' = IF Headers(i)' = {} THEN "none" ELSE lines'[Max(Headers(i)')].name
  BY DEF SectionOf, Headers
<1>h. \A i \in 0 .. n :
        Headers(i) = {} \/ \E h \in Headers(i) : \A j \in Headers(i) : j <= h
  BY DEF HeadersInv
<1>5. \A i \in 0 .. n : Headers(i) # {} => Max(Headers(i)) \in 1 .. n
  <2> TAKE i \in 0 .. n
  <2> HAVE Headers(i) # {}
  <2>1. PICK h \in Headers(i) : \A j \in Headers(i) : j <= h
    BY <1>h
  <2>2. Max(Headers(i)) = h
    BY <2>1, <1>2, MaxIs
  <2> QED BY <2>1, <2>2, <1>2
<1>6. \A i \in 0 .. n : SectionOf(i)' = SectionOf(i)
  BY <1>1, <1>2, <1>5, <1>s, <1>r
<1>7. SectionOf(n + 1)' = IF l.kind = "section" THEN l.name ELSE SectionOf(n)
  <2>1. CASE l.kind = "section"
    <3>1. Headers(n + 1)' = Headers(n) \cup {n + 1}
      BY <1>3, <2>1
    <3>2. Max(Headers(n) \cup {n + 1}) = n + 1
      <4> DEFINE H == Headers(n) \cup {n + 1}
      <4>1. H \in SUBSET Int /\ n + 1 \in H /\ \A y \in H : y <= n + 1
        BY <1>4
      <4> HIDE DEF H
      <4>2. Max(H) = n + 1
        BY <4>1, MaxIs
      <4> QED BY <4>2 DEF H
    <3>3. Headers(n + 1)' # {}
      BY <3>1
    <3>4. SectionOf(n + 1)' = lines'[n + 1].name
      BY ONLY <3>1, <3>2, <3>3, <1>r, Zenon
    <3> QED BY <2>1, <3>4, <1>1
  <2>2. CASE l.kind # "section"
    BY <2>2, <1>1, <1>3, <1>4, <1>5, <1>s, <1>r
  <2> QED BY <2>1, <2>2
<1>8. HeadersInv'
  <2> SUFFICES ASSUME NEW i \in 0 .. n + 1
               PROVE  \/ Headers(i)' = {}
                      \/ \E h \in Headers(i)' : \A j \in Headers(i)' : j <= h
    BY <1>1 DEF HeadersInv
  <2>1. CASE i \in 0 .. n
    BY <2>1, <1>2, <1>h
  <2>2. CASE i = n + 1 /\ l.kind = "section"
    <3>1. Headers(i)' = Headers(n) \cup {n + 1}
      BY <2>2, <1>3
    <3>2. \A j \in Headers(n) \cup {n + 1} : j <= n + 1
      BY <1>4
    <3> QED BY <3>1, <3>2
  <2>3. CASE i = n + 1 /\ l.kind # "section"
    <3>1. Headers(i)' = Headers(n)
      BY <2>3, <1>3
    <3> QED BY <3>1, <1>4, <1>h
  <2> QED BY <2>1, <2>2, <2>3
<1> QED BY <1>6, <1>7, <1>8

\* A line adds itself to the lines that set its key in the current section.
LEMMA SettingStep ==
    ASSUME lines \in Seq(Lines), HeadersInv, SectionInv, NEW l \in Lines,
           lines' = Append(lines, l), NEW n \in Nat, n = Len(lines), NEW s, NEW key
    PROVE  /\ l.kind = "pair" /\ l.key = key /\ section = s =>
                  Setting(s, key)' = Setting(s, key) \cup {n + 1}
           /\ ~(l.kind = "pair" /\ l.key = key /\ section = s) =>
                  Setting(s, key)' = Setting(s, key)
           /\ Setting(s, key) \subseteq 1 .. n
<1>1. /\ Len(lines') = n + 1 /\ lines'[n + 1] = l
      /\ \A i \in 1 .. n : lines'[i] = lines[i]
  OBVIOUS
<1>2. /\ \A i \in 0 .. n : SectionOf(i)' = SectionOf(i)
      /\ l.kind # "section" => SectionOf(n + 1)' = section
  BY SectionStep DEF SectionInv
<1>3. \A i \in 1 .. n : SectionOf(i)' = SectionOf(i)
  BY <1>2
<1>4. /\ \A i \in 1 .. n + 1 : i \in 1 .. n \/ i = n + 1
      /\ 1 .. n \subseteq 1 .. n + 1 /\ n + 1 \in 1 .. n + 1
  OBVIOUS
<1>5. \A i : i \in Setting(s, key)' <=>
              /\ i \in 1 .. n + 1
              /\ lines'[i].kind = "pair" /\ lines'[i].key = key /\ SectionOf(i)' = s
  BY <1>1, Zenon DEF Setting, Sets
<1>6. \A i : i \in Setting(s, key) <=>
              /\ i \in 1 .. n
              /\ lines[i].kind = "pair" /\ lines[i].key = key /\ SectionOf(i) = s
  BY Zenon DEF Setting, Sets
<1>7. "pair" # "section"
  OBVIOUS
<1>8. l.kind = "pair" => SectionOf(n + 1)' = section
  BY <1>2, <1>7
<1>9. \A i \in 1 .. n : i \in Setting(s, key)' <=> i \in Setting(s, key)
  BY ONLY <1>1, <1>3, <1>4, <1>5, <1>6, Zenon
<1>10. n + 1 \in Setting(s, key)' <=> l.kind = "pair" /\ l.key = key /\ section = s
  BY ONLY <1>1, <1>4, <1>5, <1>8, Zenon
<1>11. n + 1 \notin 1 .. n
  OBVIOUS
<1> QED BY ONLY <1>4, <1>5, <1>6, <1>9, <1>10, <1>11, Zenon

-----------------------------------------------------------------------------
(* The values of the keys. *)

\* What the text of a value is turned into.
Conv(key, v) == IF key \in {"port", "threads"} THEN stoul(v) ELSE v

\* The keys with one value.
Scalar(s, key) == Known(s, key) /\ key # "mount"

\* The key has the value of the last line that sets it, or the default.
Latest(s, key) ==
    \/ Setting(s, key) = {} /\ cfg[key] = Conv(key, Defaults[key])
    \/ \E i \in Setting(s, key) :
          /\ \A j \in Setting(s, key) : j <= i
          /\ cfg[key] = Conv(key, lines[i].value)

ScalarInv == \A s, key : Scalar(s, key) => Latest(s, key)

MountValues ==
    {l.value : l \in {x \in Lines : x.kind = "pair" /\ x.key = "mount" /\ x.value # Junk}}

MountLines == Setting("static", "mount")

\* Each line that mounts a directory has its place in the list.
MountInv ==
    /\ cfg.mounts \in Seq(MountValues)
    /\ Len(cfg.mounts) = Cardinality(MountLines)
    /\ \A i \in MountLines : cfg.mounts[Place(MountLines, i)] = lines[i].value

Shape == cfg = [key \in Keys |-> cfg[key]]

Numbers == cfg.port \in 0 .. MaxPort /\ cfg.threads \in Nat

Good == SectionInv /\ Shape /\ Numbers /\ ScalarInv /\ MountInv

ConfigInv ==
    /\ lines \in Seq(Lines) /\ HeadersInv
    /\ loading # "threw" => Good

LEMMA PortFacts == MaxPort \in Nat
BY DEF MaxPort

LEMMA ModFacts ==
    ASSUME NEW v \in Int
    PROVE  /\ stoul(v) \in Nat
           /\ v \in 0 .. 2^ULongBits - 1 => stoul(v) = v
<1>1. PICK d \in Nat : d = 2^ULongBits
  BY ConfigAssumption
<1>2. d > 0
  BY <1>1, ConfigAssumption, PortFacts
<1>3. v % d \in Nat /\ (v \in 0 .. d - 1 => v % d = v)
  BY ONLY <1>2, v \in Int, d \in Nat
<1> QED BY <1>1, <1>3 DEF stoul

LEMMA InitConfig == ConfigInit => ConfigInv
<1> SUFFICES ASSUME ConfigInit PROVE ConfigInv
  OBVIOUS
<1>1. lines = <<>> /\ section = "none" /\ cfg = Defaults
  BY DEF ConfigInit
<1>2. \A i \in 0 .. Len(lines) : Headers(i) = {}
  BY <1>1 DEF Headers
<1>3. HeadersInv
  BY <1>2 DEF HeadersInv
<1>4. SectionInv
  <2>1. Headers(Len(lines)) = {}
    BY <1>1, <1>2
  <2> QED BY <1>1, <2>1 DEF SectionInv, SectionOf, Headers
<1>5. \A s, key : Setting(s, key) = {}
  BY <1>1 DEF Setting
<1>6. Shape /\ Numbers
  <2>1. Shape
    BY <1>1, ConfigAssumption DEF Shape
  <2>2. PICK d \in Nat : d = 2^ULongBits
    BY ConfigAssumption
  <2>3. 0 .. d - 1 \subseteq Nat
    OBVIOUS
  <2>4. Defaults.threads \in Nat
    BY <2>2, <2>3, ConfigAssumption
  <2>5. Numbers
    BY <1>1, <2>4, ConfigAssumption DEF Numbers
  <2> QED BY <2>1, <2>5
<1>7. ScalarInv
  <2>1. 0 .. MaxPort \subseteq 0 .. 2^ULongBits - 1
    BY ConfigAssumption, PortFacts
  <2>2. Defaults.port \in Int /\ Defaults.threads \in Int
    BY ConfigAssumption
  <2>3. stoul(Defaults.port) = Defaults.port /\ stoul(Defaults.threads) = Defaults.threads
    BY <2>1, <2>2, ModFacts, ConfigAssumption
  <2>4. \A key : cfg[key] = Conv(key, Defaults[key])
    BY <2>3, <1>1 DEF Conv
  <2> QED BY <2>4, <1>5 DEF ScalarInv, Latest
<1>8. MountInv
  <2>1. cfg.mounts = <<>> /\ MountLines = {}
    BY <1>1, <1>5, ConfigAssumption DEF MountLines
  <2>2. <<>> \in Seq(MountValues) /\ Len(<<>>) = 0
    OBVIOUS
  <2>3. Cardinality({}) = 0
    BY FS_EmptySet
  <2> QED BY ONLY <2>1, <2>2, <2>3, Zenon DEF MountInv
<1>9. lines \in Seq(Lines)
  BY <1>1
<1> QED BY <1>3, <1>4, <1>6, <1>7, <1>8, <1>9 DEF ConfigInv, Good

\* A line that leaves a key alone, and one that sets it.
LEMMA LatestStep ==
    ASSUME lines \in Seq(Lines), HeadersInv, SectionInv, NEW l \in Lines,
           lines' = Append(lines, l), NEW s, NEW key, Latest(s, key),
           \/ /\ ~(l.kind = "pair" /\ l.key = key /\ section = s)
              /\ cfg'[key] = cfg[key]
           \/ /\ l.kind = "pair" /\ l.key = key /\ section = s
              /\ cfg'[key] = Conv(key, l.value)
    PROVE  Latest(s, key)'
<1>1. PICK n \in Nat : n = Len(lines)
  OBVIOUS
<1>2. /\ lines'[n + 1] = l /\ \A i \in 1 .. n : lines'[i] = lines[i]
  BY <1>1
<1>3. /\ l.kind = "pair" /\ l.key = key /\ section = s =>
            Setting(s, key)' = Setting(s, key) \cup {n + 1}
      /\ ~(l.kind = "pair" /\ l.key = key /\ section = s) =>
            Setting(s, key)' = Setting(s, key)
      /\ Setting(s, key) \subseteq 1 .. n
  BY <1>1, SettingStep
<1>4. CASE /\ ~(l.kind = "pair" /\ l.key = key /\ section = s)
           /\ cfg'[key] = cfg[key]
  <2>1. Setting(s, key)' = Setting(s, key)
    BY <1>3, <1>4
  <2>2. \A i \in Setting(s, key) : lines'[i] = lines[i]
    BY <1>2, <1>3
  <2> QED BY <2>1, <2>2, <1>4 DEF Latest, Conv, stoul
<1>5. CASE /\ l.kind = "pair" /\ l.key = key /\ section = s
           /\ cfg'[key] = Conv(key, l.value)
  <2>1. Setting(s, key)' = Setting(s, key) \cup {n + 1}
    BY <1>3, <1>5
  <2>2. \A j \in Setting(s, key)' : j <= n + 1
    BY <2>1, <1>3
  <2>3. n + 1 \in Setting(s, key)' /\ cfg'[key] = Conv(key, lines'[n + 1].value)
    BY <2>1, <1>2, <1>5
  <2> QED BY <2>2, <2>3 DEF Latest, Conv, stoul
<1> QED BY <1>4, <1>5

\* What the assignment of a pair does to the configuration.
LEMMA SetFacts ==
    ASSUME Shape, NEW s, NEW l
    PROVE  /\ ~Known(s, l.key) => Set(s, l) = cfg
           /\ Known(s, l.key) /\ l.key = "mount" =>
                Set(s, l) = [cfg EXCEPT !.mounts = Append(cfg.mounts, l.value)]
           /\ Scalar(s, l.key) => Set(s, l) = [cfg EXCEPT ![l.key] = Conv(l.key, l.value)]
<1>1. CASE ~Known(s, l.key)
  BY <1>1 DEF Set, Scalar
<1>2. CASE Known(s, l.key) /\ l.key = "mount"
  BY <1>2 DEF Set, Scalar
<1>3. CASE Known(s, l.key) /\ l.key # "mount" /\ l.key \in {"port", "threads"}
  BY <1>3 DEF Set, Scalar, Conv
<1>4. CASE Known(s, l.key) /\ l.key # "mount" /\ l.key \notin {"port", "threads"}
  BY <1>4 DEF Set, Scalar, Conv
<1> QED BY <1>1, <1>2, <1>3, <1>4

LEMMA PlaceFacts ==
    ASSUME NEW n \in Nat, NEW at \in SUBSET (1 .. n)
    PROVE  /\ IsFiniteSet(at) /\ Cardinality(at) \in Nat
           /\ Cardinality(at \cup {n + 1}) = Cardinality(at) + 1
           /\ \A i \in at : /\ Place(at, i) \in 1 .. Cardinality(at)
                            /\ Place(at \cup {n + 1}, i) = Place(at, i)
           /\ Place(at \cup {n + 1}, n + 1) = Cardinality(at) + 1
<1>0. IsFiniteSet(1 .. n)
  BY FS_Interval
<1>1. IsFiniteSet(at)
  BY <1>0, FS_Subset
<1>b. \A j \in at : j \in Nat /\ j <= n + 1
  OBVIOUS
<1>2. Cardinality(at) \in Nat /\ Cardinality(at \cup {n + 1}) = Cardinality(at) + 1
  BY <1>1, FS_CardinalityType, FS_AddElement
<1>3. ASSUME NEW i \in at
      PROVE  Place(at, i) \in 1 .. Cardinality(at) /\ Place(at \cup {n + 1}, i) = Place(at, i)
  <2> DEFINE B == {j \in at : j <= i}
  <2>1. B \subseteq at /\ i \in B /\ {j \in at \cup {n + 1} : j <= i} = B
    OBVIOUS
  <2> HIDE DEF B
  <2>2. IsFiniteSet(B) /\ Cardinality(B) \in Nat /\ Cardinality(B) <= Cardinality(at)
    BY <2>1, <1>1, FS_Subset, FS_CardinalityType
  <2>3. Cardinality(B) # 0
    BY <2>1, <2>2, FS_EmptySet
  <2>4. Place(at, i) = Cardinality(B) /\ Place(at \cup {n + 1}, i) = Cardinality(B)
    BY <2>1 DEF Place, B
  <2> QED BY <2>2, <2>3, <2>4, <1>2
<1>4. {j \in at \cup {n + 1} : j <= n + 1} = at \cup {n + 1}
  <2>1. \A j \in at \cup {n + 1} : j <= n + 1
    BY <1>b
  <2> QED BY ONLY <2>1, Zenon
<1>5. Place(at \cup {n + 1}, n + 1) = Cardinality(at) + 1
  BY <1>2, <1>4 DEF Place
<1> QED BY <1>1, <1>2, <1>3, <1>5

\* A line that ends nothing with an exception leaves the configuration as the
\* lines so far say.
LEMMA LineStep ==
    ASSUME ConfigInv, NEW l \in Lines, load_line(l)
    PROVE  ConfigInv'
<1>g. /\ lines \in Seq(Lines) /\ HeadersInv /\ lines' = Append(lines, l)
      /\ SectionInv /\ Shape /\ Numbers /\ ScalarInv /\ MountInv
  BY DEF ConfigInv, Good, load_line
<1>n. PICK n \in Nat : n = Len(lines)
  BY <1>g
<1>1. lines' \in Seq(Lines) /\ Len(lines') = n + 1
  BY <1>g, <1>n
<1>2. lines'[n + 1] = l /\ \A i \in 1 .. n : lines'[i] = lines[i]
  BY <1>g, <1>n
<1>3. /\ HeadersInv'
      /\ SectionOf(n + 1)' = IF l.kind = "section" THEN l.name ELSE SectionOf(n)
  BY <1>g, <1>n, SectionStep
<1> SUFFICES ASSUME loading' # "threw" PROVE Good'
  BY <1>1, <1>3 DEF ConfigInv
<1>4. section' = IF l.kind = "section" THEN l.name ELSE section
  BY DEF load_line, load_section, load_pair, load_nothing
<1>5. SectionInv'
  BY <1>1, <1>3, <1>4, <1>g, <1>n DEF SectionInv
<1>6. ASSUME NEW s, NEW key
      PROVE  /\ l.kind = "pair" /\ l.key = key /\ section = s =>
                    Setting(s, key)' = Setting(s, key) \cup {n + 1}
             /\ ~(l.kind = "pair" /\ l.key = key /\ section = s) =>
                    Setting(s, key)' = Setting(s, key)
             /\ Setting(s, key) \subseteq 1 .. n
  BY <1>g, <1>n, SettingStep
<1>m. MountLines \in SUBSET (1 .. n)
  BY <1>6 DEF MountLines
\* The line does not change the configuration.
<1>7. CASE cfg' = cfg /\ ~(l.kind = "pair" /\ Known(section, l.key))
  <2>1. Shape' /\ Numbers'
    BY <1>7, <1>g DEF Shape, Numbers
  <2>2. ScalarInv'
    <3> SUFFICES ASSUME NEW s, NEW key, Scalar(s, key) PROVE Latest(s, key)'
      BY DEF ScalarInv, Scalar, Known
    <3>1. Latest(s, key) /\ cfg'[key] = cfg[key]
      BY <1>7, <1>g DEF ScalarInv
    <3>2. ~(l.kind = "pair" /\ l.key = key /\ section = s)
      BY <1>7 DEF Scalar
    <3> QED BY <3>1, <3>2, <1>g, LatestStep
  <2>3. MountInv'
    <3>1. Known("static", "mount")
      BY DEF Known
    <3>2. MountLines' = MountLines
      BY <1>6, <1>7, <3>1 DEF MountLines
    <3>3. \A i \in MountLines : lines'[i] = lines[i]
      BY <1>m, <1>2
    <3> QED BY <3>2, <3>3, <1>7, <1>g DEF MountInv, Place
  <2> QED BY <2>1, <2>2, <2>3, <1>5 DEF Good
\* The line sets a key.
<1>8. CASE /\ l.kind = "pair" /\ Known(section, l.key) /\ ~Refused(section, l)
           /\ cfg' = Set(section, l)
  <2>1. CASE l.key = "mount"
    <3>1. section = "static" /\ l.value # Junk
      BY <1>8, <2>1 DEF Known, Refused
    <3>2. cfg' = [cfg EXCEPT !.mounts = Append(cfg.mounts, l.value)]
      BY <1>8, <2>1, <1>g, SetFacts
    <3>3. /\ cfg'.mounts = Append(cfg.mounts, l.value)
          /\ \A key \in Keys : key # "mounts" => cfg'[key] = cfg[key]
          /\ Shape'
      BY <3>2, <1>g DEF Shape, Keys
    <3>4. Numbers'
      BY <3>3, <1>g DEF Numbers, Keys
    <3>5. ScalarInv'
      <4> SUFFICES ASSUME NEW s, NEW key, Scalar(s, key) PROVE Latest(s, key)'
        BY DEF ScalarInv, Scalar, Known
      <4>1. key \in Keys /\ key # "mounts" /\ key # "mount"
        BY DEF Scalar, Known, Keys
      <4>2. Latest(s, key) /\ cfg'[key] = cfg[key]
        BY <3>3, <4>1, <1>g DEF ScalarInv
      <4> QED BY <4>1, <4>2, <2>1, <1>g, LatestStep
    <3>6. MountInv'
      <4>1. MountLines' = MountLines \cup {n + 1}
        BY <1>6, <1>8, <2>1, <3>1 DEF MountLines
      <4>2. l.value \in MountValues
        BY <1>8, <2>1, <3>1 DEF MountValues
      <4>3. /\ cfg.mounts \in Seq(MountValues) /\ Len(cfg.mounts) = Cardinality(MountLines)
            /\ \A i \in MountLines : cfg.mounts[Place(MountLines, i)] = lines[i].value
        BY <1>g DEF MountInv
      <4>4. /\ Cardinality(MountLines) \in Nat
            /\ Cardinality(MountLines \cup {n + 1}) = Cardinality(MountLines) + 1
            /\ \A i \in MountLines :
                  /\ Place(MountLines, i) \in 1 .. Cardinality(MountLines)
                  /\ Place(MountLines \cup {n + 1}, i) = Place(MountLines, i)
            /\ Place(MountLines \cup {n + 1}, n + 1) = Cardinality(MountLines) + 1
        BY <1>m, PlaceFacts
      <4>5. /\ cfg'.mounts \in Seq(MountValues)
            /\ Len(cfg'.mounts) = Cardinality(MountLines) + 1
            /\ cfg'.mounts[Cardinality(MountLines) + 1] = l.value
            /\ \A k \in 1 .. Cardinality(MountLines) : cfg'.mounts[k] = cfg.mounts[k]
        BY <3>3, <4>2, <4>3
      <4>6. \A i \in MountLines \cup {n + 1} :
              cfg'.mounts[Place(MountLines \cup {n + 1}, i)] = lines'[i].value
        BY <1>2, <1>m, <4>3, <4>4, <4>5
      <4> QED BY <4>1, <4>4, <4>5, <4>6 DEF MountInv, Place
    <3> QED BY <1>5, <3>3, <3>4, <3>5, <3>6 DEF Good
  <2>2. CASE l.key # "mount"
    <3>1. Scalar(section, l.key) /\ l.key \in Keys /\ l.key # "mounts"
      BY <1>8, <2>2 DEF Scalar, Known, Keys
    <3>2. cfg' = [cfg EXCEPT ![l.key] = Conv(l.key, l.value)]
      BY <1>8, <3>1, <1>g, SetFacts
    <3>3. /\ cfg'[l.key] = Conv(l.key, l.value) /\ Shape'
          /\ \A key \in Keys : key # l.key => cfg'[key] = cfg[key]
      BY <3>1, <3>2, <1>g DEF Shape
    <3>4. Numbers'
      <4>1. CASE l.key \notin {"port", "threads"}
        BY <3>3, <4>1, <1>g DEF Numbers, Keys
      <4>2. CASE l.key \in {"port", "threads"}
        <5>1. section = "server"
          BY <1>8, <4>2 DEF Known
        <5>2. l.value # Junk
          BY <1>8, <4>2, <5>1 DEF Refused, parse_unsigned_short, parse_size_t
        <5>3. l.value \in Int
          BY <1>8, <4>2, <5>2, LinesAssumption
        <5>4. stoul(l.value) \in Nat /\ Conv(l.key, l.value) = stoul(l.value)
          BY <4>2, <5>3, ModFacts DEF Conv
        <5>5. l.key = "port" => stoul(l.value) <= MaxPort
          BY <1>8, <5>1 DEF Refused, parse_unsigned_short
        <5> QED BY <3>3, <4>2, <5>4, <5>5, <1>g, PortFacts DEF Numbers, Keys
      <4> QED BY <4>1, <4>2
    <3>5. ScalarInv'
      <4> SUFFICES ASSUME NEW s, NEW key, Scalar(s, key) PROVE Latest(s, key)'
        BY DEF ScalarInv, Scalar, Known
      <4>1. Latest(s, key) /\ key \in Keys
        BY <1>g DEF ScalarInv, Scalar, Known, Keys
      <4>2. CASE l.key = key
        <5>1. section = s
          BY <4>2, <1>8 DEF Scalar, Known
        <5> QED BY <4>1, <4>2, <5>1, <3>3, <1>8, <1>g, LatestStep
      <4>3. CASE l.key # key
        BY <4>1, <4>3, <3>3, <1>g, LatestStep
      <4> QED BY <4>2, <4>3
    <3>6. MountInv'
      <4>1. MountLines' = MountLines
        BY <1>6, <2>2 DEF MountLines
      <4>2. \A i \in MountLines : lines'[i] = lines[i]
        BY <1>m, <1>2
      <4>3. cfg'.mounts = cfg.mounts
        BY <3>1, <3>3 DEF Keys
      <4> QED BY <4>1, <4>2, <4>3, <1>g DEF MountInv, Place
    <3> QED BY <1>5, <3>3, <3>4, <3>5, <3>6 DEF Good
  <2> QED BY <2>1, <2>2
<1>9. \/ cfg' = cfg /\ ~(l.kind = "pair" /\ Known(section, l.key))
      \/ /\ l.kind = "pair" /\ Known(section, l.key) /\ ~Refused(section, l)
         /\ cfg' = Set(section, l)
  <2>1. CASE load_section(l) \/ load_nothing(l)
    BY <2>1 DEF load_section, load_nothing
  <2>2. CASE load_pair(l)
    <3>1. l.kind = "pair" /\ ~Refused(section, l) /\ cfg' = Set(section, l)
      BY <2>2 DEF load_pair
    <3> QED BY <3>1, <1>g, SetFacts
  <2> QED BY <2>1, <2>2 DEF load_line
<1> QED BY <1>7, <1>8, <1>9

-----------------------------------------------------------------------------
(* The tables of the server. *)

\* What a program may mount, its configuration included.
AllRoots ==
    Roots \cup {Defaults.www_root} \cup {l.value : l \in Lines} \cup {v.root : v \in MountValues}

CallSet ==
    [op : {"route"}, key : Methods \X Paths, root : {"none"}]
    \cup [op : {"ws"}, key : Paths, root : {"none"}]
    \cup [op : {"mount"}, key : Seq(Chars), root : AllRoots]

\* The first handler of a method and path, the last one of a WebSocket path,
\* the first directory of a prefix.
RoutesInv ==
    \A k : /\ k \in DOMAIN routes_ <=> CallsFor("route", k) # {}
           /\ k \in DOMAIN routes_ => /\ routes_[k] \in CallsFor("route", k)
                                      /\ \A i \in CallsFor("route", k) : routes_[k] <= i

WsInv ==
    \A k : /\ k \in DOMAIN ws_routes_ <=> CallsFor("ws", k) # {}
           /\ k \in DOMAIN ws_routes_ => /\ ws_routes_[k] \in CallsFor("ws", k)
                                         /\ \A i \in CallsFor("ws", k) : i <= ws_routes_[k]

StaticInv ==
    \A k : /\ k \in DOMAIN static_mounts_ <=> CallsFor("mount", k) # {}
           /\ k \in DOMAIN static_mounts_ =>
                \E i \in CallsFor("mount", k) :
                    /\ \A j \in CallsFor("mount", k) : i <= j
                    /\ static_mounts_[k] = calls[i].root

\* The mounted prefixes of a path have a longest one, unless there are none.
LongestInv ==
    \A path \in Paths :
        \/ Mounted(path) = {}
        \/ \E p \in Mounted(path) : \A q \in Mounted(path) : Len(q) <= Len(p)

RoutingInv ==
    calls \in Seq(CallSet) /\ RoutesInv /\ WsInv /\ StaticInv /\ LongestInv

\* A registration adds itself to the calls for its key.
LEMMA CallStep ==
    ASSUME calls \in Seq(CallSet), NEW c \in CallSet, calls' = Append(calls, c),
           NEW n \in Nat, n = Len(calls), NEW op, NEW k
    PROVE  /\ c.op = op /\ c.key = k => CallsFor(op, k)' = CallsFor(op, k) \cup {n + 1}
           /\ ~(c.op = op /\ c.key = k) => CallsFor(op, k)' = CallsFor(op, k)
           /\ CallsFor(op, k) \subseteq 1 .. n
<1>1. /\ Len(calls') = n + 1 /\ calls'[n + 1] = c
      /\ \A i \in 1 .. n : calls'[i] = calls[i]
  OBVIOUS
<1>2. /\ \A i \in 1 .. n + 1 : i \in 1 .. n \/ i = n + 1
      /\ 1 .. n \subseteq 1 .. n + 1 /\ n + 1 \in 1 .. n + 1 /\ n + 1 \notin 1 .. n
  OBVIOUS
<1>3. \A i : i \in CallsFor(op, k)' <=>
              i \in 1 .. n + 1 /\ calls'[i].op = op /\ calls'[i].key = k
  BY <1>1, Zenon DEF CallsFor
<1>4. \A i : i \in CallsFor(op, k) <=> i \in 1 .. n /\ calls[i].op = op /\ calls[i].key = k
  BY Zenon DEF CallsFor
<1>5. \A i \in 1 .. n : i \in CallsFor(op, k)' <=> i \in CallsFor(op, k)
  BY ONLY <1>1, <1>2, <1>3, <1>4, Zenon
<1>6. n + 1 \in CallsFor(op, k)' <=> c.op = op /\ c.key = k
  BY ONLY <1>1, <1>2, <1>3, Zenon
<1> QED BY ONLY <1>2, <1>3, <1>4, <1>5, <1>6, Zenon

\* A path that two prefixes of the same length begin is begun by one.
LEMMA PrefixFacts ==
    ASSUME NEW path \in Seq(Chars), NEW p \in Seq(Chars), NEW q \in Seq(Chars),
           IsPrefix(p, path), IsPrefix(q, path), Len(p) = Len(q)
    PROVE  p = q
<1>1. SubSeq(p, 1, Len(p)) = p /\ SubSeq(q, 1, Len(q)) = q
  BY SubSeqFull
<1>2. /\ SubSeq(p, 1, Len(p)) = SubSeq(path, 1, Len(p))
      /\ SubSeq(q, 1, Len(q)) = SubSeq(path, 1, Len(q))
  BY DEF IsPrefix
<1> QED BY <1>1, <1>2

MountedChar ==
    \A path, p : p \in Mounted(path) <=>
                    CallsFor("mount", p) # {} /\ IsPrefix(p, path) /\ p # <<>>

LEMMA MountedIs == MountedChar
<1> SUFFICES ASSUME NEW path
             PROVE  \A p : p \in Mounted(path) <=>
                            CallsFor("mount", p) # {} /\ IsPrefix(p, path) /\ p # <<>>
  BY DEF MountedChar
<1>1. ASSUME NEW p, p \in Mounted(path)
      PROVE  CallsFor("mount", p) # {} /\ IsPrefix(p, path) /\ p # <<>>
  <2>1. PICK i \in 1 .. Len(calls) :
            calls[i].op = "mount" /\ IsPrefix(calls[i].key, path) /\ p = calls[i].key
    BY <1>1, Zenon DEF Mounted
  <2>2. i \in CallsFor("mount", p)
    BY <2>1, Zenon DEF CallsFor
  <2>3. p # <<>>
    BY <1>1, Zenon DEF Mounted
  <2> QED BY <2>1, <2>2, <2>3
<1>2. ASSUME NEW p, CallsFor("mount", p) # {}, IsPrefix(p, path), p # <<>>
      PROVE  p \in Mounted(path)
  <2>1. PICK i \in 1 .. Len(calls) : calls[i].op = "mount" /\ calls[i].key = p
    BY <1>2, Zenon DEF CallsFor
  <2> QED BY <1>2, <2>1, Zenon DEF Mounted
<1> QED BY <1>1, <1>2, Zenon

LEMMA InitRouting == RoutingInit => RoutingInv
<1> SUFFICES ASSUME RoutingInit PROVE RoutingInv
  OBVIOUS
<1>1. calls = <<>> /\ routes_ = Empty /\ ws_routes_ = Empty /\ static_mounts_ = Empty
  BY DEF RoutingInit
<1>2. \A op, k : CallsFor(op, k) = {}
  BY <1>1 DEF CallsFor
<1>3. DOMAIN Empty = {}
  BY DEF Empty
<1>4. RoutesInv /\ WsInv /\ StaticInv
  BY <1>1, <1>2, <1>3, Zenon DEF RoutesInv, WsInv, StaticInv
<1>5. LongestInv
  BY <1>2, MountedIs, Zenon DEF LongestInv, MountedChar
<1>6. calls \in Seq(CallSet)
  BY <1>1
<1> QED BY <1>4, <1>5, <1>6 DEF RoutingInv

\* A registration of another kind leaves a table's reading of the calls alone.
LEMMA OtherTables ==
    ASSUME RoutingInv, NEW c \in CallSet, calls' = Append(calls, c)
    PROVE  /\ c.op # "route" /\ routes_' = routes_ => RoutesInv'
           /\ c.op # "ws" /\ ws_routes_' = ws_routes_ => WsInv'
           /\ c.op # "mount" /\ static_mounts_' = static_mounts_ => StaticInv' /\ LongestInv'
<1>r. calls \in Seq(CallSet) /\ RoutesInv /\ WsInv /\ StaticInv /\ LongestInv
  BY DEF RoutingInv
<1>n. PICK n \in Nat : n = Len(calls)
  BY <1>r
<1>1. \A op, k : /\ c.op # op => CallsFor(op, k)' = CallsFor(op, k)
                 /\ CallsFor(op, k) \subseteq 1 .. n
  BY <1>r, <1>n, CallStep
<1>2. \A i \in 1 .. n : calls'[i] = calls[i]
  BY <1>r, <1>n
<1>3. ASSUME c.op # "route", routes_' = routes_ PROVE RoutesInv'
  <2>1. \A k : CallsFor("route", k)' = CallsFor("route", k)
    BY <1>1, <1>3
  <2> QED BY ONLY <2>1, <1>3, <1>r, Zenon DEF RoutesInv
<1>4. ASSUME c.op # "ws", ws_routes_' = ws_routes_ PROVE WsInv'
  <2>1. \A k : CallsFor("ws", k)' = CallsFor("ws", k)
    BY <1>1, <1>4
  <2> QED BY ONLY <2>1, <1>4, <1>r, Zenon DEF WsInv
<1>5. ASSUME c.op # "mount", static_mounts_' = static_mounts_ PROVE StaticInv' /\ LongestInv'
  <2>1. \A k : CallsFor("mount", k)' = CallsFor("mount", k)
    BY <1>1, <1>5
  <2>2. \A k : \A i \in CallsFor("mount", k) : calls'[i] = calls[i]
    BY <1>1, <1>2
  <2>3. StaticInv'
    BY ONLY <2>1, <2>2, <1>5, <1>r, Zenon DEF StaticInv
  <2>4. MountedChar /\ MountedChar'
    BY MountedIs, PTL
  <2>5. \A path, p : p \in Mounted(path)' <=> p \in Mounted(path)
    BY ONLY <2>1, <2>4, Zenon DEF MountedChar
  <2>6. \A path : Mounted(path)' = Mounted(path)
    BY ONLY <2>5
  <2> QED BY ONLY <2>3, <2>6, <1>r, Zenon DEF LongestInv
<1> QED BY <1>3, <1>4, <1>5

LEMMA RouteStep ==
    ASSUME RoutingInv, NEW m \in Methods, NEW p \in Paths, add_route(m, p)
    PROVE  RoutingInv'
<1> DEFINE key == << m, p >>
           c == [op |-> "route", key |-> key, root |-> "none"]
<1>r. calls \in Seq(CallSet) /\ RoutesInv /\ WsInv /\ StaticInv /\ LongestInv
  BY DEF RoutingInv
<1>n. PICK n \in Nat : n = Len(calls)
  BY <1>r
<1>1. c \in CallSet /\ c.op = "route" /\ c.key = key
  BY DEF CallSet
<1>2. /\ calls' = Append(calls, c) /\ ws_routes_' = ws_routes_ /\ static_mounts_' = static_mounts_
      /\ routes_' = emplace(routes_, key, n + 1)
  BY <1>n DEF add_route, Called
<1> HIDE DEF c, key
<1>3. WsInv' /\ StaticInv' /\ LongestInv'
  BY <1>1, <1>2, OtherTables
<1>4. calls' \in Seq(CallSet)
  BY <1>r, <1>1, <1>2
<1>c. \A op, k : /\ c.op = op /\ c.key = k => CallsFor(op, k)' = CallsFor(op, k) \cup {n + 1}
                 /\ ~(c.op = op /\ c.key = k) => CallsFor(op, k)' = CallsFor(op, k)
                 /\ CallsFor(op, k) \subseteq 1 .. n
  BY ONLY <1>r, <1>n, <1>1, <1>2, CallStep
<1>5. \A k : /\ k = key => CallsFor("route", k)' = CallsFor("route", k) \cup {n + 1}
             /\ k # key => CallsFor("route", k)' = CallsFor("route", k)
             /\ CallsFor("route", k) \subseteq 1 .. n
  BY ONLY <1>c, <1>1, Zenon
<1>6. /\ DOMAIN routes_' = DOMAIN routes_ \cup {key}
      /\ \A x \in DOMAIN routes_ : routes_'[x] = routes_[x]
      /\ key \notin DOMAIN routes_ => routes_'[key] = n + 1
  BY ONLY <1>2 DEF emplace
<1>7. RoutesInv'
  <2> SUFFICES ASSUME NEW k
               PROVE  /\ k \in DOMAIN routes_' <=> CallsFor("route", k)' # {}
                      /\ k \in DOMAIN routes_' =>
                            /\ routes_'[k] \in CallsFor("route", k)'
                            /\ \A i \in CallsFor("route", k)' : routes_'[k] <= i
    BY DEF RoutesInv
  <2>1. /\ k \in DOMAIN routes_ <=> CallsFor("route", k) # {}
        /\ k \in DOMAIN routes_ => /\ routes_[k] \in CallsFor("route", k)
                                   /\ \A i \in CallsFor("route", k) : routes_[k] <= i
    BY <1>r DEF RoutesInv
  <2>2. CASE k # key
    BY <2>1, <2>2, <1>5, <1>6
  <2>3. CASE k = key /\ key \in DOMAIN routes_
    <3>1. CallsFor("route", k)' = CallsFor("route", k) \cup {n + 1} /\ routes_'[k] = routes_[k]
      BY <2>3, <1>5, <1>6
    <3>2. routes_[k] \in 1 .. n
      BY <2>1, <2>3, <1>5
    <3>3. routes_[k] <= n + 1
      BY <3>2
    <3> QED BY <2>1, <2>3, <3>1, <3>3, <1>6
  <2>4. CASE k = key /\ key \notin DOMAIN routes_
    <3>1. CallsFor("route", k)' = {n + 1} /\ routes_'[k] = n + 1
      BY <2>1, <2>4, <1>5, <1>6
    <3> QED BY <2>4, <3>1, <1>6
  <2> QED BY <2>2, <2>3, <2>4
<1> QED BY <1>3, <1>4, <1>7 DEF RoutingInv

LEMMA WsStep ==
    ASSUME RoutingInv, NEW p \in Paths, commit_ws_route(p)
    PROVE  RoutingInv'
<1> DEFINE c == [op |-> "ws", key |-> p, root |-> "none"]
<1>r. calls \in Seq(CallSet) /\ RoutesInv /\ WsInv /\ StaticInv /\ LongestInv
  BY DEF RoutingInv
<1>n. PICK n \in Nat : n = Len(calls)
  BY <1>r
<1>1. c \in CallSet /\ c.op = "ws" /\ c.key = p
  BY DEF CallSet
<1>2. /\ calls' = Append(calls, c) /\ routes_' = routes_ /\ static_mounts_' = static_mounts_
      /\ ws_routes_' = assign(ws_routes_, p, n + 1)
  BY <1>n DEF commit_ws_route, Called
<1> HIDE DEF c
<1>3. RoutesInv' /\ StaticInv' /\ LongestInv'
  BY <1>1, <1>2, OtherTables
<1>4. calls' \in Seq(CallSet)
  BY <1>r, <1>1, <1>2
<1>c. \A op, k : /\ c.op = op /\ c.key = k => CallsFor(op, k)' = CallsFor(op, k) \cup {n + 1}
                 /\ ~(c.op = op /\ c.key = k) => CallsFor(op, k)' = CallsFor(op, k)
                 /\ CallsFor(op, k) \subseteq 1 .. n
  BY ONLY <1>r, <1>n, <1>1, <1>2, CallStep
<1>5. \A k : /\ k = p => CallsFor("ws", k)' = CallsFor("ws", k) \cup {n + 1}
             /\ k # p => CallsFor("ws", k)' = CallsFor("ws", k)
             /\ CallsFor("ws", k) \subseteq 1 .. n
  BY ONLY <1>c, <1>1, Zenon
<1>6. /\ DOMAIN ws_routes_' = DOMAIN ws_routes_ \cup {p} /\ ws_routes_'[p] = n + 1
      /\ \A x \in DOMAIN ws_routes_ : x # p => ws_routes_'[x] = ws_routes_[x]
  BY ONLY <1>2 DEF assign
<1>7. WsInv'
  <2> SUFFICES ASSUME NEW k
               PROVE  /\ k \in DOMAIN ws_routes_' <=> CallsFor("ws", k)' # {}
                      /\ k \in DOMAIN ws_routes_' =>
                            /\ ws_routes_'[k] \in CallsFor("ws", k)'
                            /\ \A i \in CallsFor("ws", k)' : i <= ws_routes_'[k]
    BY DEF WsInv
  <2>1. /\ k \in DOMAIN ws_routes_ <=> CallsFor("ws", k) # {}
        /\ k \in DOMAIN ws_routes_ => /\ ws_routes_[k] \in CallsFor("ws", k)
                                      /\ \A i \in CallsFor("ws", k) : i <= ws_routes_[k]
    BY <1>r DEF WsInv
  <2>2. CASE k # p
    BY <2>1, <2>2, <1>5, <1>6
  <2>3. CASE k = p
    <3>1. CallsFor("ws", k)' = CallsFor("ws", k) \cup {n + 1} /\ ws_routes_'[k] = n + 1
      BY <2>3, <1>5, <1>6
    <3>2. \A i \in CallsFor("ws", k) : i <= n + 1
      BY <1>5
    <3> QED BY <2>3, <3>1, <3>2, <1>6
  <2> QED BY <2>2, <2>3
<1> QED BY <1>3, <1>4, <1>7 DEF RoutingInv

\* The keys of the mounts are sequences of characters.
LEMMA MountKeys ==
    ASSUME calls \in Seq(CallSet), NEW p, CallsFor("mount", p) # {}
    PROVE  p \in Seq(Chars)
<1>1. PICK i \in 1 .. Len(calls) : calls[i].op = "mount" /\ calls[i].key = p
  BY Zenon DEF CallsFor
<1>2. calls[i] \in CallSet
  OBVIOUS
<1>3. \A c \in CallSet : c.op = "mount" => c.key \in Seq(Chars)
  BY DEF CallSet
<1> QED BY <1>1, <1>2, <1>3

LEMMA MountStep ==
    ASSUME RoutingInv, NEW p \in Seq(Chars), NEW root \in AllRoots, MountStatic(p, root)
    PROVE  RoutingInv'
<1> DEFINE c == [op |-> "mount", key |-> p, root |-> root]
<1>r. calls \in Seq(CallSet) /\ RoutesInv /\ WsInv /\ StaticInv /\ LongestInv
  BY DEF RoutingInv
<1>n. PICK n \in Nat : n = Len(calls)
  BY <1>r
<1>1. c \in CallSet /\ c.op = "mount" /\ c.key = p /\ c.root = root
  BY DEF CallSet
<1>2. /\ calls' = Append(calls, c) /\ routes_' = routes_ /\ ws_routes_' = ws_routes_
      /\ static_mounts_' = emplace(static_mounts_, p, root)
  BY DEF MountStatic, Called
<1> HIDE DEF c
<1>3. RoutesInv' /\ WsInv'
  BY <1>1, <1>2, OtherTables
<1>4. /\ calls' \in Seq(CallSet) /\ calls'[n + 1] = c
      /\ \A i \in 1 .. n : calls'[i] = calls[i]
  BY <1>r, <1>1, <1>2, <1>n
<1>c. \A op, k : /\ c.op = op /\ c.key = k => CallsFor(op, k)' = CallsFor(op, k) \cup {n + 1}
                 /\ ~(c.op = op /\ c.key = k) => CallsFor(op, k)' = CallsFor(op, k)
                 /\ CallsFor(op, k) \subseteq 1 .. n
  BY ONLY <1>r, <1>n, <1>1, <1>2, CallStep
<1>5. \A k : /\ k = p => CallsFor("mount", k)' = CallsFor("mount", k) \cup {n + 1}
             /\ k # p => CallsFor("mount", k)' = CallsFor("mount", k)
             /\ CallsFor("mount", k) \subseteq 1 .. n
  BY ONLY <1>c, <1>1, Zenon
<1>6. /\ DOMAIN static_mounts_' = DOMAIN static_mounts_ \cup {p}
      /\ \A x \in DOMAIN static_mounts_ : static_mounts_'[x] = static_mounts_[x]
      /\ p \notin DOMAIN static_mounts_ => static_mounts_'[p] = root
  BY ONLY <1>2 DEF emplace
<1>7. StaticInv'
  <2> SUFFICES ASSUME NEW k
               PROVE  /\ k \in DOMAIN static_mounts_' <=> CallsFor("mount", k)' # {}
                      /\ k \in DOMAIN static_mounts_' =>
                           \E i \in CallsFor("mount", k)' :
                               /\ \A j \in CallsFor("mount", k)' : i <= j
                               /\ static_mounts_'[k] = calls'[i].root
    BY DEF StaticInv
  <2>1. /\ k \in DOMAIN static_mounts_ <=> CallsFor("mount", k) # {}
        /\ k \in DOMAIN static_mounts_ =>
             \E i \in CallsFor("mount", k) :
                 /\ \A j \in CallsFor("mount", k) : i <= j
                 /\ static_mounts_[k] = calls[i].root
    BY <1>r DEF StaticInv
  <2>2. \A i \in CallsFor("mount", k) : calls'[i] = calls[i] /\ i <= n + 1
    BY <1>4, <1>5
  <2>3. CASE k # p
    <3>1. CallsFor("mount", k)' = CallsFor("mount", k)
      BY <2>3, <1>5
    <3>2. k \in DOMAIN static_mounts_' <=> k \in DOMAIN static_mounts_
      BY <2>3, <1>6
    <3> QED BY ONLY <2>1, <2>2, <3>1, <3>2, <1>6, Zenon
  <2>4. CASE k = p /\ p \in DOMAIN static_mounts_
    <3>1. CallsFor("mount", k)' = CallsFor("mount", k) \cup {n + 1}
      BY <2>4, <1>5
    <3>2. PICK i \in CallsFor("mount", k) :
              (\A j \in CallsFor("mount", k) : i <= j) /\ static_mounts_[k] = calls[i].root
      BY <2>1, <2>4
    <3>3. /\ i \in CallsFor("mount", k)' /\ \A j \in CallsFor("mount", k)' : i <= j
          /\ static_mounts_'[k] = calls'[i].root
      BY <2>2, <2>4, <3>1, <3>2, <1>6
    <3> QED BY <3>3, <2>4, <1>6
  <2>5. CASE k = p /\ p \notin DOMAIN static_mounts_
    <3>1. CallsFor("mount", k)' = {n + 1} /\ static_mounts_'[k] = root
      BY <2>1, <2>5, <1>5, <1>6
    <3>2. calls'[n + 1].root = root /\ n + 1 <= n + 1
      BY <1>1, <1>4
    <3> QED BY ONLY <2>5, <3>1, <3>2, <1>6
  <2> QED BY <2>3, <2>4, <2>5
<1>8. LongestInv'
  <2> SUFFICES ASSUME NEW path \in Paths
               PROVE  \/ Mounted(path)' = {}
                      \/ \E q \in Mounted(path)' : \A x \in Mounted(path)' : Len(x) <= Len(q)
    BY DEF LongestInv
  <2>1. MountedChar /\ MountedChar'
    BY MountedIs, PTL
  <2>2. p \in Mounted(path)' <=> IsPrefix(p, path) /\ p # <<>>
    <3>1. CallsFor("mount", p)' # {}
      BY <1>5
    <3> QED BY ONLY <2>1, <3>1, Zenon DEF MountedChar
  <2>3. \A q : q # p => (q \in Mounted(path)' <=> q \in Mounted(path))
    <3>1. \A q : q # p => CallsFor("mount", q)' = CallsFor("mount", q)
      BY <1>5
    <3> QED BY ONLY <2>1, <3>1, Zenon DEF MountedChar
  <2>4. p \in Mounted(path) => p \in Mounted(path)'
    BY ONLY <2>1, <2>2, Zenon DEF MountedChar
  <2>5. \A q \in Mounted(path)' : Len(q) \in Nat
    <3>1. \A q \in Mounted(path)' : q = p \/ CallsFor("mount", q) # {}
      BY ONLY <2>1, <2>3, Zenon DEF MountedChar
    <3>2. \A q \in Mounted(path)' : q \in Seq(Chars)
      BY <3>1, <1>r, MountKeys
    <3> QED BY <3>2
  <2>6. CASE Mounted(path) = {}
    <3>1. \A q \in Mounted(path)' : q = p
      BY <2>3, <2>6
    <3>2. \A q \in Mounted(path)' : Len(q) <= Len(p)
      BY <2>5, <3>1
    <3> QED BY <3>1, <3>2
  <2>7. CASE Mounted(path) # {}
    <3>1. PICK q \in Mounted(path) : \A x \in Mounted(path) : Len(x) <= Len(q)
      BY <2>7, <1>r DEF LongestInv
    <3>2. q \in Mounted(path)' /\ Len(q) \in Nat
      BY <3>1, <2>3, <2>4, <2>5
    <3>3. \A x \in Mounted(path)' : x = p \/ Len(x) <= Len(q)
      BY <3>1, <2>3
    <3>4. CASE p \in Mounted(path)' /\ Len(p) > Len(q)
      <4>1. \A x \in Mounted(path)' : Len(x) <= Len(p)
        BY <3>2, <3>3, <3>4, <2>5
      <4> QED BY <3>4, <4>1
    <3>5. CASE ~(p \in Mounted(path)' /\ Len(p) > Len(q))
      <4>1. \A x \in Mounted(path)' : Len(x) <= Len(q)
        BY <3>2, <3>3, <3>5, <2>5
      <4> QED BY <3>2, <4>1
    <3> QED BY <3>4, <3>5
  <2> QED BY <2>6, <2>7
<1> QED BY <1>3, <1>4, <1>7, <1>8 DEF RoutingInv

-----------------------------------------------------------------------------
(* The program. *)

\* The configuration is complete once the server is constructed from it.
PhaseInv ==
    /\ phase = "loading" => loading = "reading"
    /\ phase \notin {"loading", "fatal"} => loading = "returned"
    /\ mounted \in Nat

StartupInv == ConfigInv /\ RoutingInv /\ PhaseInv /\ WorkersFitHardware

\* What load_config returns can be mounted.
LEMMA ConfiguredMounts ==
    ASSUME lines \in Seq(Lines), Good
    PROVE  /\ cfg.www_root \in AllRoots
           /\ \A k \in 1 .. Len(cfg.mounts) : /\ cfg.mounts[k].prefix \in Seq(Chars)
                                              /\ cfg.mounts[k].root \in AllRoots
<1>1. cfg.www_root \in AllRoots
  <2>1. Latest("server", "www_root")
    BY DEF Good, ScalarInv, Scalar, Known
  <2>2. \/ cfg.www_root = Defaults.www_root
        \/ \E i \in 1 .. Len(lines) : cfg.www_root = lines[i].value
    BY <2>1 DEF Latest, Conv, Setting
  <2>3. \A i \in 1 .. Len(lines) : lines[i] \in Lines
    OBVIOUS
  <2> QED BY <2>2, <2>3 DEF AllRoots
<1>2. \A k \in 1 .. Len(cfg.mounts) : cfg.mounts[k] \in MountValues
  BY DEF Good, MountInv
<1>3. \A v \in MountValues : v.prefix \in Seq(Chars) /\ v.root \in AllRoots
  <2>1. \A v \in MountValues : v.prefix \in Seq(Chars)
    BY InputAssumption DEF MountValues
  <2>2. \A v \in MountValues : v.root \in AllRoots
    BY DEF AllRoots
  <2> QED BY <2>1, <2>2
<1> QED BY <1>1, <1>2, <1>3

LEMMA StartupInit == Init => StartupInv
BY InitConfig, InitRouting DEF Init, StartupInv, PhaseInv, WorkersFitHardware, ConfigInit

\* The steps that leave a part of the state alone keep its invariant.
LEMMA ConfigKept ==
    ASSUME lines' = lines, section' = section, cfg' = cfg
    PROVE  (HeadersInv => HeadersInv') /\ (Good => Good')
<1>1. \A i : Headers(i)' = Headers(i) /\ SectionOf(i)' = SectionOf(i)
  BY DEF Headers, SectionOf
<1>2. HeadersInv => HeadersInv'
  BY <1>1 DEF HeadersInv
<1>3. \A s, key : Setting(s, key)' = Setting(s, key)
  BY <1>1 DEF Setting, Sets
<1>4. \A s, key : Latest(s, key) => Latest(s, key)'
  BY <1>3 DEF Latest, Conv, stoul
<1>5. ScalarInv => ScalarInv'
  <2>1. \A s, key : Scalar(s, key)' <=> Scalar(s, key)
    BY DEF Scalar, Known
  <2> QED BY ONLY <1>4, <2>1, Zenon DEF ScalarInv
<1>6. MountLines' = MountLines
  BY <1>3 DEF MountLines
<1>7. MountInv => MountInv'
  BY <1>6 DEF MountInv, Place
<1>8. (SectionInv => SectionInv') /\ (Shape => Shape') /\ (Numbers => Numbers')
  BY <1>1 DEF SectionInv, Shape, Numbers
<1> QED BY <1>2, <1>5, <1>7, <1>8 DEF Good

LEMMA Unchanged ==
    /\ ConfigInv /\ UNCHANGED configVars => ConfigInv'
    /\ RoutingInv /\ UNCHANGED routingVars => RoutingInv'
<1>1. ASSUME ConfigInv, UNCHANGED configVars PROVE ConfigInv'
  <2>1. lines' = lines /\ section' = section /\ cfg' = cfg /\ loading' = loading
    BY <1>1 DEF configVars
  <2> QED BY <1>1, <2>1, ConfigKept DEF ConfigInv
<1>2. ASSUME RoutingInv, UNCHANGED routingVars PROVE RoutingInv'
  <2>1. /\ routes_' = routes_ /\ ws_routes_' = ws_routes_
        /\ static_mounts_' = static_mounts_ /\ calls' = calls
    BY <1>2 DEF routingVars
  <2>2. /\ \A op, k : CallsFor(op, k)' = CallsFor(op, k)
        /\ \A path : Mounted(path)' = Mounted(path)
    BY <2>1 DEF CallsFor, Mounted
  <2>3. RoutesInv' /\ WsInv'
    BY <1>2, <2>1, <2>2 DEF RoutingInv, RoutesInv, WsInv
  <2>4. StaticInv'
    BY <1>2, <2>1, <2>2 DEF RoutingInv, StaticInv
  <2>5. LongestInv'
    BY <1>2, <2>2 DEF RoutingInv, LongestInv
  <2> QED BY <1>2, <2>1, <2>3, <2>4, <2>5 DEF RoutingInv
<1> QED BY <1>1, <1>2

\* The state of load_config after a step of it that reads no line.
LEMMA EndStep ==
    ASSUME ConfigInv, UNCHANGED << lines, section, cfg >>, loading = "reading"
    PROVE  ConfigInv'
<1>1. lines' = lines /\ section' = section /\ cfg' = cfg
  OBVIOUS
<1>2. lines \in Seq(Lines) /\ HeadersInv /\ Good
  BY DEF ConfigInv
<1>3. lines' \in Seq(Lines) /\ HeadersInv' /\ Good'
  BY <1>1, <1>2, ConfigKept
<1> QED BY <1>3 DEF ConfigInv

LEMMA StartupNext == StartupInv /\ [Next]_vars => StartupInv'
<1> SUFFICES ASSUME StartupInv, [Next]_vars PROVE StartupInv'
  OBVIOUS
<1>i. ConfigInv /\ RoutingInv /\ PhaseInv /\ WorkersFitHardware
  BY DEF StartupInv
<1>w. phase' # "serving" => WorkersFitHardware'
  BY DEF WorkersFitHardware
<1>g. ASSUME phase \notin {"loading", "fatal"} PROVE lines \in Seq(Lines) /\ Good
  BY <1>g, <1>i DEF PhaseInv, ConfigInv
<1>1. CASE UNCHANGED vars
  <2>1. UNCHANGED configVars /\ UNCHANGED routingVars
    BY <1>1 DEF vars
  <2>2. ConfigInv' /\ RoutingInv'
    BY <2>1, <1>i, Unchanged
  <2>3. PhaseInv' /\ WorkersFitHardware'
    BY <1>1, <1>i DEF vars, configVars, PhaseInv, WorkersFitHardware
  <2> QED BY <2>2, <2>3 DEF StartupInv
<1>2. CASE Load
  <2>1. ConfigInv'
    BY <1>2, <1>i, LineStep, EndStep DEF Load, OpenFails
  <2>2. RoutingInv'
    BY <1>2, <1>i, Unchanged DEF Load
  <2>3. /\ phase = "loading" /\ phase' = IF loading' = "threw" THEN "fatal" ELSE "loading"
        /\ mounted' = mounted
    BY <1>2 DEF Load
  <2>4. loading' \in {"reading", "threw"}
    BY <1>2 DEF Load, OpenFails, load_line, load_section, load_pair, load_nothing
  <2>5. PhaseInv'
    BY <2>3, <2>4, <1>i DEF PhaseInv
  <2> QED BY <2>1, <2>2, <2>3, <2>5, <1>w DEF StartupInv
<1>3. CASE Loaded
  <2>1. ConfigInv'
    BY <1>3, <1>i, EndStep DEF Loaded, EndOfFile
  <2>2. RoutingInv'
    BY <1>3, <1>i, Unchanged DEF Loaded
  <2>3. PhaseInv' /\ phase' # "serving"
    BY <1>3, <1>i DEF Loaded, EndOfFile, PhaseInv
  <2> QED BY <2>1, <2>2, <2>3, <1>w DEF StartupInv
<1>4. CASE Construct
  <2>1. ConfigInv' /\ RoutingInv'
    BY <1>4, <1>i, Unchanged DEF Construct
  <2>2. PhaseInv' /\ phase' # "serving"
    BY <1>4, <1>i DEF Construct, PhaseInv, configVars
  <2> QED BY <2>1, <2>2, <1>w DEF StartupInv
<1>5. CASE MountRoot
  <2>1. ConfigInv'
    BY <1>5, <1>i, Unchanged DEF MountRoot
  <2>2. cfg.www_root \in AllRoots
    BY <1>5, <1>g, ConfiguredMounts DEF MountRoot
  <2>3. Slash \in Seq(Chars)
    BY InputAssumption DEF Slash
  <2>4. RoutingInv'
    BY <1>5, <1>i, <2>2, <2>3, MountStep, Unchanged DEF MountRoot
  <2>5. PhaseInv' /\ phase' # "serving"
    BY <1>5, <1>i DEF MountRoot, PhaseInv, configVars
  <2> QED BY <2>1, <2>4, <2>5, <1>w DEF StartupInv
<1>6. CASE MountConfigured
  <2>1. ConfigInv'
    BY <1>6, <1>i, Unchanged DEF MountConfigured
  <2>2. mounted' \in Nat /\ mounted' \in 1 .. Len(cfg.mounts)
    BY <1>6, <1>i DEF MountConfigured, PhaseInv
  <2>3. cfg.mounts[mounted'].prefix \in Seq(Chars) /\ cfg.mounts[mounted'].root \in AllRoots
    BY <1>6, <1>g, <2>2, ConfiguredMounts DEF MountConfigured
  <2>4. MountStatic(cfg.mounts[mounted'].prefix, cfg.mounts[mounted'].root)
    BY <1>6 DEF MountConfigured
  <2>5. RoutingInv'
    BY <1>i, <2>3, <2>4, MountStep
  <2>6. PhaseInv' /\ phase' # "serving"
    BY <1>6, <1>i, <2>2 DEF MountConfigured, PhaseInv, configVars
  <2> QED BY <2>1, <2>5, <2>6, <1>w DEF StartupInv
<1>7. CASE AllMounted
  <2>1. ConfigInv' /\ RoutingInv'
    BY <1>7, <1>i, Unchanged DEF AllMounted
  <2>2. PhaseInv' /\ phase' # "serving"
    BY <1>7, <1>i DEF AllMounted, PhaseInv, configVars
  <2> QED BY <2>1, <2>2, <1>w DEF StartupInv
<1>8. CASE Register
  <2>1. ConfigInv'
    BY <1>8, <1>i, Unchanged DEF Register
  <2>2. \A p \in MountPrefixes, r \in Roots : p \in Seq(Chars) /\ r \in AllRoots
    BY InputAssumption DEF AllRoots
  <2>3. RoutingInv'
    BY <1>8, <1>i, <2>2, RouteStep, WsStep, MountStep DEF Register
  <2>4. PhaseInv' /\ phase' # "serving"
    BY <1>8, <1>i DEF Register, PhaseInv, configVars
  <2> QED BY <2>1, <2>3, <2>4, <1>w DEF StartupInv
<1>9. CASE start
  <2>1. ConfigInv' /\ RoutingInv'
    BY <1>9, <1>i, Unchanged DEF start
  <2>2. PhaseInv'
    BY <1>9, <1>i DEF start, PhaseInv, configVars
  <2>3. cfg.threads \in Nat
    BY <1>9, <1>g DEF start, Good, Numbers
  <2>4. PICK hw \in Nat : hw = hardware'
    BY <1>9, InputAssumption DEF start
  <2>5. threads(hw) \in Nat /\ threads(hw) > 0
    <3>1. Max({1, hw}) \in {1, hw} /\ Max({1, hw}) >= 1
      BY ONLY hw \in Nat, PairExtremes
    <3>2. Max({1, hw}) \in Nat /\ Max({1, hw}) > 0
      BY ONLY <3>1, hw \in Nat
    <3> QED BY <2>3, <3>2 DEF threads
  <2>6. workers' = Min({threads(hw), hw})
    BY <1>9, <2>4 DEF start
  <2>7. Min({threads(hw), hw}) \in {threads(hw), hw} /\ Min({threads(hw), hw}) <= hw
    BY <2>5, PairExtremes
  <2>8. WorkersFitHardware'
    BY <2>4, <2>5, <2>6, <2>7 DEF WorkersFitHardware
  <2> QED BY <2>1, <2>2, <2>8 DEF StartupInv
<1> QED BY <1>1, <1>2, <1>3, <1>4, <1>5, <1>6, <1>7, <1>8, <1>9 DEF Next

\* Along every run of a program from load_config to Server::start the three
\* parts of the invariant hold.
THEOREM StartupInvariance == Spec => []StartupInv
BY StartupInit, StartupNext, PTL DEF Spec

\* Whatever number of threads the file asks for, and whatever the hardware
\* has, Server::start runs a worker as soon as the hardware is known, and
\* never more than it has.
THEOREM WorkersFit == Spec => []WorkersFitHardware
BY StartupInvariance, PTL DEF StartupInv

\* For every file that load_config accepts, every key has the value of the last
\* line of its section that sets it, or its default, and the mounts are those
\* of [static] in their order.
THEOREM ConfigFaithful == Spec => []ConfigMeansItsLines
<1>1. ConfigInv => ConfigMeansItsLines
  <2> SUFFICES ASSUME lines \in Seq(Lines), Good
               PROVE  /\ \A key \in {"address", "www_root"} : cfg[key] = Meaning("server", key)
                      /\ \A key \in {"use_ssl", "cert_file", "key_file"} :
                            cfg[key] = Meaning("ssl", key)
                      /\ \A key \in {"port", "threads"} :
                            cfg[key] = Meaning("server", key) % 2^ULongBits
                      /\ cfg.port <= MaxPort
                      /\ Len(cfg.mounts) = Cardinality(MountLines)
                      /\ \A i \in MountLines :
                            cfg.mounts[Place(MountLines, i)] = lines[i].value
    BY DEF ConfigInv, ConfigMeansItsLines, MountLines
  <2>1. ASSUME NEW s, NEW key, Scalar(s, key) PROVE cfg[key] = Conv(key, Meaning(s, key))
    <3>1. Latest(s, key)
      BY <2>1 DEF Good, ScalarInv
    <3>2. CASE Setting(s, key) = {}
      BY <3>1, <3>2 DEF Latest, Meaning
    <3>3. CASE Setting(s, key) # {}
      <4>1. PICK i \in Setting(s, key) : /\ \A j \in Setting(s, key) : j <= i
                                         /\ cfg[key] = Conv(key, lines[i].value)
        BY <3>1, <3>3 DEF Latest
      <4>2. Setting(s, key) \subseteq Int
        BY DEF Setting
      <4>3. Max(Setting(s, key)) = i
        BY <4>1, <4>2, MaxIs
      <4> QED BY <4>1, <4>3, <3>3 DEF Meaning
    <3> QED BY <3>2, <3>3
  <2>2. /\ \A key \in {"address", "www_root", "port", "threads"} : Scalar("server", key)
        /\ \A key \in {"use_ssl", "cert_file", "key_file"} : Scalar("ssl", key)
    BY DEF Scalar, Known
  <2>3. \A key \in {"address", "www_root"} : cfg[key] = Meaning("server", key)
    BY <2>1, <2>2 DEF Conv
  <2>4. \A key \in {"use_ssl", "cert_file", "key_file"} : cfg[key] = Meaning("ssl", key)
    BY <2>1, <2>2 DEF Conv
  <2>5. \A key \in {"port", "threads"} : cfg[key] = Meaning("server", key) % 2^ULongBits
    BY <2>1, <2>2 DEF Conv, stoul
  <2>6. cfg.port <= MaxPort
    BY PortFacts DEF Good, Numbers
  <2> QED BY <2>3, <2>4, <2>5, <2>6 DEF Good, MountInv
<1> QED BY <1>1, StartupInvariance, PTL DEF StartupInv

\* The lookup in the tables is the reading of the registrations.
LEMMA LookupFollows ==
    ASSUME RoutingInv, NEW path \in Paths
    PROVE  WsFromCalls(path) /\ \A m \in Methods : AnswerFromCalls(m, path)
<1>r. calls \in Seq(CallSet) /\ RoutesInv /\ WsInv /\ StaticInv /\ LongestInv
  BY DEF RoutingInv
<1>c. \A op, k : CallsFor(op, k) \subseteq Int
  BY <1>r DEF CallsFor
<1>1. WsFromCalls(path)
  <2>1. /\ path \in DOMAIN ws_routes_ <=> CallsFor("ws", path) # {}
        /\ path \in DOMAIN ws_routes_ =>
              /\ ws_routes_[path] \in CallsFor("ws", path)
              /\ \A i \in CallsFor("ws", path) : i <= ws_routes_[path]
    BY <1>r DEF WsInv
  <2>2. path \in DOMAIN ws_routes_ => Max(CallsFor("ws", path)) = ws_routes_[path]
    BY <2>1, <1>c, MaxIs
  <2> QED BY <2>1, <2>2 DEF WsFromCalls, find_ws
<1>2. DOMAIN static_mounts_ = {} <=> NothingMounted
  <2>1. \A k : k \in DOMAIN static_mounts_ <=> CallsFor("mount", k) # {}
    BY <1>r DEF StaticInv
  <2>2. ASSUME NothingMounted PROVE \A k : CallsFor("mount", k) = {}
    BY <2>2, Zenon DEF NothingMounted, CallsFor
  <2>3. ASSUME ~NothingMounted PROVE \E k : CallsFor("mount", k) # {}
    <3>1. PICK i \in 1 .. Len(calls) : calls[i].op = "mount"
      BY <2>3, Zenon DEF NothingMounted
    <3>2. i \in CallsFor("mount", calls[i].key)
      BY <3>1, Zenon DEF CallsFor
    <3> QED BY <3>2
  <2> QED BY <2>1, <2>2, <2>3
<1>3. serve_static("GET", path) = StaticAnswer(path)
  <2> DEFINE M == {p \in DOMAIN static_mounts_ : IsPrefix(p, path)}
             found == CHOOSE p \in M : \A q \in M \ {p} : PrefixComparator(p, q)
             longest == CHOOSE p \in Mounted(path) : \A q \in Mounted(path) : Len(q) <= Len(p)
  <2>1. serve_static("GET", path) =
            IF M = {} \/ found = <<>> THEN NotFound
            ELSE OpenFile(<< static_mounts_[found], Tail_(path, found) >>)
    BY DEF serve_static
  <2>2. StaticAnswer(path) =
            IF Mounted(path) = {} THEN NotFound
            ELSE OpenFile(<< calls[Min(CallsFor("mount", longest))].root, Tail_(path, longest) >>)
    BY DEF StaticAnswer
  <2>3. \A k : k \in DOMAIN static_mounts_ <=> CallsFor("mount", k) # {}
    BY <1>r DEF StaticInv
  <2>4. \A p : p \in M <=> CallsFor("mount", p) # {} /\ IsPrefix(p, path)
    BY <2>3
  <2>5. \A p : p \in Mounted(path) <=> p \in M /\ p # <<>>
    BY <2>4, MountedIs, Zenon DEF MountedChar
  <2>6. \A p \in M : p \in Seq(Chars) /\ Len(p) \in Nat /\ IsPrefix(p, path)
    <3>1. \A p \in M : p \in Seq(Chars) /\ IsPrefix(p, path)
      BY <2>4, <1>r, MountKeys
    <3> QED BY <3>1
  <2>7. CASE Mounted(path) = {}
    <3>1. \A p \in M : p = <<>>
      BY <2>5, <2>7
    <3>2. CASE M = {}
      BY <2>1, <2>2, <2>7, <3>2
    <3>3. CASE M # {}
      <4>1. \E p \in M : \A q \in M \ {p} : PrefixComparator(p, q)
        BY <3>1, <3>3
      <4>2. found \in M
        BY <4>1, Zenon
      <4> QED BY <2>1, <2>2, <2>7, <3>1, <4>2
    <3> QED BY <3>2, <3>3
  <2>8. CASE Mounted(path) # {}
    <3>1. PICK p \in Mounted(path) : \A q \in Mounted(path) : Len(q) <= Len(p)
      BY <2>8, <1>r DEF LongestInv
    <3>2. p \in M /\ p # <<>> /\ p \in Seq(Chars) /\ Len(p) \in Nat
      BY <2>5, <2>6, <3>1
    <3>3. path \in Seq(Chars)
      BY InputAssumption
    <3>4. ASSUME NEW q \in M, q # p PROVE Len(p) > Len(q)
      <4>1. CASE q = <<>>
        <5>1. Len(q) = 0 /\ Len(p) # 0
          BY <3>2, <4>1
        <5> QED BY <5>1, <3>2
      <4>2. CASE q # <<>>
        <5>1. Len(q) <= Len(p)
          BY <2>5, <3>1, <4>2
        <5>2. Len(q) # Len(p)
          BY <2>6, <3>2, <3>3, <3>4, PrefixFacts
        <5> QED BY <5>1, <5>2, <2>6, <3>2
      <4> QED BY <4>1, <4>2
    <3>5. \A q \in M \ {p} : PrefixComparator(p, q)
      BY <3>4 DEF PrefixComparator
    <3>6. found \in M /\ \A q \in M \ {found} : PrefixComparator(found, q)
      BY <3>2, <3>5, Zenon
    <3>7. found = p
      <4>1. found # p => Len(found) > Len(p) /\ Len(p) > Len(found)
        BY <3>2, <3>4, <3>6 DEF PrefixComparator
      <4>2. Len(found) \in Nat
        BY <3>6, <2>6
      <4> QED BY <4>1, <4>2, <3>2
    <3>8. longest \in Mounted(path) /\ \A q \in Mounted(path) : Len(q) <= Len(longest)
      BY <3>1, Zenon
    <3>9. longest = p
      <4>1. longest # p => Len(p) > Len(longest)
        BY <3>4, <3>8, <2>5
      <4>2. Len(p) <= Len(longest) /\ Len(longest) \in Nat
        BY <3>1, <3>8, <2>5, <2>6
      <4> QED BY <4>1, <4>2, <3>2
    <3>10. static_mounts_[p] = calls[Min(CallsFor("mount", p))].root
      <4>1. PICK i \in CallsFor("mount", p) :
                (\A j \in CallsFor("mount", p) : i <= j) /\ static_mounts_[p] = calls[i].root
        BY <3>2, <2>3, <2>4, <1>r DEF StaticInv
      <4>2. Min(CallsFor("mount", p)) = i
        BY <4>1, <1>c, MinIs
      <4> QED BY <4>1, <4>2
    <3> HIDE DEF found, longest, M
    <3> QED BY <2>1, <2>2, <2>8, <3>2, <3>7, <3>9, <3>10
  <2> QED BY <2>7, <2>8
<1>4. ASSUME NEW m \in Methods PROVE AnswerFromCalls(m, path)
  <2> DEFINE key == << m, path >>
  <2>1. /\ key \in DOMAIN routes_ <=> CallsFor("route", key) # {}
        /\ key \in DOMAIN routes_ =>
              /\ routes_[key] \in CallsFor("route", key)
              /\ \A i \in CallsFor("route", key) : routes_[key] <= i
    BY <1>r DEF RoutesInv
  <2>2. key \in DOMAIN routes_ => Min(CallsFor("route", key)) = routes_[key]
    BY <2>1, <1>c, MinIs
  <2>3. m # "GET" => serve_static(m, path) = BadRequest
    BY DEF serve_static
  <2>4. handle_request(m, path) =
            IF key \in DOMAIN routes_ THEN Answer("handler", routes_[key])
            ELSE IF DOMAIN static_mounts_ # {} THEN serve_static(m, path) ELSE NotFound
    BY DEF handle_request
  <2>5. handle_request(m, path) =
            IF CallsFor("route", key) # {} THEN Answer("handler", Min(CallsFor("route", key)))
            ELSE IF NothingMounted THEN NotFound
            ELSE IF m # "GET" THEN BadRequest
            ELSE StaticAnswer(path)
    <3> HIDE DEF key
    <3> QED BY <2>1, <2>2, <2>3, <2>4, <1>2, <1>3
  <2> QED BY <2>5 DEF AnswerFromCalls
<1> QED BY <1>1, <1>4

\* For every configuration and every program, requests are answered as the
\* registrations say: the first handler of their method and path, otherwise
\* the file under the longest mounted prefix, whatever the order of the mounts
\* of the configuration and of the program; and a path has the WebSocket
\* handlers registered last.
THEOREM AnswersFollow == Spec => []AnswersFollowCalls
<1>1. RoutingInv => AnswersFollowCalls
  BY LookupFollows DEF AnswersFollowCalls
<1> QED BY <1>1, StartupInvariance, PTL DEF StartupInv
=============================================================================
