-------------------------- MODULE ConversionProofs --------------------------
(***************************************************************************)
(* The arrays that the conversions write end inside of their blocks, and   *)
(* what is read back is what was given, for property lists, partitions and *)
(* flags, whatever integers and however many of them are given.            *)
(***************************************************************************)
EXTENDS Conversions, FiniteSetTheorems, SequenceTheorems, TLAPS

(***************************************************************************)
(* InOrder lists the numbers of a set: each once, the smaller ones first.  *)
(* The place of a number in it is how many there are up to it.             *)
(***************************************************************************)
Place(S, k) == Cardinality({j \in S : j <= k})

LEMMA PlaceRange ==
  ASSUME NEW S \in SUBSET Nat, IsFiniteSet(S), NEW k \in S
  PROVE  /\ IsFiniteSet({j \in S : j <= k})
         /\ Place(S, k) \in 1 .. Cardinality(S)
<1> DEFINE T == {j \in S : j <= k}
<1>1. IsFiniteSet(T) /\ Cardinality(T) <= Cardinality(S)
  BY T \in SUBSET S, FS_Subset
<1>2. k \in T
  OBVIOUS
<1>3. Cardinality(T) \in Nat /\ Cardinality(S) \in Nat /\ Cardinality(T) # 0
  BY <1>1, <1>2, FS_CardinalityType, FS_EmptySet
<1> QED BY <1>1, <1>3 DEF Place

LEMMA PlaceIncreases ==
  ASSUME NEW S \in SUBSET Nat, IsFiniteSet(S), NEW k \in S, NEW l \in S, k < l
  PROVE  Place(S, k) < Place(S, l)
<1> DEFINE T == {j \in S : j <= k}  U == {j \in S : j <= l}
<1>1. IsFiniteSet(T) /\ IsFiniteSet(U) /\ Cardinality(T) \in Nat /\ Cardinality(U) \in Nat
  BY PlaceRange, FS_CardinalityType
<1>2. T \in SUBSET U /\ l \in U /\ l \notin T
  <2>1. k \in Nat /\ l \in Nat
    OBVIOUS
  <2>2. \A j \in S : j \in Nat /\ (j <= k => j <= l)
    BY <2>1
  <2>3. l \in U /\ l \notin T
    BY <2>1
  <2> QED BY <2>2, <2>3
<1>3. T # U
  BY <1>2
<1>4. Cardinality(T) <= Cardinality(U) /\ Cardinality(T) # Cardinality(U)
  BY <1>1, <1>2, <1>3, FS_Subset
<1> QED BY <1>1, <1>4 DEF Place

LEMMA PlaceOnto ==
  ASSUME NEW S \in SUBSET Nat, IsFiniteSet(S), NEW i \in 1 .. Cardinality(S)
  PROVE  \E k \in S : Place(S, k) = i
<1> DEFINE n == Cardinality(S)  f == [k \in S |-> Place(S, k)]
<1>1. n \in Nat /\ IsFiniteSet(1 .. n) /\ Cardinality(1 .. n) = n
  BY FS_CardinalityType, FS_Interval
<1>2. f \in [S -> 1 .. n]
  BY PlaceRange
<1>3. ASSUME NEW a \in S, NEW b \in S, f[a] = f[b] PROVE a = b
  <2>1. a \in Nat /\ b \in Nat /\ Place(S, a) = Place(S, b)
    BY <1>3
  <2>2. Place(S, a) \in 1 .. n /\ n \in Nat
    BY <1>1, PlaceRange
  <2>3. CASE a < b
    BY <2>1, <2>2, <2>3, PlaceIncreases
  <2>4. CASE b < a
    BY <2>1, <2>2, <2>4, PlaceIncreases
  <2> QED BY <2>1, <2>3, <2>4
<1>4. f \in Injection(S, 1 .. n)
  BY <1>2, <1>3 DEF Injection, IsInjective
<1>5. f \in Surjection(S, 1 .. n)
  BY <1>1, <1>4, FS_Injection
<1> QED BY <1>5 DEF Surjection

LEMMA InOrderPlaces ==
  ASSUME NEW S \in SUBSET Nat, IsFiniteSet(S)
  PROVE  /\ Cardinality(S) \in Nat
         /\ InOrder(S) \in [1 .. Cardinality(S) -> S]
         /\ \A i \in 1 .. Cardinality(S) : Place(S, InOrder(S)[i]) = i
<1>1. Cardinality(S) \in Nat
  BY FS_CardinalityType
<1>2. \A i \in 1 .. Cardinality(S) :
        InOrder(S)[i] \in S /\ Place(S, InOrder(S)[i]) = i
  BY PlaceOnto DEF InOrder, Place
<1> QED BY <1>1, <1>2 DEF InOrder

LEMMA InOrderIncreases ==
  ASSUME NEW S \in SUBSET Nat, IsFiniteSet(S),
         NEW i \in 1 .. Cardinality(S), NEW j \in 1 .. Cardinality(S), i < j
  PROVE  InOrder(S)[i] < InOrder(S)[j]
<1> DEFINE k == InOrder(S)[i]  l == InOrder(S)[j]
<1>1. k \in S /\ l \in S /\ Place(S, k) = i /\ Place(S, l) = j
  BY InOrderPlaces
<1>2. k \in Nat /\ l \in Nat /\ Cardinality(S) \in Nat
  BY <1>1, FS_CardinalityType
<1>3. ~ l < k
  <2> SUFFICES ASSUME l < k PROVE FALSE
    OBVIOUS
  <2>1. Place(S, l) < Place(S, k)
    BY <1>1, PlaceIncreases
  <2> QED BY <1>1, <1>2, <2>1
<1>4. l # k
  <2> SUFFICES ASSUME l = k PROVE FALSE
    OBVIOUS
  <2>1. i = j
    BY <1>1
  <2> QED BY <1>2, <2>1
<1> QED BY <1>2, <1>3, <1>4

LEMMA InOrderOnto ==
  ASSUME NEW S \in SUBSET Nat, IsFiniteSet(S), NEW k \in S
  PROVE  /\ Place(S, k) \in 1 .. Cardinality(S)
         /\ InOrder(S)[Place(S, k)] = k
<1> DEFINE l == InOrder(S)[Place(S, k)]
<1>1. Place(S, k) \in 1 .. Cardinality(S)
  BY PlaceRange
<1>2. l \in S /\ Place(S, l) = Place(S, k)
  BY <1>1, InOrderPlaces
<1>3. k \in Nat /\ l \in Nat /\ Cardinality(S) \in Nat
  BY <1>2, FS_CardinalityType
<1>4. ~ l < k
  <2> SUFFICES ASSUME l < k PROVE FALSE
    OBVIOUS
  <2>1. Place(S, l) < Place(S, k)
    BY <1>2, PlaceIncreases
  <2> QED BY <1>1, <1>2, <1>3, <2>1
<1>5. ~ k < l
  <2> SUFFICES ASSUME k < l PROVE FALSE
    OBVIOUS
  <2>1. Place(S, k) < Place(S, l)
    BY <1>2, PlaceIncreases
  <2> QED BY <1>1, <1>2, <1>3, <2>1
<1> QED BY <1>1, <1>3, <1>4, <1>5

-----------------------------------------------------------------------------
(***************************************************************************)
(* Flags.                                                                  *)
(***************************************************************************)
\* A list of names for bits: none twice, and none of those with a meaning of their own.
Reserved == {"all", "none", "unnamed", NoString}
NamesBits(list) ==
  /\ Len(list) \in Nat /\ DOMAIN list = 1 .. Len(list)
  /\ \A i, j \in DOMAIN list : list[i] = list[j] => i = j
  /\ \A i \in DOMAIN list : list[i] \notin Reserved

LEMMA NamedBits ==
  ASSUME NEW type \in DOMAIN Named
  PROVE  /\ NamesBits(Named[type])
         /\ Special[type] \in SUBSET {"all", "none"}
<1>1. NamesBits(DeviceType)
  <2> DEFINE s(i) == DeviceType[i]
  <2>1. Len(DeviceType) = 5 /\ DOMAIN DeviceType = 1 .. 5
    BY DEF DeviceType
  <2>2. s(1) \notin Reserved \cup {s(2), s(3), s(4), s(5)}
    BY Zenon DEF DeviceType, Reserved, NoString
  <2>3. s(2) \notin Reserved \cup {s(3), s(4), s(5)}
    BY Zenon DEF DeviceType, Reserved, NoString
  <2>4. s(3) \notin Reserved \cup {s(4), s(5)}
    BY Zenon DEF DeviceType, Reserved, NoString
  <2>5. s(4) \notin Reserved \cup {s(5)}
    BY Zenon DEF DeviceType, Reserved, NoString
  <2>6. s(5) \notin Reserved
    BY Zenon DEF DeviceType, Reserved, NoString
  <2> QED BY <2>1, <2>2, <2>3, <2>4, <2>5, <2>6 DEF NamesBits
<1>2. NamesBits(DeviceFpConfig)
  <2> DEFINE s(i) == DeviceFpConfig[i]
  <2>1. Len(DeviceFpConfig) = 8 /\ DOMAIN DeviceFpConfig = 1 .. 8
    BY DEF DeviceFpConfig
  <2>2. s(1) \notin Reserved \cup {s(2), s(3), s(4), s(5), s(6), s(7), s(8)}
    BY Zenon DEF DeviceFpConfig, Reserved, NoString
  <2>3. s(2) \notin Reserved \cup {s(3), s(4), s(5), s(6), s(7), s(8)}
    BY Zenon DEF DeviceFpConfig, Reserved, NoString
  <2>4. s(3) \notin Reserved \cup {s(4), s(5), s(6), s(7), s(8)}
    BY Zenon DEF DeviceFpConfig, Reserved, NoString
  <2>5. s(4) \notin Reserved \cup {s(5), s(6), s(7), s(8)}
    BY Zenon DEF DeviceFpConfig, Reserved, NoString
  <2>6. s(5) \notin Reserved \cup {s(6), s(7), s(8)}
    BY Zenon DEF DeviceFpConfig, Reserved, NoString
  <2>7. s(6) \notin Reserved \cup {s(7), s(8)}
    BY Zenon DEF DeviceFpConfig, Reserved, NoString
  <2>8. s(7) \notin Reserved \cup {s(8)}
    BY Zenon DEF DeviceFpConfig, Reserved, NoString
  <2>9. s(8) \notin Reserved
    BY Zenon DEF DeviceFpConfig, Reserved, NoString
  <2> QED BY <2>1, <2>2, <2>3, <2>4, <2>5, <2>6, <2>7, <2>8, <2>9 DEF NamesBits
<1>3. NamesBits(DeviceExecCapabilities)
  <2> DEFINE s(i) == DeviceExecCapabilities[i]
  <2>1. Len(DeviceExecCapabilities) = 2 /\ DOMAIN DeviceExecCapabilities = 1 .. 2
    BY DEF DeviceExecCapabilities
  <2>2. s(1) \notin Reserved \cup {s(2)}
    BY Zenon DEF DeviceExecCapabilities, Reserved, NoString
  <2>3. s(2) \notin Reserved
    BY Zenon DEF DeviceExecCapabilities, Reserved, NoString
  <2> QED BY <2>1, <2>2, <2>3 DEF NamesBits
<1>4. NamesBits(CommandQueueProperties)
  <2> DEFINE s(i) == CommandQueueProperties[i]
  <2>1. Len(CommandQueueProperties) = 4 /\ DOMAIN CommandQueueProperties = 1 .. 4
    BY DEF CommandQueueProperties
  <2>2. s(1) \notin Reserved \cup {s(2), s(3), s(4)}
    BY Zenon DEF CommandQueueProperties, Reserved, NoString
  <2>3. s(2) \notin Reserved \cup {s(3), s(4)}
    BY Zenon DEF CommandQueueProperties, Reserved, NoString
  <2>4. s(3) \notin Reserved \cup {s(4)}
    BY Zenon DEF CommandQueueProperties, Reserved, NoString
  <2>5. s(4) \notin Reserved
    BY Zenon DEF CommandQueueProperties, Reserved, NoString
  <2> QED BY <2>1, <2>2, <2>3, <2>4, <2>5 DEF NamesBits
<1>5. NamesBits(DeviceSvmCapabilities)
  <2> DEFINE s(i) == DeviceSvmCapabilities[i]
  <2>1. Len(DeviceSvmCapabilities) = 4 /\ DOMAIN DeviceSvmCapabilities = 1 .. 4
    BY DEF DeviceSvmCapabilities
  <2>2. s(1) \notin Reserved \cup {s(2), s(3), s(4)}
    BY Zenon DEF DeviceSvmCapabilities, Reserved, NoString
  <2>3. s(2) \notin Reserved \cup {s(3), s(4)}
    BY Zenon DEF DeviceSvmCapabilities, Reserved, NoString
  <2>4. s(3) \notin Reserved \cup {s(4)}
    BY Zenon DEF DeviceSvmCapabilities, Reserved, NoString
  <2>5. s(4) \notin Reserved
    BY Zenon DEF DeviceSvmCapabilities, Reserved, NoString
  <2> QED BY <2>1, <2>2, <2>3, <2>4, <2>5 DEF NamesBits
<1>6. NamesBits(DeviceAffinityDomain)
  <2> DEFINE s(i) == DeviceAffinityDomain[i]
  <2>1. Len(DeviceAffinityDomain) = 6 /\ DOMAIN DeviceAffinityDomain = 1 .. 6
    BY DEF DeviceAffinityDomain
  <2>2. s(1) \notin Reserved \cup {s(2), s(3), s(4), s(5), s(6)}
    BY Zenon DEF DeviceAffinityDomain, Reserved, NoString
  <2>3. s(2) \notin Reserved \cup {s(3), s(4), s(5), s(6)}
    BY Zenon DEF DeviceAffinityDomain, Reserved, NoString
  <2>4. s(3) \notin Reserved \cup {s(4), s(5), s(6)}
    BY Zenon DEF DeviceAffinityDomain, Reserved, NoString
  <2>5. s(4) \notin Reserved \cup {s(5), s(6)}
    BY Zenon DEF DeviceAffinityDomain, Reserved, NoString
  <2>6. s(5) \notin Reserved \cup {s(6)}
    BY Zenon DEF DeviceAffinityDomain, Reserved, NoString
  <2>7. s(6) \notin Reserved
    BY Zenon DEF DeviceAffinityDomain, Reserved, NoString
  <2> QED BY <2>1, <2>2, <2>3, <2>4, <2>5, <2>6, <2>7 DEF NamesBits
<1>7. NamesBits(MemFlags)
  <2> DEFINE s(i) == MemFlags[i]
  <2>1. Len(MemFlags) = 12 /\ DOMAIN MemFlags = 1 .. 12
    BY DEF MemFlags
  <2>2. s(1) \notin Reserved \cup {s(2), s(3), s(4), s(5), s(6), s(7), s(8), s(9),
           s(10), s(11), s(12)}
    BY Zenon DEF MemFlags, Reserved, NoString
  <2>3. s(2) \notin Reserved \cup {s(3), s(4), s(5), s(6), s(7), s(8), s(9), s(10),
           s(11), s(12)}
    BY Zenon DEF MemFlags, Reserved, NoString
  <2>4. s(3) \notin Reserved \cup {s(4), s(5), s(6), s(7), s(8), s(9), s(10), s(11), s(12)}
    BY Zenon DEF MemFlags, Reserved, NoString
  <2>5. s(4) \notin Reserved \cup {s(5), s(6), s(7), s(8), s(9), s(10), s(11), s(12)}
    BY Zenon DEF MemFlags, Reserved, NoString
  <2>6. s(5) \notin Reserved \cup {s(6), s(7), s(8), s(9), s(10), s(11), s(12)}
    BY Zenon DEF MemFlags, Reserved, NoString
  <2>7. s(6) \notin Reserved \cup {s(7), s(8), s(9), s(10), s(11), s(12)}
    BY Zenon DEF MemFlags, Reserved, NoString
  <2>8. s(7) \notin Reserved \cup {s(8), s(9), s(10), s(11), s(12)}
    BY Zenon DEF MemFlags, Reserved, NoString
  <2>9. s(8) \notin Reserved \cup {s(9), s(10), s(11), s(12)}
    BY Zenon DEF MemFlags, Reserved, NoString
  <2>10. s(9) \notin Reserved \cup {s(10), s(11), s(12)}
    BY Zenon DEF MemFlags, Reserved, NoString
  <2>11. s(10) \notin Reserved \cup {s(11), s(12)}
    BY Zenon DEF MemFlags, Reserved, NoString
  <2>12. s(11) \notin Reserved \cup {s(12)}
    BY Zenon DEF MemFlags, Reserved, NoString
  <2>13. s(12) \notin Reserved
    BY Zenon DEF MemFlags, Reserved, NoString
  <2> QED BY <2>1, <2>2, <2>3, <2>4, <2>5, <2>6, <2>7, <2>8, <2>9, <2>10, <2>11, <2>12, <2>13 DEF NamesBits
<1>8. NamesBits(MemMigrationFlags)
  <2> DEFINE s(i) == MemMigrationFlags[i]
  <2>1. Len(MemMigrationFlags) = 2 /\ DOMAIN MemMigrationFlags = 1 .. 2
    BY DEF MemMigrationFlags
  <2>2. s(1) \notin Reserved \cup {s(2)}
    BY Zenon DEF MemMigrationFlags, Reserved, NoString
  <2>3. s(2) \notin Reserved
    BY Zenon DEF MemMigrationFlags, Reserved, NoString
  <2> QED BY <2>1, <2>2, <2>3 DEF NamesBits
<1>9. NamesBits(MapFlags)
  <2> DEFINE s(i) == MapFlags[i]
  <2>1. Len(MapFlags) = 3 /\ DOMAIN MapFlags = 1 .. 3
    BY DEF MapFlags
  <2>2. s(1) \notin Reserved \cup {s(2), s(3)}
    BY Zenon DEF MapFlags, Reserved, NoString
  <2>3. s(2) \notin Reserved \cup {s(3)}
    BY Zenon DEF MapFlags, Reserved, NoString
  <2>4. s(3) \notin Reserved
    BY Zenon DEF MapFlags, Reserved, NoString
  <2> QED BY <2>1, <2>2, <2>3, <2>4 DEF NamesBits
<1>10. NamesBits(KernelArgTypeQualifier)
  <2> DEFINE s(i) == KernelArgTypeQualifier[i]
  <2>1. Len(KernelArgTypeQualifier) = 4 /\ DOMAIN KernelArgTypeQualifier = 1 .. 4
    BY DEF KernelArgTypeQualifier
  <2>2. s(1) \notin Reserved \cup {s(2), s(3), s(4)}
    BY Zenon DEF KernelArgTypeQualifier, Reserved, NoString
  <2>3. s(2) \notin Reserved \cup {s(3), s(4)}
    BY Zenon DEF KernelArgTypeQualifier, Reserved, NoString
  <2>4. s(3) \notin Reserved \cup {s(4)}
    BY Zenon DEF KernelArgTypeQualifier, Reserved, NoString
  <2>5. s(4) \notin Reserved
    BY Zenon DEF KernelArgTypeQualifier, Reserved, NoString
  <2> QED BY <2>1, <2>2, <2>3, <2>4, <2>5 DEF NamesBits
<1>11. Special[type] \in SUBSET {"all", "none"}
  BY DEF Special
<1> QED
  BY <1>1, <1>2, <1>3, <1>4, <1>5, <1>6, <1>7, <1>8, <1>9, <1>10, <1>11 DEF Named

\* The strings accepted are names or special, and have no stop in them.
LEMMA StringsAccepted ==
  ASSUME NEW type \in DOMAIN Named, NEW args \in FlagArguments(type)
  PROVE  Strings(args) \in SUBSET (Names(type) \cup {"all", "none"})
<1>1. \A i \in DOMAIN args : args[i] \in Names(type) \cup Special[type] \cup {NoString}
  BY DEF FlagArguments, SeqOf
<1>2. Special[type] \in SUBSET {"all", "none"}
  BY NamedBits
<1>3. ASSUME NEW i \in DOMAIN args, \A j \in 1 .. i : args[j] # NoString
      PROVE  args[i] \in Names(type) \cup {"all", "none"}
  <2>1. i \in 1 .. i
    BY DEF FlagArguments, SeqOf
  <2> QED BY <1>1, <1>2, <1>3, <2>1
<1> QED BY <1>3 DEF Strings

\* The bits of the arguments: all there are, or those that are named.
LEMMA BitsAccepted ==
  ASSUME NEW type \in DOMAIN Named, NEW args \in FlagArguments(type)
  PROVE  CheckFlags(type, args) =
           IF "all" \in Strings(args) THEN Names(type) \cup {"unnamed"}
           ELSE Strings(args) \ {"none"}
<1>1. \A s \in Names(type) : s \notin {"all", "none", "unnamed", NoString}
  BY NamedBits DEF Names, NamesBits, Reserved
<1>2. \A s \in Strings(args) \ {"all", "none"} : Bits(type, s) = {s}
  BY DEF Bits
<1>3. /\ Bits(type, "all") = Names(type) \cup {"unnamed"}
      /\ Bits(type, "none") = {}
  BY DEF Bits
<1>4. Strings(args) \in SUBSET (Names(type) \cup {"all", "none"})
  BY StringsAccepted
<1> QED BY <1>1, <1>2, <1>3, <1>4 DEF CheckFlags

\* The flags pushed for a set of bits, in the order of the names.
LEMMA FlagsPushed ==
  ASSUME NEW type \in DOMAIN Named, NEW bits
  PROVE  LET list == Named[type]
             pushed == PushFlags(type, bits)
         IN /\ \E n \in Nat : DOMAIN pushed = 1 .. n
            /\ ToSet(pushed) = Names(type) \cap bits
            /\ \A i, j \in DOMAIN pushed, k, l \in DOMAIN list :
                 i < j /\ pushed[i] = list[k] /\ pushed[j] = list[l] => k < l
<1> DEFINE list == Named[type]
           set == {i \in DOMAIN list : list[i] \in bits}
           pushed == PushFlags(type, bits)
<1>1. PICK n \in Nat : DOMAIN list = 1 .. n
  BY NamedBits DEF NamesBits
<1>2. set \in SUBSET Nat /\ IsFiniteSet(set)
  <2>1. IsFiniteSet(1 .. n)
    BY FS_Interval
  <2>2. set \in SUBSET (1 .. n)
    BY <1>1
  <2> QED BY <2>1, <2>2, FS_Subset
<1>3. /\ Cardinality(set) \in Nat
      /\ pushed = [i \in 1 .. Cardinality(set) |-> list[InOrder(set)[i]]]
  BY <1>2, FS_CardinalityType DEF PushFlags
<1> HIDE DEF pushed
<1>4. ASSUME NEW i \in DOMAIN pushed PROVE InOrder(set)[i] \in set
  BY <1>2, <1>3, InOrderPlaces
<1>5. ToSet(pushed) = Names(type) \cap bits
  <2>1. ASSUME NEW s \in ToSet(pushed) PROVE s \in Names(type) \cap bits
    BY <1>3, <1>4 DEF ToSet, Names
  <2>2. ASSUME NEW s \in Names(type) \cap bits PROVE s \in ToSet(pushed)
    <3>1. PICK k \in set : list[k] = s
      BY DEF Names
    <3>2. /\ Place(set, k) \in 1 .. Cardinality(set)
          /\ InOrder(set)[Place(set, k)] = k
      BY <1>2, InOrderOnto
    <3> QED BY <1>3, <3>1, <3>2 DEF ToSet
  <2> QED BY <2>1, <2>2
<1>6. ASSUME NEW i \in DOMAIN pushed, NEW j \in DOMAIN pushed,
             NEW k \in DOMAIN list, NEW l \in DOMAIN list,
             i < j, pushed[i] = list[k], pushed[j] = list[l]
      PROVE  k < l
  <2>1. list[InOrder(set)[i]] = list[k] /\ list[InOrder(set)[j]] = list[l]
    BY <1>3, <1>6
  <2>2. InOrder(set)[i] = k /\ InOrder(set)[j] = l
    BY <1>4, <2>1, NamedBits DEF NamesBits
  <2>3. i \in 1 .. Cardinality(set) /\ j \in 1 .. Cardinality(set)
    BY <1>3
  <2>4. InOrder(set)[i] < InOrder(set)[j]
    BY <1>2, <1>6, <2>3, InOrderIncreases
  <2> QED BY <2>2, <2>4
<1> QED BY <1>3, <1>5, <1>6 DEF pushed

(* The bits that the pushed flags are accepted as.                         *)
LEMMA FlagsReturn ==
  ASSUME NEW type \in DOMAIN Named, NEW args \in FlagArguments(type),
         NEW bits, bits = CheckFlags(type, args),
         NEW pushed, pushed = PushFlags(type, bits)
  PROVE  /\ ToSet(pushed) = IF "all" \in Strings(args) THEN Names(type)
                            ELSE Strings(args) \ {"none"}
         /\ CheckFlags(type, pushed) = bits \ {"unnamed"}
<1>1. \A s \in Names(type) : s \notin {"all", "none", "unnamed", NoString}
  BY NamedBits DEF Names, NamesBits, Reserved
<1>2. Strings(args) \in SUBSET (Names(type) \cup {"all", "none"})
  BY StringsAccepted
<1>3. bits = IF "all" \in Strings(args) THEN Names(type) \cup {"unnamed"}
             ELSE Strings(args) \ {"none"}
  BY BitsAccepted
<1>4. ToSet(pushed) = Names(type) \cap bits /\ \E n \in Nat : DOMAIN pushed = 1 .. n
  BY FlagsPushed
<1>5. ToSet(pushed) = bits \ {"unnamed"}
  BY <1>1, <1>2, <1>3, <1>4
<1>6. Strings(pushed) = ToSet(pushed)
  <2>1. \A i \in DOMAIN pushed : pushed[i] \in Names(type)
    BY <1>4 DEF ToSet
  <2>2. \A i \in DOMAIN pushed : \A j \in 1 .. i : j \in DOMAIN pushed
    BY <1>4
  <2>3. \A i \in DOMAIN pushed : \A j \in 1 .. i : pushed[j] # NoString
    BY <1>1, <2>1, <2>2
  <2> QED BY <2>3 DEF Strings, ToSet
<1>7. \A s \in ToSet(pushed) : Bits(type, s) = {s}
  BY <1>1, <1>4 DEF Bits
<1>8. CheckFlags(type, pushed) = ToSet(pushed)
  <2>1. CheckFlags(type, pushed) = UNION {Bits(type, s) : s \in ToSet(pushed)}
    BY <1>6 DEF CheckFlags
  <2>2. \A s : s \in UNION {Bits(type, r) : r \in ToSet(pushed)} <=> s \in ToSet(pushed)
    BY <1>7
  <2> QED BY <2>1, <2>2
<1> QED BY <1>1, <1>2, <1>3, <1>4, <1>5, <1>8

-----------------------------------------------------------------------------
(***************************************************************************)
(* Property lists.                                                         *)
(***************************************************************************)
LEMMA FieldsNamed ==
  ASSUME NEW kind \in DOMAIN FieldsOf
  PROVE  LET fields == FieldsOf[kind] IN
         /\ \E n \in Nat : DOMAIN fields = 1 .. n
         /\ \A k, l \in DOMAIN fields : fields[k].name = fields[l].name => k = l
<1> DEFINE Fields(list) == /\ Len(list) \in Nat /\ DOMAIN list = 1 .. Len(list)
                           /\ \A k, l \in DOMAIN list : list[k].name = list[l].name => k = l
<1>1. Fields(ContextFields)
  BY DEF ContextFields, Handle
<1>2. Fields(QueueFields)
  BY DEF QueueFields, Handle, Plain
<1>3. Fields(SamplerFields)
  BY DEF SamplerFields, Plain
<1>4. \/ kind = "context" /\ FieldsOf[kind] = ContextFields
      \/ kind = "queue" /\ FieldsOf[kind] = QueueFields
      \/ kind = "sampler" /\ FieldsOf[kind] = SamplerFields
  BY DEF FieldsOf
<1>5. Fields(FieldsOf[kind])
  BY <1>1, <1>2, <1>3, <1>4
<1> QED BY <1>5

\* The sets of positions are finite sets of positive integers.
LEMMA PositionsFinite ==
  ASSUME NEW kind \in DOMAIN FieldsOf, NEW t
  PROVE  /\ Present(kind, t) \in SUBSET (Nat \ {0}) /\ IsFiniteSet(Present(kind, t))
         /\ Written(kind, t) \in SUBSET (Nat \ {0}) /\ IsFiniteSet(Written(kind, t))
         /\ Cardinality(Present(kind, t)) \in Nat
         /\ Cardinality(Written(kind, t)) \in Nat
         /\ Cardinality(Written(kind, t)) <= Cardinality(Present(kind, t))
<1>1. PICK n \in Nat : DOMAIN FieldsOf[kind] = 1 .. n
  BY FieldsNamed
<1>2. Present(kind, t) \in SUBSET (1 .. n) /\ Written(kind, t) \in SUBSET Present(kind, t)
  BY <1>1 DEF Present, Written
<1>3. IsFiniteSet(1 .. n)
  BY FS_Interval
<1>4. IsFiniteSet(Present(kind, t))
  BY <1>2, <1>3, FS_Subset
<1>5. /\ IsFiniteSet(Written(kind, t))
      /\ Cardinality(Written(kind, t)) <= Cardinality(Present(kind, t))
  BY <1>2, <1>4, FS_Subset
<1> QED BY <1>2, <1>4, <1>5, FS_CardinalityType

\* Field k of table t, as it is in the array.
Value(kind, t, k) == Cell(FieldsOf[kind][k].name, t[FieldsOf[kind][k].name])

(* The array of a table that has fields: a key and a value for each field  *)
(* that is written, in the order of the keys, then a zero.                 *)
LEMMA ArrayOf ==
  ASSUME NEW kind \in DOMAIN FieldsOf, NEW t, Present(kind, t) # {},
         NEW array, array = FillProperties(kind, t),
         NEW n, n = Cardinality(Written(kind, t))
  PROVE  /\ n \in Nat
         /\ array.room = 2 * Cardinality(Present(kind, t)) + 1
         /\ Len(array.cells) = 2 * n + 1 /\ DOMAIN array.cells = 1 .. 2 * n + 1
         /\ array.cells[2 * n + 1] = 0
         /\ \A m \in 1 .. n :
              LET k == InOrder(Written(kind, t))[m] IN
              /\ k \in Written(kind, t) /\ k \in Nat \ {0}
              /\ array.cells[2 * m - 1] = k
              /\ array.cells[2 * m] = Value(kind, t, k)
<1> DEFINE written == InOrder(Written(kind, t))
           At(i) == IF i = 2 * n + 1 THEN 0
                    ELSE IF i % 2 = 1 THEN written[(i + 1) \div 2]
                         ELSE Value(kind, t, written[(i + 1) \div 2])
<1>1. n \in Nat
  BY PositionsFinite
<1>2. array = [room |-> 2 * Cardinality(Present(kind, t)) + 1,
               cells |-> [i \in 1 .. 2 * n + 1 |-> At(i)]]
  BY DEF FillProperties, Value
<1>3. array.cells = [i \in 1 .. 2 * n + 1 |-> At(i)]
  BY <1>2
<1>4. ASSUME NEW m \in 1 .. n
      PROVE  /\ 2 * m - 1 \in 1 .. 2 * n + 1 /\ 2 * m \in 1 .. 2 * n + 1
             /\ At(2 * m - 1) = written[m]
             /\ At(2 * m) = Value(kind, t, written[m])
  <2>1. /\ 2 * m - 1 # 2 * n + 1 /\ (2 * m - 1) % 2 = 1 /\ ((2 * m - 1) + 1) \div 2 = m
        /\ 2 * m # 2 * n + 1 /\ (2 * m) % 2 # 1 /\ (2 * m + 1) \div 2 = m
    BY <1>1
  <2> QED BY <1>1, <2>1
<1>5. ASSUME NEW m \in 1 .. n PROVE written[m] \in Written(kind, t) /\ written[m] \in Nat \ {0}
  BY <1>1, PositionsFinite, InOrderPlaces
<1>6. 2 * n + 1 \in 1 .. 2 * n + 1 /\ At(2 * n + 1) = 0
  BY <1>1
<1> HIDE DEF At, written
<1>7. DOMAIN array.cells = 1 .. 2 * n + 1 /\ Len(array.cells) = 2 * n + 1
  BY <1>1, <1>3
<1>8. \A i \in 1 .. 2 * n + 1 : array.cells[i] = At(i)
  BY <1>3
<1>9. \A m \in 1 .. n :
        /\ written[m] \in Written(kind, t) /\ written[m] \in Nat \ {0}
        /\ array.cells[2 * m - 1] = written[m]
        /\ array.cells[2 * m] = Value(kind, t, written[m])
  BY <1>4, <1>5, <1>8
<1> QED BY <1>1, <1>2, <1>6, <1>7, <1>8, <1>9 DEF written

\* The places of the keys in an array: two apart, up to its end.
LEMMA KeyPlaces ==
  ASSUME NEW n \in Nat, NEW i \in 1 .. 2 * n + 1, i % 2 = 1
  PROVE  \/ i = 2 * n + 1
         \/ \E m \in 1 .. n : i = 2 * m - 1
<1> DEFINE m == (i + 1) \div 2
<1>1. i = 2 * m - 1 /\ m \in Nat
  OBVIOUS
<1>2. i # 2 * n + 1 => m \in 1 .. n
  BY <1>1
<1> HIDE DEF m
<1> QED BY <1>1, <1>2

\* The reader stops at the zero that the writer has put after the fields.
LEMMA EndOfArray ==
  ASSUME NEW kind \in DOMAIN FieldsOf, NEW t, Present(kind, t) # {},
         NEW array, array = FillProperties(kind, t),
         NEW n, n = Cardinality(Written(kind, t))
  PROVE  EndOf(array.cells) = 2 * n + 1
<1> DEFINE End(i) == /\ i \in DOMAIN array.cells
                     /\ i % 2 = 1 /\ array.cells[i] = 0
                     /\ \A j \in 1 .. i - 1 : j % 2 = 1 => array.cells[j] # 0
<1>1. n \in Nat /\ DOMAIN array.cells = 1 .. 2 * n + 1 /\ array.cells[2 * n + 1] = 0
  BY ArrayOf
<1>2. \A m \in 1 .. n : array.cells[2 * m - 1] # 0
  BY ArrayOf
<1>3. ASSUME NEW i \in 1 .. 2 * n + 1, i % 2 = 1, array.cells[i] = 0 PROVE i = 2 * n + 1
  BY <1>1, <1>2, <1>3, KeyPlaces
<1>4. End(2 * n + 1)
  <2>1. 2 * n + 1 \in 1 .. 2 * n + 1 /\ (2 * n + 1) % 2 = 1
    BY <1>1
  <2>2. ASSUME NEW j \in 1 .. (2 * n + 1) - 1, j % 2 = 1 PROVE array.cells[j] # 0
    <3>1. j \in 1 .. 2 * n + 1 /\ j # 2 * n + 1
      BY <1>1
    <3> QED BY <1>3, <2>2, <3>1
  <2> QED BY <1>1, <2>1, <2>2
<1>5. \A i : End(i) => i = 2 * n + 1
  BY <1>1, <1>3
<1>6. EndOf(array.cells) = CHOOSE i : End(i)
  BY DEF EndOf
<1> QED BY <1>4, <1>5, <1>6

(* What is read back: the fields that were written, with the values that   *)
(* the array has for them.                                                 *)
HasWritten(kind, t, back) ==
  /\ DOMAIN back = {FieldsOf[kind][k].name : k \in Written(kind, t)}
  /\ back = [name \in DOMAIN back |-> back[name]]
  /\ \A k \in Written(kind, t) :
       back[FieldsOf[kind][k].name] = Value(kind, t, k)
LEMMA FieldsReturn ==
  ASSUME NEW kind \in DOMAIN FieldsOf, NEW t, Present(kind, t) # {},
         NEW array, array = FillProperties(kind, t),
         NEW back, back = PushProperties(kind, array)
  PROVE  HasWritten(kind, t, back)
<1> DEFINE fields == FieldsOf[kind]
           n == Cardinality(Written(kind, t))
           written == InOrder(Written(kind, t))
           cells == array.cells
           keys == {i \in 1 .. EndOf(cells) - 1 : i % 2 = 1}
           NameAt(i) == fields[cells[i]].name
<1>1. /\ n \in Nat /\ EndOf(cells) = 2 * n + 1
      /\ \A m \in 1 .. n : /\ written[m] \in Written(kind, t)
                           /\ cells[2 * m - 1] = written[m]
                           /\ cells[2 * m] = Value(kind, t, written[m])
  BY ArrayOf, EndOfArray
<1>2. array # Absent
  BY ArrayOf, PositionsFinite DEF Absent
<1>3. back = [name \in {NameAt(i) : i \in keys} |->
                cells[1 + CHOOSE i \in keys : NameAt(i) = name]]
  BY <1>2 DEF PushProperties
<1>4. \A i \in keys : \E m \in 1 .. n : i = 2 * m - 1
  <2>1. \A i \in keys : i \in 1 .. 2 * n + 1 /\ i # 2 * n + 1 /\ i % 2 = 1
    BY <1>1
  <2> QED BY <1>1, <2>1, KeyPlaces
<1>5. \A m \in 1 .. n : 2 * m - 1 \in keys
  BY <1>1
<1> HIDE DEF keys
<1>6. ASSUME NEW k \in Written(kind, t)
      PROVE  \E m \in 1 .. n : written[m] = k
  BY PositionsFinite, InOrderOnto
<1>7. {NameAt(i) : i \in keys} = {fields[k].name : k \in Written(kind, t)}
  <2>1. ASSUME NEW i \in keys PROVE \E k \in Written(kind, t) : NameAt(i) = fields[k].name
    BY <1>1, <1>4
  <2>2. ASSUME NEW k \in Written(kind, t) PROVE \E i \in keys : NameAt(i) = fields[k].name
    <3>1. PICK m \in 1 .. n : written[m] = k
      BY <1>6
    <3>2. 2 * m - 1 \in keys /\ cells[2 * m - 1] = k
      BY <1>1, <1>5, <3>1
    <3> QED BY <3>2
  <2> QED BY <2>1, <2>2
<1>8. ASSUME NEW k \in Written(kind, t)
      PROVE  back[fields[k].name] = Value(kind, t, k)
  <2>1. PICK m \in 1 .. n : written[m] = k
    BY <1>6
  <2>2. 2 * m - 1 \in keys /\ NameAt(2 * m - 1) = fields[k].name
    BY <1>1, <1>5, <2>1
  <2>3. ASSUME NEW i \in keys, NameAt(i) = fields[k].name PROVE i = 2 * m - 1
    <3>1. PICK l \in 1 .. n : i = 2 * l - 1
      BY <1>4
    <3>2. fields[written[l]].name = fields[k].name /\ written[l] \in Written(kind, t)
      BY <1>1, <2>3, <3>1
    <3>3. written[l] = k
      BY <3>2, FieldsNamed DEF Written, Present
    <3>4. ~ l < m /\ ~ m < l
      BY <2>1, <3>3, PositionsFinite, InOrderIncreases
    <3> QED BY <1>1, <3>1, <3>4
  <2>4. (CHOOSE i \in keys : NameAt(i) = fields[k].name) = 2 * m - 1
    BY <2>2, <2>3
  <2>5. back[fields[k].name] = cells[1 + (2 * m - 1)]
    <3>1. fields[k].name \in {NameAt(i) : i \in keys}
      BY <1>7
    <3>2. back[fields[k].name] = cells[1 + CHOOSE i \in keys : NameAt(i) = fields[k].name]
      BY <1>3, <3>1, Zenon
    <3> QED BY <2>4, <3>2, Zenon
  <2>6. 1 + (2 * m - 1) = 2 * m
    BY <1>1
  <2> QED BY <1>1, <2>1, <2>5, <2>6
<1> QED BY <1>3, <1>7, <1>8 DEF HasWritten

\* A table of the script: some of the fields, with integers that they may have.
LEMMA TableOf ==
  ASSUME NEW kind \in DOMAIN FieldsOf, NEW t \in PropertyTables(kind)
  PROVE  /\ DOMAIN t \in SUBSET FieldNames(kind)
         /\ \A name \in DOMAIN t : t[name] \in Int /\ t[name] \in FieldValues(name)
<1> DEFINE values == FieldIntegers \cup {0, 1} \cup PlatformHandles
<1>1. PICK set \in SUBSET FieldNames(kind) :
        t \in [set -> values] /\ \A name \in set : t[name] \in FieldValues(name)
  BY DEF PropertyTables
<1>2. values \in SUBSET Int
  BY ConversionAssumption
<1> HIDE DEF values
<1> QED BY <1>1, <1>2

\* The fields there are, by what is taken for an absent one.
KnownField(kind, field) ==
  \/ kind = "context" /\ field.name = "platform" /\ field.unwritten = {0}
  \/ field.name \in Pointers /\ field.unwritten = {Minus1}
  \/ field.name \in Booleans \cup Enums /\ field.unwritten \in {{}, {Minus1}}
  \/ field.name \in {"properties", "size"} /\ field.unwritten = {}
LEMMA FieldKinds ==
  ASSUME NEW kind \in DOMAIN FieldsOf, NEW k \in DOMAIN FieldsOf[kind]
  PROVE  KnownField(kind, FieldsOf[kind][k])
<1>1. CASE kind = "context"
  <2>1. FieldsOf[kind] = ContextFields
    BY <1>1 DEF FieldsOf
  <2>2. \/ ContextFields[k] = [name |-> "platform", unwritten |-> {0}]
        \/ \E name \in Pointers \cup Booleans : ContextFields[k] = Handle(name)
    BY <2>1 DEF ContextFields, Pointers, Booleans
  <2>3. \A name : Handle(name).name = name /\ Handle(name).unwritten = {Minus1}
    BY DEF Handle
  <2> QED BY <1>1, <2>1, <2>2, <2>3 DEF KnownField
<1>2. CASE kind = "queue"
  BY <1>2 DEF KnownField, FieldsOf, QueueFields, Handle, Plain, Always, Enums
<1>3. CASE kind = "sampler"
  BY <1>3 DEF KnownField, FieldsOf, SamplerFields, Plain, Always, Booleans, Enums
<1>4. kind \in {"context", "queue", "sampler"}
  BY DEF FieldsOf
<1> QED BY <1>1, <1>2, <1>3, <1>4

\* What a conversion to cl_uint leaves alone.
LEMMA Fitting ==
  ASSUME NEW x \in Int
  PROVE  x % UintSize = x <=> x \in 0 .. UintSize - 1
<1>1. UintSize \in Int /\ UintSize > 0
  BY ConversionAssumption
<1> QED BY <1>1

(* The list that the array is filled from: the fields of the table, with   *)
(* the call's platform for a context.                                      *)
Completes(kind, t, platform, c) ==
  /\ DOMAIN c = DOMAIN t \cup (IF kind = "context" THEN {"platform"} ELSE {})
  /\ DOMAIN c = {FieldsOf[kind][k].name : k \in Present(kind, c)}
  /\ \A name \in DOMAIN t : name # "platform" => c[name] = t[name]
  /\ kind = "context" => c["platform"] = platform
  /\ \A name \in DOMAIN c : c[name] \in Int /\ c[name] \in FieldValues(name)
LEMMA Completed ==
  ASSUME NEW kind \in DOMAIN FieldsOf, NEW t \in PropertyTables(kind),
         NEW platform \in PlatformHandles, NEW c, c = WithPlatform(kind, t, platform)
  PROVE  Completes(kind, t, platform, c)
<1>1. /\ DOMAIN c = DOMAIN t \cup (IF kind = "context" THEN {"platform"} ELSE {})
      /\ \A name \in DOMAIN t : name # "platform" => c[name] = t[name]
      /\ kind = "context" => c["platform"] = platform
      /\ kind # "context" => c = t
  BY DEF WithPlatform
<1>2. kind = "context" => "platform" \in FieldNames(kind)
  <2>1. 1 \in DOMAIN ContextFields /\ ContextFields[1].name = "platform"
    BY DEF ContextFields
  <2>2. kind = "context" => FieldsOf[kind] = ContextFields
    BY DEF FieldsOf
  <2> QED BY <2>1, <2>2 DEF FieldNames
<1>3. DOMAIN c \in SUBSET FieldNames(kind)
  BY <1>1, <1>2, TableOf
<1>4. DOMAIN c = {FieldsOf[kind][k].name : k \in Present(kind, c)}
  BY <1>3 DEF FieldNames, Present
<1>5. platform \in Int /\ platform \in FieldValues("platform")
  BY ConversionAssumption DEF FieldValues, Booleans, Enums
<1>6. \A name \in DOMAIN c : c[name] \in Int /\ c[name] \in FieldValues(name)
  BY <1>1, <1>5, TableOf
<1> QED BY <1>1, <1>4, <1>6 DEF Completes

\* A field is written unless it is a pointer of -1.
LEMMA FieldWritten ==
  ASSUME NEW kind \in DOMAIN FieldsOf, NEW t \in PropertyTables(kind),
         NEW platform \in PlatformHandles, NEW c, c = WithPlatform(kind, t, platform),
         NEW k \in Present(kind, c)
  PROVE  LET name == FieldsOf[kind][k].name IN
         k \in Written(kind, c) <=> ~(name \in Pointers /\ c[name] = Minus1)
<1> DEFINE field == FieldsOf[kind][k]  value == c[field.name]
<1>1. k \in DOMAIN FieldsOf[kind] /\ field.name \in DOMAIN c
  BY DEF Present
<1>2. /\ value \in FieldValues(field.name)
      /\ kind = "context" => c["platform"] = platform
  <2>1. Completes(kind, t, platform, c)
    BY Completed
  <2> QED BY <1>1, <2>1 DEF Completes
<1>3. k \in Written(kind, c) <=> value \notin field.unwritten
  BY DEF Written
<1>4. CASE kind = "context" /\ field.name = "platform" /\ field.unwritten = {0}
  <2>1. value = platform
    BY <1>2, <1>4
  <2>2. platform # 0
    BY ConversionAssumption
  <2> QED BY <1>3, <1>4, <2>1, <2>2 DEF Pointers
<1>5. CASE field.name \in Pointers /\ field.unwritten = {Minus1}
  BY <1>3, <1>5
<1>6. CASE field.name \in Booleans \cup Enums /\ field.unwritten \in {{}, {Minus1}}
  <2>1. FieldValues(field.name) = {0, 1} \/ FieldValues(field.name) = FieldIntegers \ {Minus1}
    BY <1>6 DEF FieldValues, Booleans, Enums
  <2>2. value # Minus1
    BY <1>2, <2>1 DEF Minus1
  <2>3. field.name \notin Pointers
    BY <1>6 DEF Pointers, Booleans, Enums
  <2> QED BY <1>3, <1>6, <2>2, <2>3
<1>7. CASE field.name \in {"properties", "size"} /\ field.unwritten = {}
  BY <1>3, <1>7 DEF Pointers
<1> QED BY <1>1, <1>4, <1>5, <1>6, <1>7, FieldKinds DEF KnownField

(* A property list is in a block that it fits in, and ends there.          *)
LEMMA PropertiesInside ==
  ASSUME NEW kind \in DOMAIN FieldsOf, NEW t,
         NEW array, array = FillProperties(kind, t)
  PROVE  /\ Len(array.cells) <= array.room
         /\ array # Absent => array.cells[Len(array.cells)] = 0
<1>1. CASE Present(kind, t) = {}
  <2>1. array = Absent
    BY <1>1 DEF FillProperties
  <2> QED BY <2>1 DEF Absent
<1>2. CASE Present(kind, t) # {}
  BY <1>2, ArrayOf, PositionsFinite
<1> QED BY <1>1, <1>2

(* What comes back from a list: the fields that were written, with what    *)
(* their cells hold, also when there was nothing to make an array of.      *)
LEMMA FieldsRead ==
  ASSUME NEW kind \in DOMAIN FieldsOf, NEW c,
         NEW array, array = FillProperties(kind, c),
         NEW back, back = PushProperties(kind, array)
  PROVE  /\ DOMAIN back = {FieldsOf[kind][k].name : k \in Written(kind, c)}
         /\ \A k \in Written(kind, c) :
              back[FieldsOf[kind][k].name] = Value(kind, c, k)
<1>1. CASE Present(kind, c) = {}
  <2>1. back = NoTable
    BY <1>1 DEF FillProperties, PushProperties
  <2>2. DOMAIN back = {}
    BY <2>1 DEF NoTable
  <2>3. Written(kind, c) = {}
    BY <1>1 DEF Written
  <2> QED BY <2>2, <2>3
<1>2. CASE Present(kind, c) # {}
  <2>1. HasWritten(kind, c, back)
    BY <1>2, FieldsReturn
  <2> QED BY <2>1 DEF HasWritten
<1> QED BY <1>1, <1>2

(* A field comes back as it was given unless it is lossy, a context comes  *)
(* back with the call's platform, and nothing else does.                   *)
LEMMA PropertiesReturn ==
  ASSUME NEW kind \in DOMAIN FieldsOf, NEW t \in PropertyTables(kind),
         NEW platform \in PlatformHandles,
         NEW array, array = CheckProperties(kind, t, platform),
         NEW back, back = PushProperties(kind, array)
  PROVE  /\ \A name \in DOMAIN t :
              (name \in DOMAIN back /\ back[name] = t[name])
                <=> name \notin Lossy(t, platform)
         /\ DOMAIN back \subseteq
              DOMAIN t \cup (IF kind = "context" THEN {"platform"} ELSE {})
         /\ kind = "context" =>
              "platform" \in DOMAIN back /\ back["platform"] = platform
<1> DEFINE fields == FieldsOf[kind]
<1>1. PICK c : c = WithPlatform(kind, t, platform)
  OBVIOUS
<1>2. /\ DOMAIN c = DOMAIN t \cup (IF kind = "context" THEN {"platform"} ELSE {})
      /\ DOMAIN c = {fields[k].name : k \in Present(kind, c)}
      /\ \A name \in DOMAIN t : name # "platform" => c[name] = t[name]
      /\ kind = "context" => c["platform"] = platform
      /\ \A name \in DOMAIN c : c[name] \in Int
  <2>1. Completes(kind, t, platform, c)
    BY <1>1, Completed
  <2> QED BY <2>1 DEF Completes
<1>3. /\ DOMAIN back = {fields[k].name : k \in Written(kind, c)}
      /\ \A k \in Written(kind, c) : back[fields[k].name] = Value(kind, c, k)
  <2>1. array = FillProperties(kind, c)
    BY <1>1 DEF CheckProperties
  <2> QED BY <2>1, FieldsRead
<1>4. ASSUME NEW name \in DOMAIN c
      PROVE  /\ name \in DOMAIN back <=> ~(name \in Pointers /\ c[name] = Minus1)
             /\ name \in DOMAIN back => back[name] = Cell(name, c[name])
  <2>1. PICK k \in Present(kind, c) : fields[k].name = name
    BY <1>2
  <2>2. name \in DOMAIN back <=> k \in Written(kind, c)
    BY <1>3, <2>1, FieldsNamed DEF Written, Present
  <2>3. k \in Written(kind, c) <=> ~(name \in Pointers /\ c[name] = Minus1)
    BY <1>1, <2>1, FieldWritten
  <2>4. k \in Written(kind, c) => back[name] = Cell(name, c[name])
    BY <1>3, <2>1 DEF Value
  <2> QED BY <2>2, <2>3, <2>4
<1>5. ASSUME NEW name \in DOMAIN c
      PROVE  Cell(name, c[name]) = c[name]
               <=> ~(name = "size" /\ c[name] \notin 0 .. UintSize - 1)
  BY <1>2, Fitting DEF Cell
<1>6. ASSUME NEW name \in DOMAIN t
      PROVE  (name \in DOMAIN back /\ back[name] = t[name])
               <=> name \notin Lossy(t, platform)
  <2>1. name \in DOMAIN c
    BY <1>2
  <2>2. CASE name = "platform"
    <3>1. kind = "context"
      <4>1. PICK k \in DOMAIN fields : fields[k].name = "platform"
        BY <1>2, <2>1, <2>2 DEF Present
      <4> QED BY <4>1, FieldKinds DEF KnownField, Pointers, Booleans, Enums
    <3>2. name \in DOMAIN back /\ back[name] = platform
      BY <1>2, <1>4, <2>1, <2>2, <3>1 DEF Pointers, Cell
    <3>3. name \in Lossy(t, platform) <=> t[name] # platform
      BY <2>2 DEF Lossy, Pointers
    <3> QED BY <3>2, <3>3
  <2>3. CASE name # "platform"
    <3>1. c[name] = t[name]
      BY <1>2, <2>3
    <3>2. name \in Lossy(t, platform) <=>
            \/ name \in Pointers /\ c[name] = Minus1
            \/ name = "size" /\ c[name] \notin 0 .. UintSize - 1
      BY <2>3, <3>1 DEF Lossy
    <3> QED BY <1>4, <1>5, <2>1, <3>1, <3>2
  <2> QED BY <2>2, <2>3
<1>7. DOMAIN back \subseteq DOMAIN c
  BY <1>2, <1>3 DEF Written
<1>8. ASSUME kind = "context"
      PROVE  "platform" \in DOMAIN back /\ back["platform"] = platform
  <2>1. "platform" \in DOMAIN c
    BY <1>2, <1>8
  <2> QED BY <1>2, <1>4, <1>8, <2>1 DEF Pointers, Cell
<1> QED BY <1>2, <1>6, <1>7, <1>8

-----------------------------------------------------------------------------
(***************************************************************************)
(* Partitions.                                                             *)
(***************************************************************************)
LEMMA LeastOf ==
  ASSUME NEW S \in SUBSET Nat, IsFiniteSet(S), S # {}
  PROVE  \E m \in S : \A k \in S : m <= k
<1>1. Cardinality(S) \in Nat /\ Cardinality(S) # 0
  BY FS_CardinalityType, FS_EmptySet
<1>2. 1 \in 1 .. Cardinality(S)
  BY <1>1
<1> DEFINE m == InOrder(S)[1]
<1>3. m \in S
  BY <1>2, InOrderPlaces
<1>4. ASSUME NEW k \in S PROVE m <= k
  <2>1. Place(S, k) \in 1 .. Cardinality(S) /\ InOrder(S)[Place(S, k)] = k
    BY InOrderOnto
  <2>2. Place(S, k) = 1 \/ 1 < Place(S, k)
    BY <1>1, <2>1
  <2>3. CASE Place(S, k) = 1
    BY <1>3, <2>1, <2>3
  <2>4. CASE 1 < Place(S, k)
    <3>1. m < InOrder(S)[Place(S, k)]
      BY <1>2, <2>1, <2>4, InOrderIncreases
    <3>2. m \in Nat /\ k \in Nat
      BY <1>3
    <3> QED BY <2>1, <3>1, <3>2
  <2> QED BY <2>2, <2>3, <2>4
<1> QED BY <1>3, <1>4

LEMMA WaysAre ==
  /\ DOMAIN Ways = 1 .. 3
  /\ Ways[1] = "equally" /\ Ways[2] = "by_affinity_domain" /\ Ways[3] = "by_counts"
BY DEF Ways

\* A table of the script: some of the ways, with lists of integers.
LEMMA PartitionTableOf ==
  ASSUME NEW t \in PartitionTables
  PROVE  /\ DOMAIN t \in SUBSET {Ways[1], Ways[2], Ways[3]} /\ IsFiniteSet(DOMAIN t)
         /\ t = [w \in DOMAIN t |-> t[w]]
         /\ \A w \in DOMAIN t : t[w] \in Seq(Int) /\ (w # "by_counts" => Len(t[w]) = 1)
<1> DEFINE all == {Ways[1], Ways[2], Ways[3]}
<1>1. PICK ways \in SUBSET {Ways[w] : w \in DOMAIN Ways} :
        /\ t \in [ways -> SeqOf(FieldIntegers, MaxCounts)]
        /\ \A w \in ways : w # "by_counts" => Len(t[w]) = 1
  BY DEF PartitionTables
<1>2. {Ways[w] : w \in DOMAIN Ways} = all
  <2>1. \A w \in 1 .. 3 : w = 1 \/ w = 2 \/ w = 3
    OBVIOUS
  <2> QED BY <2>1, WaysAre
<1>3. SeqOf(FieldIntegers, MaxCounts) \in SUBSET Seq(Int)
  <2>1. ASSUME NEW s \in SeqOf(FieldIntegers, MaxCounts) PROVE s \in Seq(Int)
    <3>1. PICK n \in 0 .. MaxCounts : s \in [1 .. n -> FieldIntegers]
      BY DEF SeqOf
    <3>2. n \in Nat
      BY <3>1, ConversionAssumption
    <3>3. \A i \in 1 .. n : s[i] \in Int
      BY <3>1, ConversionAssumption
    <3>4. s \in [1 .. n -> Int]
      BY <3>1, <3>3
    <3> QED BY <3>2, <3>4
  <2> QED BY <2>1
<1>4. IsFiniteSet(all)
  <2>1. IsFiniteSet({}) /\ IsFiniteSet({Ways[1]})
    BY FS_Singleton, FS_EmptySet
  <2>2. IsFiniteSet({Ways[1]} \cup {Ways[2]})
    BY <2>1, FS_AddElement
  <2>3. IsFiniteSet(({Ways[1]} \cup {Ways[2]}) \cup {Ways[3]})
    BY <2>2, FS_AddElement
  <2>4. ({Ways[1]} \cup {Ways[2]}) \cup {Ways[3]} = all
    OBVIOUS
  <2> QED BY <2>3, <2>4
<1>5. DOMAIN t = ways /\ ways \in SUBSET all
  BY <1>1, <1>2
<1>6. IsFiniteSet(DOMAIN t)
  BY <1>4, <1>5, FS_Subset
<1> QED BY <1>1, <1>3, <1>5, <1>6

\* The cells of a way with one number.
LEMMA WayCells ==
  ASSUME NEW w \in Int, NEW s \in Seq(Int), Len(s) = 1
  PROVE  /\ Len(<<w>> \o s \o <<0>>) = 3
         /\ (<<w>> \o s \o <<0>>)[1] = w
         /\ (<<w>> \o s \o <<0>>)[2] = s[1]
         /\ (<<w>> \o s \o <<0>>)[3] = 0
<1> DEFINE a == <<w>>  z == <<0>>
<1>1. a \in Seq(Int) /\ Len(a) = 1 /\ a[1] = w
  OBVIOUS
<1>2. z \in Seq(Int) /\ Len(z) = 1 /\ z[1] = 0
  OBVIOUS
<1> HIDE DEF a, z
<1>3. /\ a \o s \in Seq(Int) /\ Len(a \o s) = Len(a) + Len(s)
      /\ \A i \in 1 .. Len(a) + Len(s) :
           (a \o s)[i] = IF i <= Len(a) THEN a[i] ELSE s[i - Len(a)]
  BY <1>1, ConcatProperties, Zenon
<1>4. Len(a \o s) = 2 /\ (a \o s)[1] = w /\ (a \o s)[2] = s[1]
  BY <1>1, <1>3
<1> DEFINE both == a \o s
<1> HIDE DEF both
<1>5. both \in Seq(Int) /\ Len(both) = 2 /\ both[1] = w /\ both[2] = s[1]
  BY <1>3, <1>4 DEF both
<1>6. /\ Len(both \o z) = Len(both) + Len(z)
      /\ \A i \in 1 .. Len(both) + Len(z) :
           (both \o z)[i] = IF i <= Len(both) THEN both[i] ELSE z[i - Len(both)]
  BY <1>2, <1>5, ConcatProperties, Zenon
<1>7. Len(both \o z) = 3 /\ (both \o z)[1] = w /\ (both \o z)[2] = s[1] /\ (both \o z)[3] = 0
  BY <1>2, <1>5, <1>6
<1> QED BY <1>7 DEF a, both, z

(* The array for a table: of the first way that the table has.             *)
LEMMA PartitionArray ==
  ASSUME NEW t \in PartitionTables, NEW array, array = CheckPartition(t)
  PROVE  \/ array = Absent
         \/ \E w \in {1, 2} :
              /\ Ways[w] \in DOMAIN t /\ array.room = 3
              /\ Len(array.cells) = 3
              /\ array.cells[1] = w /\ array.cells[2] = t[Ways[w]][1] /\ array.cells[3] = 0
         \/ /\ DOMAIN t = {"by_counts"} /\ t["by_counts"] # <<>>
            /\ array.room = Len(t["by_counts"]) + 3
            /\ array.cells = << 3 >> \o t["by_counts"] \o <<0, 0>>
<1> DEFINE set == {w \in 1 .. 3 : Ways[w] \in DOMAIN t}
           least == CHOOSE w \in set : \A v \in set : w <= v
<1>1. set = {} => array = Absent
  BY DEF CheckPartition
<1>2. set # {} => least \in set /\ \A v \in set : least <= v
  <2>1. \A w \in set : w \in Nat
    OBVIOUS
  <2>2. set # {} => \E w \in set : \A v \in set : w <= v
    BY 1 \in 1 .. 3, 2 \in 1 .. 3, 3 \in 1 .. 3
  <2> QED BY <2>2
<1>3. CASE set # {} /\ least = 3
  <2>1. DOMAIN t = {"by_counts"}
    <3>1. 1 \notin set /\ 2 \notin set /\ 3 \in set
      BY <1>2, <1>3
    <3>2. Ways[1] \notin DOMAIN t /\ Ways[2] \notin DOMAIN t /\ Ways[3] \in DOMAIN t
      BY <3>1
    <3> QED BY <3>2, PartitionTableOf, WaysAre
  <2>2. array = IF t["by_counts"] = <<>> THEN Absent
                ELSE [room |-> Len(t["by_counts"]) + 3,
                      cells |-> << 3 >> \o t["by_counts"] \o <<0, 0>>]
    BY <1>3 DEF CheckPartition
  <2> QED BY <2>1, <2>2
<1>4. CASE set # {} /\ least # 3
  <2>1. PICK w \in {1, 2} : w = least /\ Ways[w] \in DOMAIN t
    BY <1>2, <1>4
  <2>2. array = [room |-> 3, cells |-> <<w>> \o t[Ways[w]] \o <<0>>]
    BY <1>4, <2>1 DEF CheckPartition
  <2>3. t[Ways[w]] \in Seq(Int) /\ Len(t[Ways[w]]) = 1
    BY <2>1, WaysAre, PartitionTableOf
  <2>4. array.room = 3 /\ array.cells = <<w>> \o t[Ways[w]] \o <<0>>
    BY <2>2
  <2>5. t[Ways[w]][1] \in Int /\ w \in Int
    BY <2>3
  <2>6. /\ Len(array.cells) = 3
        /\ array.cells[1] = w /\ array.cells[2] = t[Ways[w]][1] /\ array.cells[3] = 0
    BY <2>3, <2>4, <2>5, WayCells
  <2> QED BY <2>1, <2>4, <2>6, Zenon
<1> QED BY <1>1, <1>3, <1>4

(* The array of a partition is in a block that it fits in, and ends there. *)
LEMMA PartitionInside ==
  ASSUME NEW t \in PartitionTables, NEW array, array = CheckPartition(t)
  PROVE  /\ Len(array.cells) <= array.room
         /\ array # Absent => array.cells[Len(array.cells)] = 0
<1>1. CASE array = Absent
  BY <1>1 DEF Absent
<1>2. ASSUME array.room = 3, Len(array.cells) = 3, array.cells[3] = 0
      PROVE  Len(array.cells) <= array.room /\ array.cells[Len(array.cells)] = 0
  BY <1>2
<1>3. CASE /\ DOMAIN t = {"by_counts"}
           /\ array.room = Len(t["by_counts"]) + 3
           /\ array.cells = << 3 >> \o t["by_counts"] \o <<0, 0>>
  <2>1. t["by_counts"] \in Seq(Int)
    BY <1>3, PartitionTableOf
  <2>2. Len(array.cells) = Len(t["by_counts"]) + 3
    BY <1>3, <2>1
  <2>3. array.cells[Len(t["by_counts"]) + 3] = 0
    BY <1>3, <2>1
  <2> QED BY <1>3, <2>1, <2>2, <2>3
<1> QED BY <1>1, <1>2, <1>3, PartitionArray

\* More than one way to partition, seen from one that there is.
LEMMA SeveralWays ==
  ASSUME NEW t \in PartitionTables, NEW way \in DOMAIN t
  PROVE  Cardinality(DOMAIN t) > 1 <=> DOMAIN t # {way}
<1>1. IsFiniteSet(DOMAIN t) /\ Cardinality(DOMAIN t) \in Nat /\ Cardinality(DOMAIN t) # 0
  BY PartitionTableOf, FS_CardinalityType, FS_EmptySet
<1>2. Cardinality(DOMAIN t) = 1 => DOMAIN t = {way}
  <2> SUFFICES ASSUME Cardinality(DOMAIN t) = 1 PROVE DOMAIN t = {way}
    OBVIOUS
  <2>1. PICK x : DOMAIN t = {x}
    BY <1>1, FS_Singleton
  <2> QED BY <2>1
<1>3. DOMAIN t = {way} => Cardinality(DOMAIN t) = 1
  BY FS_Singleton
<1> QED BY <1>1, <1>2, <1>3

\* What is read from an array: the counts up to the first zero, or one value.
FirstZero(cells) ==
  CHOOSE i \in 2 .. Len(cells) : cells[i] = 0 /\ \A j \in 2 .. i - 1 : cells[j] # 0

LEMMA PartitionRead ==
  ASSUME NEW array, array # Absent, NEW back, back = PushPartition(array)
  PROVE  LET way == Ways[array.cells[1]] IN
         /\ back = [w \in {way} |-> back[way]]
         /\ back[way] = IF way = "by_counts"
                        THEN SubSeq(array.cells, 2, FirstZero(array.cells) - 1)
                        ELSE <<array.cells[2]>>
BY DEF PushPartition, FirstZero

\* The counts in an array, and the zeros after them.
LEMMA CountCells ==
  ASSUME NEW s \in Seq(Int), NEW cells, cells = << 3 >> \o s \o <<0, 0>>
  PROVE  /\ Len(s) \in Nat /\ Len(cells) = Len(s) + 3 /\ cells \in Seq(Int)
         /\ cells[1] = 3
         /\ \A i \in 1 .. Len(s) : cells[i + 1] = s[i]
         /\ cells[Len(s) + 2] = 0
<1>1. << 3 >> \o s \in Seq(Int) /\ Len(<< 3 >> \o s) = Len(s) + 1
  OBVIOUS
<1>2. \A i \in 1 .. Len(s) : (<< 3 >> \o s)[i + 1] = s[i]
  OBVIOUS
<1>3. (<< 3 >> \o s)[1] = 3
  OBVIOUS
<1> QED BY <1>1, <1>2, <1>3

(* The first zero is after the counts, or at the first count that is zero. *)
LEMMA FirstZeroOf ==
  ASSUME NEW s \in Seq(Int), NEW cells, cells = << 3 >> \o s \o <<0, 0>>,
         NEW stop, stop = FirstZero(cells)
  PROVE  /\ stop \in 2 .. Len(s) + 2
         /\ (\A i \in 1 .. Len(s) : s[i] # 0) => stop = Len(s) + 2
         /\ (\E i \in 1 .. Len(s) : s[i] = 0) => stop < Len(s) + 2
<1> DEFINE zeros == {i \in 2 .. Len(cells) : cells[i] = 0}
           First(i) == cells[i] = 0 /\ \A j \in 2 .. i - 1 : cells[j] # 0
<1>1. /\ Len(s) \in Nat /\ Len(cells) = Len(s) + 3
      /\ \A i \in 1 .. Len(s) : cells[i + 1] = s[i]
      /\ cells[Len(s) + 2] = 0
  BY CountCells
<1>2. zeros \in SUBSET Nat /\ IsFiniteSet(zeros) /\ Len(s) + 2 \in zeros
  <2>1. zeros \in SUBSET (2 .. Len(cells)) /\ IsFiniteSet(2 .. Len(cells))
    BY <1>1, FS_Interval
  <2>2. IsFiniteSet(zeros)
    BY <2>1, FS_Subset
  <2>3. Len(s) + 2 \in 2 .. Len(cells)
    BY <1>1
  <2>4. \A i \in 2 .. Len(cells) : i \in Nat
    BY <1>1
  <2> QED BY <1>1, <2>2, <2>3, <2>4
<1>3. PICK m \in zeros : \A k \in zeros : m <= k
  BY <1>2, LeastOf
<1>4. m \in 2 .. Len(cells) /\ First(m)
  BY <1>1, <1>3
<1>5. stop \in 2 .. Len(cells) /\ First(stop)
  BY <1>4 DEF FirstZero
<1>6. \A k \in zeros : stop <= k
  <2> SUFFICES ASSUME NEW k \in zeros, k < stop PROVE FALSE
    BY <1>1, <1>5
  <2>1. k \in 2 .. stop - 1
    BY <1>1, <1>5
  <2> QED BY <1>5, <2>1
<1>7. stop <= Len(s) + 2
  BY <1>2, <1>6
<1>8. ASSUME \A i \in 1 .. Len(s) : s[i] # 0 PROVE stop = Len(s) + 2
  <2> SUFFICES ASSUME stop # Len(s) + 2 PROVE FALSE
    OBVIOUS
  <2>1. stop - 1 \in 1 .. Len(s) /\ (stop - 1) + 1 = stop
    BY <1>1, <1>5, <1>7
  <2>2. cells[stop] = s[stop - 1]
    BY <1>1, <2>1
  <2> QED BY <1>5, <1>8, <2>1, <2>2
<1>9. ASSUME NEW i \in 1 .. Len(s), s[i] = 0 PROVE stop < Len(s) + 2
  <2>1. i + 1 \in 2 .. Len(cells) /\ cells[i + 1] = 0
    BY <1>1, <1>9
  <2>2. stop <= i + 1
    BY <1>6, <2>1
  <2> QED BY <1>1, <1>5, <2>2
<1> QED BY <1>1, <1>5, <1>7, <1>8, <1>9

(* A partition comes back unless there are several ways or a count is zero *)
LEMMA PartitionReturn ==
  ASSUME NEW t \in PartitionTables, NEW array, array = CheckPartition(t), array # Absent,
         NEW back, back = PushPartition(array)
  PROVE  back = t <=> ~LossyPartition(t)
<1> DEFINE way == Ways[array.cells[1]]
<1>1. /\ back = [w \in {way} |-> back[way]]
      /\ back[way] = IF way = "by_counts"
                     THEN SubSeq(array.cells, 2, FirstZero(array.cells) - 1)
                     ELSE <<array.cells[2]>>
  BY PartitionRead
<1>2. t = [w \in DOMAIN t |-> t[w]]
  BY PartitionTableOf
<1>3. ASSUME NEW w \in {1, 2}, Ways[w] \in DOMAIN t,
             array.cells[1] = w, array.cells[2] = t[Ways[w]][1]
      PROVE  back = t <=> ~LossyPartition(t)
  <2>1. way = Ways[w] /\ way # "by_counts" /\ way \in DOMAIN t
    BY <1>3, WaysAre
  <2>2. t[way] \in Seq(Int) /\ Len(t[way]) = 1
    BY <2>1, PartitionTableOf
  <2>3. back[way] = t[way]
    BY <1>1, <1>3, <2>1, <2>2
  <2>4. back = t <=> DOMAIN t = {way}
    <3> HIDE DEF way
    <3> QED BY <1>1, <1>2, <2>3
  <2>5. LossyPartition(t) <=> DOMAIN t # {way}
    BY <2>1, SeveralWays DEF LossyPartition
  <2> QED BY <2>4, <2>5
<1>4. ASSUME DOMAIN t = {"by_counts"}, t["by_counts"] # <<>>,
             array.cells = << 3 >> \o t["by_counts"] \o <<0, 0>>
      PROVE  back = t <=> ~LossyPartition(t)
  <2> DEFINE s == t["by_counts"]  stop == FirstZero(array.cells)
  <2>1. s \in Seq(Int)
    BY <1>4, PartitionTableOf
  <2>2. /\ Len(s) \in Nat /\ Len(array.cells) = Len(s) + 3 /\ array.cells \in Seq(Int)
        /\ array.cells[1] = 3
        /\ \A i \in 1 .. Len(s) : array.cells[i + 1] = s[i]
    BY <1>4, <2>1, CountCells
  <2>3. /\ stop \in 2 .. Len(s) + 2
        /\ (\A i \in 1 .. Len(s) : s[i] # 0) => stop = Len(s) + 2
        /\ (\E i \in 1 .. Len(s) : s[i] = 0) => stop < Len(s) + 2
    BY <1>4, <2>1, FirstZeroOf
  <2>4. way = "by_counts" /\ back["by_counts"] = SubSeq(array.cells, 2, stop - 1)
    BY <1>1, <2>2, WaysAre
  <2> HIDE DEF s, stop
  <2>5. back = t <=> back["by_counts"] = s
    <3> HIDE DEF way
    <3> QED BY <1>1, <1>2, <1>4, <2>4 DEF s
  <2>6. /\ Len(back["by_counts"]) = stop - 2 /\ back["by_counts"] \in Seq(Int)
        /\ \A i \in 1 .. stop - 2 : back["by_counts"][i] = array.cells[i + 1]
    <3>1. \A i \in 2 .. stop - 1 : array.cells[i] \in Int
      BY <2>2, <2>3
    <3>2. 2 \in Int /\ stop - 1 \in Int /\ (stop - 1) - 2 + 1 = stop - 2
      BY <2>2, <2>3
    <3>3. /\ SubSeq(array.cells, 2, stop - 1) \in Seq(Int)
          /\ Len(SubSeq(array.cells, 2, stop - 1)) =
               IF 2 <= stop - 1 THEN (stop - 1) - 2 + 1 ELSE 0
          /\ \A i \in 1 .. (stop - 1) - 2 + 1 :
               SubSeq(array.cells, 2, stop - 1)[i] = array.cells[2 + i - 1]
      BY <3>1, <3>2, SubSeqProperties
    <3>4. \A i \in 1 .. stop - 2 : 2 + i - 1 = i + 1
      BY <3>2
    <3>5. stop \in Int /\ stop >= 2
      BY <2>2, <2>3
    <3>6. /\ 2 <= stop - 1 => (stop - 1) - 2 + 1 = stop - 2
          /\ ~ 2 <= stop - 1 => stop - 2 = 0
      BY <3>5
    <3>7. \A i \in 1 .. stop - 2 : SubSeq(array.cells, 2, stop - 1)[i] = array.cells[i + 1]
      <4>1. 1 .. (stop - 1) - 2 + 1 = 1 .. stop - 2
        BY <3>2
      <4> QED BY <3>3, <3>4, <4>1
    <3>8. Len(SubSeq(array.cells, 2, stop - 1)) = stop - 2
      BY <3>3, <3>6
    <3> QED BY <2>4, <3>3, <3>7, <3>8
  <2>7. back["by_counts"] = s <=> stop = Len(s) + 2
    <3>1. back["by_counts"] = s => stop = Len(s) + 2
      BY <2>2, <2>3, <2>6
    <3>2. ASSUME stop = Len(s) + 2 PROVE back["by_counts"] = s
      <4>1. Len(back["by_counts"]) = Len(s)
        BY <2>2, <2>6, <3>2
      <4>2. ASSUME NEW i \in 1 .. Len(s) PROVE back["by_counts"][i] = s[i]
        <5>1. i \in 1 .. stop - 2
          BY <2>2, <3>2
        <5>2. back["by_counts"][i] = array.cells[i + 1]
          BY <2>6, <5>1, Zenon
        <5>3. array.cells[i + 1] = s[i]
          BY <2>2, Zenon
        <5> QED BY <5>2, <5>3, Zenon
      <4>3. s \in Seq(Int)
        BY <2>1 DEF s
      <4> QED BY <2>6, <4>1, <4>2, <4>3, SeqEqual
    <3> QED BY <3>1, <3>2
  <2>8. stop = Len(s) + 2 <=> \A i \in 1 .. Len(s) : s[i] # 0
    BY <2>2, <2>3
  <2>9. LossyPartition(t) <=> \E i \in 1 .. Len(s) : s[i] = 0
    <3>1. DOMAIN s = 1 .. Len(s)
      BY <2>1 DEF s
    <3>2. ~ Cardinality(DOMAIN t) > 1
      BY <1>4, SeveralWays
    <3> QED BY <1>4, <3>1, <3>2 DEF LossyPartition, s
  <2> QED BY <2>5, <2>7, <2>8, <2>9
<1> QED BY <1>3, <1>4, PartitionArray

-----------------------------------------------------------------------------
(***************************************************************************)
(* The conversions.                                                        *)
(***************************************************************************)
\* What is given is a value of its family, and nothing but the conversions touches it.
GivenInv ==
  /\ phase \in {"given", "held", "taken"}
  /\ what.family = "properties" =>
       /\ what.type \in DOMAIN FieldsOf /\ what.platform \in PlatformHandles
       /\ given \in PropertyTables(what.type)
  /\ what.family = "partition" => given \in PartitionTables
  /\ what.family = "flags" =>
       what.type \in DOMAIN Named /\ given \in FlagArguments(what.type)
HeldInv ==
  phase # "given" =>
    /\ what.family = "properties" =>
         held = CheckProperties(what.type, given, what.platform)
    /\ what.family = "partition" => held = CheckPartition(given)
    /\ what.family = "flags" => held = CheckFlags(what.type, given)
TakenInv ==
  phase = "taken" =>
    /\ what.family = "properties" => taken = PushProperties(what.type, held)
    /\ what.family = "partition" => taken = PushPartition(held)
    /\ what.family = "flags" => taken = PushFlags(what.type, held)
ConversionInv == GivenInv /\ HeldInv /\ TakenInv

LEMMA ConversionStart == ConversionInit => ConversionInv
<1> SUFFICES ASSUME ConversionInit PROVE ConversionInv
  OBVIOUS
<1>1. phase = "given"
  BY DEF ConversionInit
<1>2. GivenInv
  <2>1. CASE \E kind \in DOMAIN FieldsOf, platform \in PlatformHandles :
               /\ what = [family |-> "properties", type |-> kind, platform |-> platform]
               /\ given \in PropertyTables(kind)
    BY <1>1, <2>1 DEF GivenInv
  <2>2. CASE what = [family |-> "partition", type |-> ""] /\ given \in PartitionTables
    BY <1>1, <2>2 DEF GivenInv
  <2>3. CASE \E type \in DOMAIN Named :
               what = [family |-> "flags", type |-> type] /\ given \in FlagArguments(type)
    BY <1>1, <2>3 DEF GivenInv
  <2>4. CASE \/ \E type \in DOMAIN Literals :
                  what = [family |-> "enum", type |-> type] /\ given \in EnumArguments(type)
             \/ \E type \in DOMAIN Switches :
                  what = [family |-> "query", type |-> type] /\ given \in EnumArguments(type)
             \/ /\ what = [family |-> "command", type |-> "commandtype"]
                /\ given \in DOMAIN CommandType
    <3>1. what.family \in {"enum", "query", "command"}
      BY <2>4
    <3> QED BY <1>1, <3>1 DEF GivenInv
  <2> QED BY <2>1, <2>2, <2>3, <2>4 DEF ConversionInit
<1> QED BY <1>1, <1>2 DEF ConversionInv, HeldInv, TakenInv

LEMMA ConversionStep == ConversionInv /\ [ConversionNext]_conversionVars => ConversionInv'
<1> SUFFICES ASSUME ConversionInv, [ConversionNext]_conversionVars PROVE ConversionInv'
  OBVIOUS
<1>1. CASE CheckValue
  <2>1. phase' = "held" /\ what' = what /\ given' = given
    BY <1>1 DEF CheckValue
  <2>2. GivenInv'
    BY <2>1 DEF ConversionInv, GivenInv
  <2>3. HeldInv'
    <3>1. what.family = "properties" =>
            held' = CheckProperties(what.type, given, what.platform)
      BY <1>1 DEF CheckValue
    <3>2. what.family = "partition" => held' = CheckPartition(given)
      BY <1>1 DEF CheckValue
    <3>3. what.family = "flags" => held' = CheckFlags(what.type, given)
      BY <1>1 DEF CheckValue
    <3> QED BY <2>1, <3>1, <3>2, <3>3 DEF HeldInv
  <2> QED BY <2>1, <2>2, <2>3 DEF ConversionInv, TakenInv
<1>2. CASE PushValue
  <2>1. phase = "held" /\ phase' = "taken" /\ what' = what /\ given' = given /\ held' = held
    BY <1>2 DEF PushValue
  <2>2. GivenInv' /\ HeldInv'
    BY <2>1 DEF ConversionInv, GivenInv, HeldInv
  <2>3. TakenInv'
    <3>1. what.family = "properties" => taken' = PushProperties(what.type, held)
      BY <1>2 DEF PushValue
    <3>2. what.family = "partition" => taken' = PushPartition(held)
      BY <1>2 DEF PushValue
    <3>3. what.family = "flags" => taken' = PushFlags(what.type, held)
      BY <1>2 DEF PushValue
    <3> QED BY <2>1, <3>1, <3>2, <3>3 DEF TakenInv
  <2> QED BY <2>2, <2>3 DEF ConversionInv
<1>3. CASE UNCHANGED conversionVars
  BY <1>3 DEF conversionVars, ConversionInv, GivenInv, HeldInv, TakenInv
<1> QED BY <1>1, <1>2, <1>3 DEF ConversionNext

(* What the two theorems below reduce to the operators: what is held is    *)
(* what CheckValue makes of a value of its family, and what is taken is    *)
(* what PushValue makes of that.                                           *)
LEMMA ConversionInvariance == ConversionSpec => []ConversionInv
BY ConversionStart, ConversionStep, PTL DEF ConversionSpec

(* The arrays of structs.c end inside of the blocks that were allocated    *)
(* for them, with the zero that their reader looks for, whatever fields,   *)
(* ways, values and counts the script gives.                               *)
THEOREM ArraysInside == ConversionSpec => []CellsInside
<1>1. ConversionInv => CellsInside
  <2> SUFFICES ASSUME ConversionInv, phase # "given",
                      what.family \in {"properties", "partition"}
               PROVE  /\ Len(held.cells) <= held.room
                      /\ held # Absent => held.cells[Len(held.cells)] = 0
    BY DEF CellsInside
  <2>1. CASE what.family = "properties"
    <3>1. what.type \in DOMAIN FieldsOf
      BY <2>1 DEF ConversionInv, GivenInv
    <3>2. held = FillProperties(what.type, WithPlatform(what.type, given, what.platform))
      BY <2>1 DEF ConversionInv, HeldInv, CheckProperties
    <3> QED BY <3>1, <3>2, PropertiesInside
  <2>2. CASE what.family = "partition"
    <3>1. given \in PartitionTables /\ held = CheckPartition(given)
      BY <2>2 DEF ConversionInv, GivenInv, HeldInv
    <3> QED BY <3>1, PartitionInside
  <2> QED BY <2>1, <2>2
<1> QED BY <1>1, ConversionInvariance, PTL

LEMMA PropertiesAgree == ConversionInv => PropertiesRoundTrip
<1> SUFFICES ASSUME ConversionInv, phase = "taken" PROVE PropertiesRoundTrip
  BY DEF PropertiesRoundTrip
<1>1. ASSUME what.family = "properties"
      PROVE  /\ \A name \in DOMAIN given :
                  (name \in DOMAIN taken /\ taken[name] = given[name])
                    <=> name \notin Lossy(given, what.platform)
             /\ DOMAIN taken \subseteq
                  DOMAIN given \cup (IF what.type = "context" THEN {"platform"} ELSE {})
             /\ what.type = "context" =>
                  "platform" \in DOMAIN taken /\ taken["platform"] = what.platform
  <2>1. /\ what.type \in DOMAIN FieldsOf /\ what.platform \in PlatformHandles
        /\ given \in PropertyTables(what.type)
        /\ held = CheckProperties(what.type, given, what.platform)
        /\ taken = PushProperties(what.type, held)
    BY <1>1 DEF ConversionInv, GivenInv, HeldInv, TakenInv
  <2> QED BY <2>1, PropertiesReturn
<1>2. ASSUME what.family = "partition", held # Absent
      PROVE  taken = given <=> ~LossyPartition(given)
  <2>1. /\ given \in PartitionTables
        /\ held = CheckPartition(given) /\ taken = PushPartition(held)
    BY <1>2 DEF ConversionInv, GivenInv, HeldInv, TakenInv
  <2> QED BY <1>2, <2>1, PartitionReturn
<1> QED BY <1>1, <1>2 DEF PropertiesRoundTrip

LEMMA FlagsAgree == ConversionInv => FlagsRoundTrip
<1> SUFFICES ASSUME ConversionInv, phase = "taken", what.family = "flags"
             PROVE  FlagsRoundTrip
  BY DEF FlagsRoundTrip
<1> DEFINE type == what.type
<1>1. /\ type \in DOMAIN Named /\ given \in FlagArguments(type)
      /\ held = CheckFlags(type, given) /\ taken = PushFlags(type, held)
  BY DEF ConversionInv, GivenInv, HeldInv, TakenInv
<1>2. \A i, j \in DOMAIN taken, k, l \in DOMAIN Named[type] :
        i < j /\ taken[i] = Named[type][k] /\ taken[j] = Named[type][l] => k < l
  BY <1>1, FlagsPushed
<1>3. /\ ToSet(taken) = IF "all" \in Strings(given) THEN Names(type)
                        ELSE Strings(given) \ {"none"}
      /\ CheckFlags(type, taken) = held \ {"unnamed"}
  BY <1>1, FlagsReturn
<1> QED BY <1>2, <1>3 DEF FlagsRoundTrip

(* Every field of a property list, every partition and every list of flags *)
(* that a script gives to OpenCL comes back as it was given, exactly but   *)
(* for a pointer of -1, a size that is not a cl_uint, a count of zero,     *)
(* several ways to partition and bits without a name; nothing else comes   *)
(* back, but for the platform that the call named, with a context: for any *)
(* integers, any size of a cl_uint and lists of any length.                *)
THEOREM ValuesReturn == ConversionSpec => []ValuesRoundTrip
<1>1. ConversionInv => ValuesRoundTrip
  BY PropertiesAgree, FlagsAgree DEF ValuesRoundTrip
<1> QED BY <1>1, ConversionInvariance, PTL
=============================================================================
