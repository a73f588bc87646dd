------------------------- MODULE AccessCheckProofs -------------------------
(* adbnc_access against what the device would answer, for every user, file,*)
(* path and list of mounts.                                                *)
EXTENDS AccessCheck, WellFoundedInduction, TLAPS

\* Every set of naturals below a bound that is not empty has a greatest element.
LEMMA Greatest ==
    ASSUME NEW b \in Nat, NEW D \in SUBSET (0..b), D # {}
    PROVE  \E n \in D : \A m \in D : m <= n
<1>. DEFINE Down == {b - n : n \in D}
            Less == OpToRel(<, Nat)
<1>0. \A n \in D : n \in Nat /\ n <= b /\ b - n \in Nat
  OBVIOUS
<1>1. Down \subseteq Nat /\ Down # {}
  BY <1>0
<1>2. PICK x \in Down : \A y \in Down : <<y, x>> \notin Less
  <2>. HIDE DEF Down, Less
  <2>1. IsWellFoundedOn(Less, Nat)
    BY NatLessThanWellFounded DEF Less
  <2>. QED
    BY <1>1, <2>1, WFMin
<1>3. \A y \in Down : ~(y < x)
  BY <1>1, <1>2 DEF OpToRel
<1>4. PICK n \in D : x = b - n
  OBVIOUS
<1>5. ASSUME NEW m \in D
      PROVE  m <= n
  <2>1. b - m \in Down
    OBVIOUS
  <2>2. ~(b - m < b - n)
    BY <2>1, <1>3, <1>4
  <2>3. m \in Nat /\ n \in Nat
    BY <1>0
  <2>. HIDE DEF Down, Less
  <2>. QED
    BY <2>2, <2>3
<1>. QED
  BY <1>5

-----------------------------------------------------------------------------
\* What SubSeq says of the beginning of a path.
LEMMA Beginning ==
    ASSUME NEW p \in Paths, NEW n \in 0..Len(p)
    PROVE  /\ SubSeq(p, 1, n) \in Paths
           /\ Len(SubSeq(p, 1, n)) = n
           /\ \A m \in 0..n : SubSeq(SubSeq(p, 1, n), 1, m) = SubSeq(p, 1, m)
  BY DEF Paths

\* The table of the lines that mount prints and of the line of the memory card, which
\* Lifecycle gives to MountInfo.
Lines(lines) == Append(lines, [at |-> SdCard, options |-> {}])

LEMMA LinesOf ==
    ASSUME NEW lines \in Seq(MountLine)
    PROVE  /\ Lines(lines) \in Seq(MountLine)
           /\ DOMAIN Lines(lines) = 1..(Len(lines) + 1)
           /\ DOMAIN lines = 1..Len(lines)
           /\ \A k \in DOMAIN lines :
                 /\ Lines(lines)[k] = lines[k]
                 /\ lines[k] \in MountLine
           /\ Lines(lines)[Len(lines) + 1].at = SdCard
<1>1. [at |-> SdCard, options |-> {}] \in MountLine
  BY PathsAssumption DEF MountLine, Paths
<1>. QED
  BY <1>1 DEF Lines

\* The mount point of a path is the deepest one on the way to it.
LEMMA DeepestMountPoint ==
    ASSUME NEW table, NEW p \in Paths, MountDepths(table, p) # {}
    PROVE  \E n \in MountDepths(table, p) :
              /\ \A m \in MountDepths(table, p) : m <= n
              /\ MountPoint(table, p) = SubSeq(p, 1, n)
<1>1. Len(p) \in Nat /\ MountDepths(table, p) \in SUBSET (0..Len(p))
  BY DEF MountDepths, Paths
<1>2. \E n \in MountDepths(table, p) : \A m \in MountDepths(table, p) : m <= n
  BY <1>1, Greatest
<1>. QED
  BY <1>2 DEF MountPoint

\* The options MountInfo finds for a path are those of the mount the path is on.
LEMMA SameOptions ==
    ASSUME NEW lines \in Seq(MountLine), NothingHidden(lines),
           NEW p \in Paths, ~AtOrAbove(SdCard, p), NEW option
    PROVE  MountedWith(MountTable(Lines(lines)), p, option)
              <=> option \in OptionsInEffect(lines, p)
<1>. DEFINE L == Lines(lines)
            T == MountTable(L)
            K == {k \in DOMAIN lines : AtOrAbove(lines[k].at, p)}
            D == MountDepths(T, p)
<1>1. /\ DOMAIN lines = 1..Len(lines) /\ DOMAIN L = 1..(Len(lines) + 1)
      /\ Len(lines) \in Nat /\ Len(p) \in Nat /\ Len(SdCard) \in Nat
      /\ \A k \in DOMAIN lines : L[k] = lines[k] /\ lines[k].at \in Paths
      /\ L[Len(lines) + 1].at = SdCard
  <2>1. Len(lines) \in Nat /\ Len(p) \in Nat /\ Len(SdCard) \in Nat
    BY PathsAssumption DEF Paths
  <2>2. \A k \in DOMAIN lines : lines[k].at \in Paths
    BY LinesOf DEF MountLine
  <2>. QED
    BY <2>1, <2>2, LinesOf
<1>2. DOMAIN T = {L[k].at : k \in DOMAIN L}
  BY DEF MountTable
<1>3. ASSUME NEW k \in K
      PROVE  /\ Len(lines[k].at) \in D
             /\ lines[k].at = SubSeq(p, 1, Len(lines[k].at))
  <2>1. /\ Len(lines[k].at) \in 0..Len(p)
        /\ lines[k].at = SubSeq(p, 1, Len(lines[k].at))
    BY <1>1 DEF AtOrAbove, Paths
  <2>2. k \in DOMAIN L /\ lines[k].at = L[k].at
    BY <1>1
  <2>. QED
    BY <1>2, <2>1, <2>2 DEF MountDepths
<1>4. ASSUME NEW j \in DOMAIN L, NEW n \in 0..Len(p), L[j].at = SubSeq(p, 1, n)
      PROVE  j \in K
  <2>1. Len(L[j].at) = n /\ n <= Len(p)
    BY <1>4, Beginning, <1>1
  <2>2. AtOrAbove(L[j].at, p)
    BY <1>4, <2>1 DEF AtOrAbove
  <2>3. j # Len(lines) + 1
    BY <1>1, <2>2
  <2>. QED
    BY <1>1, <2>2, <2>3
<1>5. ASSUME NEW n \in D
      PROVE  \E k \in K : lines[k].at = SubSeq(p, 1, n)
  <2>1. PICK k \in DOMAIN L : L[k].at = SubSeq(p, 1, n)
    BY <1>2 DEF MountDepths
  <2>2. k \in K
    BY <1>4, <2>1 DEF MountDepths
  <2>. QED
    BY <1>1, <2>1, <2>2
<1>6. CASE K = {}
  <2>1. D = {}
    BY <1>5, <1>6
  <2>2. MountPoint(T, p) = None
    BY <2>1 DEF MountPoint
  <2>3. OptionsInEffect(lines, p) = {}
    BY <1>6 DEF OptionsInEffect
  <2>. QED
    BY <2>2, <2>3 DEF MountedWith
<1>7. CASE K # {}
  <2>1. PICK n \in D : (\A m \in D : m <= n) /\ MountPoint(T, p) = SubSeq(p, 1, n)
    <3>1. D # {}
      BY <1>3, <1>7
    <3>. QED
      BY <3>1, DeepestMountPoint
  <2>2. PICK k \in K : lines[k].at = SubSeq(p, 1, n)
    BY <1>5
  <2>3. n \in 0..Len(p)
    BY DEF MountDepths
  <2>4. ASSUME NEW j \in K
        PROVE  AtOrAbove(lines[j].at, lines[k].at)
    <3>1. Len(lines[j].at) \in 0..n
      BY <1>1, <1>3, <2>1, <2>3
    <3>2. lines[j].at = SubSeq(p, 1, Len(lines[j].at))
      BY <1>3
    <3>. QED
      BY <2>2, <2>3, <3>1, <3>2, Beginning DEF AtOrAbove
  <2>5. \A j \in K : j <= k
    BY <1>1, <2>4 DEF NothingHidden
  <2>6. \A j \in DOMAIN L : L[j].at = lines[k].at => j = k
    <3>1. SUFFICES ASSUME NEW j \in DOMAIN L, L[j].at = lines[k].at
                   PROVE  j = k
      OBVIOUS
    <3>2. j \in K
      BY <1>4, <2>2, <2>3, <3>1
    <3>3. AtOrAbove(lines[k].at, lines[j].at)
      BY <1>1, <2>4, <3>1, <3>2
    <3>4. ~(j < k)
      BY <1>1, <3>2, <3>3 DEF NothingHidden
    <3>. QED
      BY <1>1, <2>5, <3>2, <3>4
  <2>7. k \in DOMAIN L /\ L[k] = lines[k]
    BY <1>1
  <2>8. FirstAt(L, lines[k].at) = k
    BY <1>1, <2>6, <2>7 DEF FirstAt
  <2>9. T[lines[k].at] = lines[k].options /\ lines[k].at \in DOMAIN T
    BY <1>2, <2>7, <2>8 DEF MountTable
  <2>10. OptionsInEffect(lines, p) = lines[k].options
    <3>1. {i \in DOMAIN lines :
              /\ AtOrAbove(lines[i].at, p)
              /\ \A j \in DOMAIN lines : AtOrAbove(lines[j].at, p) => j <= i} = {k}
      BY <1>1, <2>5
    <3>. QED
      BY <3>1 DEF OptionsInEffect
  <2>11. MountPoint(T, p) = lines[k].at /\ MountPoint(T, p) # None
    BY <1>1, <2>1, <2>2, PathsAssumption DEF Paths
  <2>. QED
    BY <2>9, <2>10, <2>11 DEF MountedWith
<1>. QED
  BY <1>6, <1>7

\* UserInfo::access tests the bits the kernel tests; for root the kernel grants more.
LEMMA SameRights ==
    ASSUME NEW user \in UserIds, NEW file \in File, NEW mask \in SUBSET Rights
    PROVE  /\ UserAccess(user, file, mask) => DeviceUserGrants(user, file, mask)
           /\ user.uid # 0 =>
                 (UserAccess(user, file, mask) <=> DeviceUserGrants(user, file, mask))
<1>1. CASE user.uid = 0
  <2>1. file.rights \in [{"owner", "group", "other"} -> SUBSET Rights]
    BY DEF File
  <2>2. UserAccess(user, file, mask)
           => \E c \in DOMAIN file.rights : mask \subseteq file.rights[c]
    BY <2>1 DEF UserAccess, TestAccess
  <2>. QED
    BY <1>1, <2>2 DEF DeviceUserGrants
<1>2. CASE user.uid # 0
  BY <1>2 DEF UserAccess, DeviceUserGrants, TestAccess, Belongs2Group
<1>. QED
  BY <1>1, <1>2

-----------------------------------------------------------------------------
\* adbnc_access grants nothing that the kernel of the device refuses the user, and
\* answers what it answers unless the user is root or the options of the mount do not
\* apply to a file of this type: when the path is not on the memory card, no mount hides
\* an earlier one and the user may search the directories above the path, at which
\* adbnc_access does not look.
THEOREM AccessCorrect ==
    ASSUME NEW user \in UserIds, user # None,
           NEW lines \in Seq(MountLine), NothingHidden(lines),
           MountTable(Lines(lines)) # None,
           NEW p \in Paths, ~AtOrAbove(SdCard, p),
           NEW above \in SUBSET Directory, Searchable(user, above),
           NEW file \in File \cup {None}, NEW mask \in SUBSET Rights
    PROVE  LET answer == Access(user, MountTable(Lines(lines)), file, p, mask)
               should == DeviceAccess(user, lines, file, above, p, mask)
           IN  /\ answer = "granted" => should = "granted"
               /\ file = None \/ (user.uid # 0 /\ OptionsApply(lines, file, p, mask))
                     => answer = should
<1>. DEFINE T == MountTable(Lines(lines))
            O == OptionsInEffect(lines, p)
<1>1. CASE file = None
  BY <1>1 DEF Access, DeviceAccess
<1>2. CASE file # None
  <2>1. /\ UserAccess(user, file, mask) => DeviceUserGrants(user, file, mask)
        /\ user.uid # 0 =>
              (UserAccess(user, file, mask) <=> DeviceUserGrants(user, file, mask))
    BY <1>2, SameRights
  <2>2. \A o : MountedWith(T, p, o) <=> o \in O
    BY SameOptions
  <2>3. mask = {} => UserAccess(user, file, mask)
    BY DEF UserAccess, TestAccess
  <2>. HIDE DEF T, O
  <2>4. Access(user, T, file, p, mask) =
           IF /\ UserAccess(user, file, mask)
              /\ ~("w" \in mask /\ "ro" \in O) /\ ~("x" \in mask /\ "noexec" \in O)
           THEN "granted" ELSE "EACCES"
    BY <1>2, <2>2, <2>3 DEF Access, T
  <2>5. DeviceAccess(user, lines, file, above, p, mask) =
           IF DeviceUserGrants(user, file, mask) /\ ~MountRefuses(O, file, mask)
           THEN "granted" ELSE "EACCES"
    BY <1>2 DEF DeviceAccess, O
  <2>6. MountRefuses(O, file, mask) =>
           ("w" \in mask /\ "ro" \in O) \/ ("x" \in mask /\ "noexec" \in O)
    BY DEF MountRefuses
  <2>7. OptionsApply(lines, file, p, mask)
           /\ (("w" \in mask /\ "ro" \in O) \/ ("x" \in mask /\ "noexec" \in O))
           => MountRefuses(O, file, mask)
    BY DEF MountRefuses, OptionsApply, O
  <2>. QED
    BY <1>2, <2>1, <2>4, <2>5, <2>6, <2>7 DEF T
<1>. QED
  BY <1>1, <1>2
=============================================================================
