------------------------- MODULE ProjectFilesProofs -------------------------
(***************************************************************************)
(* Of the files of a build, for every manifest and every budget: each source *)
(* a user submits is read in full or warned of, within the budget; a commit  *)
(* has what the manifest says of each path, satisfies the health check, and  *)
(* is what was validated; and the report links what is committed.            *)
(*                                                                         *)
(* A sum of lengths and the merge of a manifest go by recursion over their    *)
(* data.  SetInduction is the induction they take, over the members of a set; *)
(* Recursion says that such a function exists, and so satisfies its equation. *)
(***************************************************************************)
EXTENDS ProjectFiles, WellFoundedInduction, TLAPS

LEMMA AppendIs ==
    ASSUME NEW S, NEW s \in Seq(S), NEW e \in S
    PROVE  /\ Append(s, e) \in Seq(S)
           /\ Len(Append(s, e)) = Len(s) + 1
           /\ \A i \in 1 .. Len(s) : Append(s, e)[i] = s[i]
           /\ Append(s, e)[Len(s) + 1] = e
OBVIOUS

LEMMA EmptyIsSeq == \A S : <<>> \in Seq(S) /\ Len(<<>>) = 0
OBVIOUS

\* Induction over the natural numbers, for a set: the least number outside it
\* would have a predecessor in it.
LEMMA SetInduction ==
    ASSUME NEW S, 0 \in S, \A n \in Nat : n \in S => n + 1 \in S
    PROVE  Nat \subseteq S
<1>. DEFINE less == {ss \in Nat \X Nat : ss[1] < ss[2]}
            outside == Nat \ S
<1> SUFFICES ASSUME outside # {} PROVE FALSE
  OBVIOUS
<1>1. IsWellFoundedOn(less, Nat)
  BY NatLessThanWellFounded DEF OpToRel
<1>2. PICK n \in outside : \A m \in outside : ~ (<<m, n>> \in less)
  <2>1. outside \subseteq Nat
    OBVIOUS
  <2> HIDE DEF less, outside
  <2> QED
    BY <1>1, <2>1, WFMin
<1>3. n \in Nat /\ n # 0
  OBVIOUS
<1>4. n - 1 \in outside
  BY <1>3
<1>5. <<n - 1, n>> \in less
  BY <1>3, <1>4
<1> QED
  BY <1>2, <1>4, <1>5

\* f starts with c and goes on by the steps.
Iterates(f, A, n, c, step) ==
    /\ f \in [0 .. n -> A]
    /\ f[0] = c
    /\ \A k \in 1 .. n : f[k] = step[k][f[k - 1]]

\* A function may be given by its first value and the step to each next one.
LEMMA Recursion ==
    ASSUME NEW A, NEW n \in Nat, NEW c \in A, NEW step \in [1 .. n -> [A -> A]]
    PROVE  \E f : Iterates(f, A, n, c, step)
<1>. DEFINE S == {m \in Nat : m <= n => \E f : Iterates(f, A, m, c, step)}
<1>1. 0 \in S
  <2>1. Iterates([k \in 0 .. 0 |-> c], A, 0, c, step)
    BY DEF Iterates
  <2> QED
    BY <2>1
<1>2. ASSUME NEW m \in Nat, m \in S PROVE m + 1 \in S
  <2> SUFFICES ASSUME m + 1 <= n PROVE \E g : Iterates(g, A, m + 1, c, step)
    OBVIOUS
  <2>1. PICK f : Iterates(f, A, m, c, step)
    BY <1>2
  <2>. DEFINE next == step[m + 1][f[m]]
              g == [k \in 0 .. m + 1 |-> IF k = m + 1 THEN next ELSE f[k]]
  <2>2. next \in A
    BY <2>1 DEF Iterates
  <2>3. g \in [0 .. m + 1 -> A] /\ g[0] = c
    BY <2>1, <2>2 DEF Iterates
  <2>4. ASSUME NEW k \in 1 .. m + 1 PROVE g[k] = step[k][g[k - 1]]
    <3>1. CASE k = m + 1
      BY <3>1
    <3>2. CASE k # m + 1
      <4>1. k \in 1 .. m /\ g[k] = f[k] /\ g[k - 1] = f[k - 1]
        BY <3>2
      <4> QED
        BY <2>1, <4>1 DEF Iterates
    <3> QED
      BY <3>1, <3>2
  <2>5. Iterates(g, A, m + 1, c, step)
    <3> HIDE DEF g
    <3> QED
      BY <2>3, <2>4 DEF Iterates
  <2> QED
    BY <2>5
<1>3. n \in S
  <2> HIDE DEF S
  <2> QED
    BY <1>1, <1>2, SetInduction
<1> QED
  BY <1>3

-----------------------------------------------------------------------------
(* The sources.                                                            *)

\* A summary and a warning name sources that were visited.
SourceIInv == SourceTypeOK /\ SourcesAreAccounted

LEMMA RequestTypes == \A r \in Requests : r \in Seq(Urls \cup Files)
<1>1. \A n \in Nat : \A u \in BoundedSeq(Urls, n) : u \in Seq(Urls \cup Files)
  BY DEF BoundedSeq
<1>2. \A n \in Nat : \A f \in BoundedSeq(Files, n) : f \in Seq(Urls \cup Files)
  BY DEF BoundedSeq
<1>3. ASSUME NEW u \in BoundedSeq(Urls, MaxUrls), NEW f \in BoundedSeq(Files, MaxUploadedFiles)
      PROVE  u \o f \in Seq(Urls \cup Files)
  <2>1. u \in Seq(Urls \cup Files) /\ f \in Seq(Urls \cup Files)
    BY <1>1, <1>2, BudgetAssumption
  <2> QED
    BY <2>1
<1>4. ASSUME NEW r \in Requests PROVE r \in Seq(Urls \cup Files)
  <2>. PICK u \in BoundedSeq(Urls, MaxUrls), f \in BoundedSeq(Files, MaxUploadedFiles) :
          r = u \o f
    BY DEF Requests
  <2> QED
    BY <1>3
<1> QED
  BY <1>4

LEMMA SourceInitIInv == SourceInit => SourceIInv
<1> SUFFICES ASSUME SourceInit PROVE SourceIInv
  OBVIOUS
<1>1. submitted \in Seq(Urls \cup Files) /\ Len(submitted) \in Nat
  BY RequestTypes DEF SourceInit
<1>2. SourceTypeOK
  BY <1>1, EmptyIsSeq DEF SourceInit, SourceTypeOK
<1>3. SourcesAreAccounted
  BY DEF SourceInit, SourcesAreAccounted
<1> QED
  BY <1>2, <1>3 DEF SourceIInv

\* The next source is warned of and has no summary: by one warning or two.
LEMMA WarnedStep ==
    ASSUME SourceIInv, visited < Len(submitted), visited' = Current,
           UNCHANGED <<submitted, used, summaries>>,
           warnings' \in Seq(Warnings), Len(warnings') > Len(warnings),
           \A k \in 1 .. Len(warnings) : warnings'[k] = warnings[k],
           \A k \in Len(warnings) + 1 .. Len(warnings') : warnings'[k].source = Current
    PROVE  SourceIInv'
<1>0. /\ visited \in Nat /\ Current \in Nat /\ Current \in 1 .. Len(submitted)
      /\ Len(submitted) \in Nat /\ Len(warnings) \in Nat /\ Len(warnings') \in Nat
      /\ Len(summaries) \in Nat /\ Current = visited + 1
  BY DEF SourceIInv, SourceTypeOK, Current
<1>. PICK c \in Nat : c = Current
  BY <1>0
<1>. PICK m \in Nat, n \in Nat : m = Len(warnings) /\ n = Len(warnings')
  BY <1>0
<1>1. \A k \in 1 .. Len(warnings') : warnings'[k].source \in 1 .. Current
  <2>1. \A k \in 1 .. m : warnings'[k].source \in 1 .. visited
    BY DEF SourceIInv, SourceTypeOK
  <2>2. \A k \in m + 1 .. n : warnings'[k].source = c
    OBVIOUS
  <2>3. \A k \in 1 .. n : k \in 1 .. m \/ k \in m + 1 .. n
    OBVIOUS
  <2>4. visited + 1 = c
    BY <1>0
  <2> QED
    BY <1>0, <2>1, <2>2, <2>3, <2>4
<1>2. \A k \in 1 .. Len(summaries) : summaries[k].source \in 1 .. Current
  BY <1>0 DEF SourceIInv, SourceTypeOK
<1>3. SourceTypeOK'
  BY <1>0, <1>1, <1>2 DEF SourceIInv, SourceTypeOK
<1>4. ASSUME NEW i \in 1 .. visited PROVE InFull(i)' <=> ~Told(i)'
  <2>1. InFull(i)' <=> InFull(i)
    BY DEF InFull
  <2>2. Told(i)' <=> Told(i)
    <3>1. \A k \in 1 .. m : warnings'[k] = warnings[k]
      OBVIOUS
    <3>2. \A k \in m + 1 .. n : warnings'[k].source # i
      BY <1>0
    <3>3. 1 .. m \subseteq 1 .. n /\ \A k \in 1 .. n : k \in 1 .. m \/ k \in m + 1 .. n
      OBVIOUS
    <3> QED
      BY <3>1, <3>2, <3>3 DEF Told
  <2> QED
    BY <2>1, <2>2 DEF SourceIInv, SourcesAreAccounted
<1>5. ~InFull(c)'
  <2>1. \A k \in 1 .. Len(summaries) : summaries[k].source \in 1 .. visited
    BY DEF SourceIInv, SourceTypeOK
  <2>2. c \notin 1 .. visited
    BY <1>0
  <2> QED
    BY <2>1, <2>2 DEF InFull
<1>6. Told(c)'
  <2>1. n \in m + 1 .. n /\ n \in 1 .. n
    OBVIOUS
  <2>2. warnings'[n].source = c
    BY <2>1
  <2> QED
    BY <2>1, <2>2 DEF Told
<1>7. SourcesAreAccounted'
  <2> SUFFICES ASSUME NEW i \in 1 .. Current PROVE InFull(i)' <=> ~Told(i)'
    BY DEF SourcesAreAccounted
  <2>1. i \in 1 .. visited \/ i = c
    BY <1>0
  <2> QED
    BY <1>4, <1>5, <1>6, <2>1
<1> QED
  BY <1>3, <1>7 DEF SourceIInv

LEMMA WarningTypes ==
    ASSUME SourceIInv PROVE \A m \in Messages : Warning(m) \in Warnings
BY DEF Warning, Warnings, Current, SourceIInv, SourceTypeOK

LEMMA SkipStep ==
    ASSUME SourceIInv, visited < Len(submitted), visited' = Current,
           NEW m \in Messages, Skip(m)
    PROVE  SourceIInv'
<1>. PICK w \in Warnings : w = Warning(m)
  BY WarningTypes
<1>1. warnings' = Append(warnings, w) /\ warnings \in Seq(Warnings) /\ w.source = Current
  BY DEF Skip, SourceIInv, SourceTypeOK, Warning
<1>. PICK n \in Nat : n = Len(warnings)
  BY <1>1
<1>2. /\ warnings' \in Seq(Warnings) /\ Len(warnings') = n + 1
      /\ \A k \in 1 .. n : warnings'[k] = warnings[k]
      /\ warnings'[n + 1] = w
  BY <1>1, AppendIs
<1> QED
  BY <1>1, <1>2, WarnedStep DEF Skip

\* The next source has a summary, of all its text or not.
LEMMA SummaryStep ==
    ASSUME SourceIInv, visited < Len(submitted), visited' = Current,
           NEW length \in Nat, NEW n \in Nat, NEW cut \in BOOLEAN,
           cut <=> n # length,
           UNCHANGED submitted, used' \in Nat,
           summaries' = Append(summaries, [source |-> Current, of |-> length, length |-> n]),
           warnings' = IF cut THEN Append(warnings, Warning("truncated")) ELSE warnings
    PROVE  SourceIInv'
<1>0. /\ visited \in Nat /\ Current \in Nat /\ Current \in 1 .. Len(submitted)
      /\ Len(submitted) \in Nat /\ Current = visited + 1
      /\ summaries \in Seq(Summaries) /\ warnings \in Seq(Warnings)
  BY DEF SourceIInv, SourceTypeOK, Current
<1>. PICK e : e = [source |-> Current, of |-> length, length |-> n]
  OBVIOUS
<1>1. e \in Summaries /\ e.source = Current /\ (e.length = e.of <=> ~cut)
  BY <1>0 DEF Summaries
<1>. PICK a \in Nat : a = Len(summaries)
  BY <1>0
<1>. PICK b \in Nat : b = Len(warnings)
  BY <1>0
<1>2. /\ summaries' \in Seq(Summaries) /\ Len(summaries') = a + 1
      /\ \A k \in 1 .. a : summaries'[k] = summaries[k]
      /\ summaries'[a + 1] = e
  BY <1>0, <1>1, AppendIs
<1>. PICK w \in Warnings : w = Warning("truncated")
  BY WarningTypes DEF Messages
<1>3. w.source = Current
  BY DEF Warning
<1>4. /\ warnings' \in Seq(Warnings)
      /\ Len(warnings') = IF cut THEN b + 1 ELSE b
      /\ \A k \in 1 .. b : warnings'[k] = warnings[k]
      /\ cut => warnings'[b + 1] = w
  BY <1>0, AppendIs
<1>5. \A k \in 1 .. a : summaries[k].source \in 1 .. visited
  BY DEF SourceIInv, SourceTypeOK
<1>6. \A k \in 1 .. b : warnings[k].source \in 1 .. visited
  BY DEF SourceIInv, SourceTypeOK
<1>7. SourceTypeOK'
  <2>1. \A k \in 1 .. a + 1 : summaries'[k].source \in 1 .. Current
    BY <1>0, <1>1, <1>2, <1>5
  <2>2. \A k \in 1 .. Len(warnings') : warnings'[k].source \in 1 .. Current
    BY <1>0, <1>3, <1>4, <1>6
  <2> QED
    BY SMTT(30), <1>0, <1>2, <1>4, <2>1, <2>2 DEF SourceIInv, SourceTypeOK
<1>8. ASSUME NEW i \in 1 .. visited PROVE InFull(i)' <=> ~Told(i)'
  <2>0. i # Current
    BY <1>0
  <2>1. InFull(i)' <=> InFull(i)
    BY <1>1, <1>2, <2>0 DEF InFull
  <2>2. Told(i)' <=> Told(i)
    BY SMTT(30), <1>3, <1>4, <2>0 DEF Told
  <2> QED
    BY <2>1, <2>2 DEF SourceIInv, SourcesAreAccounted
<1>. PICK c \in Nat : c = Current
  BY <1>0
<1>9. InFull(c)' <=> ~cut
  <2>1. \A k \in 1 .. a : summaries'[k].source # c
    BY <1>0, <1>2, <1>5
  <2>2. summaries'[a + 1].source = c /\ (summaries'[a + 1].length = summaries'[a + 1].of <=> ~cut)
    BY <1>1, <1>2
  <2>3. a + 1 \in 1 .. a + 1 /\ \A k \in 1 .. a + 1 : k \in 1 .. a \/ k = a + 1
    OBVIOUS
  <2> QED
    BY <1>2, <2>1, <2>2, <2>3 DEF InFull
<1>10. Told(c)' <=> cut
  <2>1. \A k \in 1 .. b : warnings'[k].source # c
    BY <1>0, <1>4, <1>6
  <2>2. CASE cut
    <3>1. b + 1 \in 1 .. Len(warnings') /\ warnings'[b + 1].source = c
      BY <1>3, <1>4, <2>2
    <3> QED
      BY <2>2, <3>1 DEF Told
  <2>3. CASE ~cut
    BY <1>4, <2>1, <2>3 DEF Told
  <2> QED
    BY <2>2, <2>3
<1>11. SourcesAreAccounted'
  <2> SUFFICES ASSUME NEW i \in 1 .. Current PROVE InFull(i)' <=> ~Told(i)'
    BY DEF SourcesAreAccounted
  <2>1. i \in 1 .. visited \/ i = c
    BY <1>0
  <2> QED
    BY <1>8, <1>9, <1>10, <2>1
<1> QED
  BY <1>7, <1>11 DEF SourceIInv

LEMMA TakeStep ==
    ASSUME SourceIInv, visited < Len(submitted), visited' = Current,
           NEW length \in Lengths, Take(length)
    PROVE  SourceIInv'
<1>0. length \in Nat /\ used \in Nat
  BY BudgetAssumption DEF SourceIInv, SourceTypeOK
<1>1. CASE length = 0 /\ Skip("blank")
  BY <1>1, SkipStep DEF Messages
<1>2. CASE length > 0 /\ used >= MaxSourcePromptChars
             /\ warnings' = warnings \o <<Warning("limit"), Warning("blank")>>
             /\ UNCHANGED <<submitted, used, summaries>>
  <2>. PICK v \in Warnings, w \in Warnings : v = Warning("limit") /\ w = Warning("blank")
    BY WarningTypes DEF Messages
  <2>1. warnings \in Seq(Warnings) /\ v.source = Current /\ w.source = Current
    BY DEF SourceIInv, SourceTypeOK, Warning
  <2>. PICK n \in Nat : n = Len(warnings)
    BY <2>1
  <2>2. /\ warnings' \in Seq(Warnings) /\ Len(warnings') = n + 2
        /\ \A k \in 1 .. n : warnings'[k] = warnings[k]
        /\ warnings'[n + 1] = v /\ warnings'[n + 2] = w
    BY <1>2, <2>1
  <2>3. \A k \in n + 1 .. n + 2 : k = n + 1 \/ k = n + 2
    OBVIOUS
  <2>4. \A k \in n + 1 .. Len(warnings') : warnings'[k].source = Current
    BY <2>1, <2>2, <2>3
  <2> QED
    BY <1>2, <2>2, <2>4, WarnedStep
<1>3. CASE /\ length > 0
           /\ used < MaxSourcePromptChars
           /\ \E n \in Cuts(length) :
                 /\ used' = used + n
                 /\ summaries' = Append(summaries, [source |-> Current, of |-> length,
                                                    length |-> n])
                 /\ warnings' = IF length > Limit
                                THEN Append(warnings, Warning("truncated")) ELSE warnings
           /\ UNCHANGED submitted
  <2>. PICK m \in Nat, i \in Nat \ {0} : m = MaxSourcePromptChars /\ i = MaxSourceCharsPerItem
    BY BudgetAssumption
  <2>. PICK u \in Nat : u = used /\ u < m
    BY <1>0, <1>3
  <2>. PICK l \in Nat \ {0} : l = Limit
    <3>1. Limit = IF m - u < i THEN m - u ELSE i
      BY DEF Limit
    <3>2. m - u \in Nat \ {0}
      OBVIOUS
    <3> QED
      BY <3>1, <3>2
  <2>. PICK n \in Cuts(length) :
                 /\ used' = used + n
                 /\ summaries' = Append(summaries, [source |-> Current, of |-> length,
                                                    length |-> n])
                 /\ warnings' = IF length > l
                                THEN Append(warnings, Warning("truncated")) ELSE warnings
    BY <1>3
  <2>1. n \in Nat /\ (length > l <=> n # length)
    BY <1>0 DEF Cuts
  <2>2. used' \in Nat
    BY <1>0, <2>1
  <2>. PICK cut \in BOOLEAN : cut <=> length > l
    OBVIOUS
  <2>3. warnings' = IF cut THEN Append(warnings, Warning("truncated")) ELSE warnings
    OBVIOUS
  <2> QED
    BY <1>0, <1>3, <2>1, <2>2, <2>3, SummaryStep
<1> QED
  BY <1>1, <1>2, <1>3 DEF Take

LEMMA SourceNextIInv == SourceIInv /\ [SourceNext]_sourceVars => SourceIInv'
<1> SUFFICES ASSUME SourceIInv, [SourceNext]_sourceVars PROVE SourceIInv'
  OBVIOUS
<1>1. CASE UNCHANGED sourceVars
  BY <1>1 DEF sourceVars, SourceIInv, SourceTypeOK, SourcesAreAccounted, InFull, Told
<1>2. CASE SummarizeUrl
  BY <1>2, SkipStep, TakeStep DEF SummarizeUrl, Visit, Messages
<1>3. CASE SummarizeUploadedFile
  <2>1. visited < Len(submitted) /\ visited' = Current
    BY <1>3 DEF SummarizeUploadedFile, Visit
  <2>2. CASE Source.kind \in {"unsupported", "oversized"} /\ Skip(Source.kind)
    BY <2>1, <2>2, SkipStep DEF Messages
  <2>3. CASE Source.kind = "text" /\ Take(Source.length)
    <3>1. Source \in Urls \cup Files
      BY <2>1 DEF Source, Current, SourceIInv, SourceTypeOK
    <3>2. Source.length \in Lengths
      BY <2>3, <3>1 DEF Urls, Files
    <3> QED
      BY <2>1, <2>3, <3>2, TakeStep
  <2> QED
    BY <1>3, <2>2, <2>3 DEF SummarizeUploadedFile
<1> QED
  BY <1>1, <1>2, <1>3 DEF SourceNext

\* The characters of any summaries.
Total(s) == LET upTo[k \in 0..Len(s)] ==
                    IF k = 0 THEN 0 ELSE upTo[k - 1] + s[k].length
            IN  upTo[Len(s)]

Sums(s, f) == /\ f \in [0 .. Len(s) -> Nat]
              /\ f[0] = 0
              /\ \A k \in 1 .. Len(s) : f[k] = f[k - 1] + s[k].length

LEMMA TotalIs ==
    ASSUME NEW s \in Seq(Summaries)
    PROVE  \E f : Sums(s, f) /\ Total(s) = f[Len(s)]
<1>. PICK n \in Nat : n = Len(s)
  OBVIOUS
<1>. DEFINE step == [k \in 1 .. n |-> [x \in Nat |-> x + s[k].length]]
            IsUpTo(f) == f = [k \in 0 .. n |-> IF k = 0 THEN 0 ELSE f[k - 1] + s[k].length]
            upTo == CHOOSE g : IsUpTo(g)
<1>1. \A k \in 1 .. n : s[k].length \in Nat
  <2>1. \A k \in 1 .. n : s[k] \in Summaries
    OBVIOUS
  <2> QED
    BY <2>1 DEF Summaries
<1>2. step \in [1 .. n -> [Nat -> Nat]]
  BY <1>1
<1>3. PICK f : Iterates(f, Nat, n, 0, step)
  <2> HIDE DEF step
  <2>1. 0 \in Nat
    OBVIOUS
  <2> QED
    BY <1>2, <2>1, Recursion
<1>4. f \in [0 .. n -> Nat] /\ f[0] = 0
  BY <1>3 DEF Iterates
<1>5. \A k \in 1 .. n : f[k] = f[k - 1] + s[k].length
  <2> SUFFICES ASSUME NEW k \in 1 .. n PROVE f[k] = f[k - 1] + s[k].length
    OBVIOUS
  <2>1. f[k] = step[k][f[k - 1]]
    BY <1>3 DEF Iterates
  <2>2. f[k - 1] \in Nat
    BY <1>4
  <2> QED
    BY <2>1, <2>2
<1>6. IsUpTo(upTo)
  <2>1. IsUpTo(f)
    BY <1>4, <1>5
  <2> HIDE DEF IsUpTo
  <2> QED
    BY <2>1
<1>7. Total(s) = upTo[n]
  BY DEF Total
<1>8. Sums(s, upTo)
  <2> HIDE DEF upTo
  <2>1. upTo[0] = 0 /\ \A k \in 1 .. n : upTo[k] = upTo[k - 1] + s[k].length
    <3>1. \A k \in 0 .. n : upTo[k] = IF k = 0 THEN 0 ELSE upTo[k - 1] + s[k].length
      BY <1>6
    <3>2. 0 \in 0 .. n /\ \A k \in 1 .. n : k \in 0 .. n /\ k # 0
      OBVIOUS
    <3> QED
      BY <3>1, <3>2
  <2>. DEFINE S == {k \in Nat : k <= n => upTo[k] \in Nat}
  <2>2. ASSUME NEW k \in Nat, k \in S PROVE k + 1 \in S
    BY <1>1, <2>1, <2>2
  <2>3. Nat \subseteq S
    <3>1. 0 \in S
      BY <2>1
    <3> HIDE DEF S
    <3> QED
      BY <2>2, <3>1, SetInduction
  <2>4. upTo = [k \in 0 .. n |-> upTo[k]]
    BY <1>6
  <2>5. \A k \in 0 .. n : upTo[k] \in Nat
    BY <2>3
  <2>6. upTo \in [0 .. n -> Nat]
    BY <2>4, <2>5
  <2> QED
    BY <2>1, <2>6 DEF Sums
<1> QED
  BY <1>7, <1>8

LEMMA TotalOfNone == Total(<<>>) = 0
<1>1. <<>> \in Seq(Summaries) /\ Len(<<>>) = 0
  OBVIOUS
<1>2. PICK f : Sums(<<>>, f) /\ Total(<<>>) = f[Len(<<>>)]
  BY <1>1, TotalIs
<1> QED
  BY <1>1, <1>2 DEF Sums

\* One more summary adds its length.
LEMMA TotalOfMore ==
    ASSUME NEW s \in Seq(Summaries), NEW e \in Summaries
    PROVE  Total(Append(s, e)) = Total(s) + e.length
<1>. PICK n \in Nat : n = Len(s)
  OBVIOUS
<1>. PICK t \in Seq(Summaries) : t = Append(s, e)
  BY AppendIs
<1>1. Len(t) = n + 1 /\ t[n + 1] = e /\ \A k \in 1 .. n : t[k] = s[k]
  BY AppendIs
<1>2. PICK f : Sums(s, f) /\ Total(s) = f[n]
  BY TotalIs
<1>3. PICK g : Sums(t, g) /\ Total(t) = g[n + 1]
  BY <1>1, TotalIs
<1>. DEFINE S == {k \in Nat : k <= n => g[k] = f[k]}
<1>4. 0 \in S
  BY <1>2, <1>3 DEF Sums
<1>5. ASSUME NEW k \in Nat, k \in S PROVE k + 1 \in S
  <2> SUFFICES ASSUME k + 1 <= n PROVE g[k + 1] = f[k + 1]
    OBVIOUS
  <2>1. g[k] = f[k] /\ k + 1 \in 1 .. n /\ k + 1 \in 1 .. n + 1 /\ (k + 1) - 1 = k
    BY <1>5
  <2>2. g[k + 1] = g[k] + t[k + 1].length
    BY <1>1, <1>3, <2>1 DEF Sums
  <2>3. f[k + 1] = f[k] + s[k + 1].length
    BY <1>2, <2>1 DEF Sums
  <2> QED
    BY <1>1, <2>1, <2>2, <2>3
<1>6. g[n] = f[n]
  <2>1. n \in S
    <3> HIDE DEF S
    <3> QED
      BY <1>4, <1>5, SetInduction
  <2> QED
    BY <2>1
<1>7. g[n + 1] = g[n] + e.length
  <2>1. n + 1 \in 1 .. n + 1 /\ (n + 1) - 1 = n
    OBVIOUS
  <2> QED
    BY <1>1, <1>3, <2>1 DEF Sums
<1> QED
  BY <1>2, <1>3, <1>6, <1>7

-----------------------------------------------------------------------------
(* The budget.                                                             *)

LEMMA PromptInit == SourceInit => PromptIsBounded
<1> SUFFICES ASSUME SourceInit PROVE PromptIsBounded
  OBVIOUS
<1>1. Characters = Total(summaries)
  BY DEF Characters, Total
<1>2. Total(summaries) = 0
  BY TotalOfNone DEF SourceInit
<1>3. Len(summaries) = 0
  BY EmptyIsSeq DEF SourceInit
<1> QED
  BY <1>1, <1>2, <1>3, BudgetAssumption DEF SourceInit, PromptIsBounded

LEMMA PromptKept ==
    ASSUME PromptIsBounded, UNCHANGED <<used, summaries>> PROVE PromptIsBounded'
<1>1. Characters = Total(summaries) /\ Characters' = Total(summaries')
  BY DEF Characters, Total
<1>2. Total(summaries') = Total(summaries)
  OBVIOUS
<1> QED
  BY <1>1, <1>2 DEF PromptIsBounded

\* What is taken fits what is left of the budget, and is counted.
LEMMA PromptTake ==
    ASSUME SourceIInv, PromptIsBounded, NEW length \in Lengths, Take(length)
    PROVE  PromptIsBounded'
<1>1. CASE UNCHANGED <<used, summaries>>
  BY <1>1, PromptKept
<1>2. CASE /\ length > 0
           /\ used < MaxSourcePromptChars
           /\ \E n \in Cuts(length) :
                 /\ used' = used + n
                 /\ summaries' = Append(summaries, [source |-> Current, of |-> length,
                                                    length |-> n])
  <2>. PICK m \in Nat, i \in Nat \ {0} : m = MaxSourcePromptChars /\ i = MaxSourceCharsPerItem
    BY BudgetAssumption
  <2>. PICK u \in Nat : u = used
    BY DEF SourceIInv, SourceTypeOK
  <2>. PICK c \in Nat : c = Current
    BY DEF SourceIInv, SourceTypeOK, Current
  <2>. PICK t \in Nat : t = length
    BY BudgetAssumption
  <2>. PICK n \in Cuts(length) :
          /\ used' = u + n
          /\ summaries' = Append(summaries, [source |-> c, of |-> t, length |-> n])
    BY <1>2
  <2>1. Limit = IF m - u < i THEN m - u ELSE i
    BY DEF Limit
  <2>2. n \in 1 .. i /\ u + n <= m
    BY <1>2, <2>1 DEF Cuts
  <2>. PICK e \in Summaries : e = [source |-> c, of |-> t, length |-> n]
    BY <2>2 DEF Summaries
  <2>3. summaries \in Seq(Summaries) /\ e.length = n
    BY DEF SourceIInv, SourceTypeOK
  <2>4. Characters = Total(summaries) /\ Characters' = Total(summaries')
    BY DEF Characters, Total
  <2>5. Total(summaries') = Total(summaries) + n
    BY <2>3, TotalOfMore
  <2>6. Characters = u /\ \A k \in 1 .. Len(summaries) : summaries[k].length \in 1 .. i
    BY DEF PromptIsBounded
  <2>7. Characters' = used'
    BY <2>4, <2>5, <2>6
  <2>8. \A k \in 1 .. Len(summaries)' : summaries'[k].length \in 1 .. i
    <3>. PICK a \in Nat : a = Len(summaries)
      BY <2>3
    <3>1. /\ Len(summaries)' = a + 1 /\ summaries'[a + 1] = e
          /\ \A k \in 1 .. a : summaries'[k] = summaries[k]
      BY <2>3, AppendIs
    <3>2. \A k \in 1 .. a + 1 : k \in 1 .. a \/ k = a + 1
      OBVIOUS
    <3> QED
      BY <2>2, <2>3, <2>6, <3>1, <3>2
  <2>9. used' <= m
    BY <2>2
  <2> QED
    BY <2>7, <2>8, <2>9 DEF PromptIsBounded
<1> QED
  BY <1>1, <1>2 DEF Take, Skip

LEMMA PromptNext ==
    SourceIInv /\ PromptIsBounded /\ [SourceNext]_sourceVars => PromptIsBounded'
<1> SUFFICES ASSUME SourceIInv, PromptIsBounded, [SourceNext]_sourceVars
             PROVE  PromptIsBounded'
  OBVIOUS
<1>1. CASE UNCHANGED <<used, summaries>>
  BY <1>1, PromptKept
<1>2. CASE SummarizeUrl
  BY <1>1, <1>2, PromptTake DEF SummarizeUrl, Skip
<1>3. CASE SummarizeUploadedFile
  <2>1. CASE Source.kind = "text" /\ Take(Source.length)
    <3>1. Source \in Urls \cup Files
      BY <1>3 DEF SummarizeUploadedFile, Visit, Source, Current, SourceIInv, SourceTypeOK
    <3>2. Source.length \in Lengths
      BY <2>1, <3>1 DEF Urls, Files
    <3> QED
      BY <2>1, <3>2, PromptTake
  <2> QED
    BY <1>1, <1>3, <2>1 DEF SummarizeUploadedFile, Skip
<1> QED
  BY <1>1, <1>2, <1>3 DEF SourceNext, sourceVars

-----------------------------------------------------------------------------
(* What the merge of a manifest computes.                                  *)

LEMMA PathFacts ==
    /\ Scaffold \subseteq Paths /\ OtherPaths \subseteq Paths /\ DebugReport \in Paths
    /\ "none" \notin Bodies /\ "none" # "scaffold" /\ DebugReport \notin Scaffold
BY DEF Paths, Bodies, Scaffold, SourcePaths, DebugReport

LEMMA BaseIs ==
    /\ Base \in FileLists
    /\ \A p \in Paths : Base[p] = IF p \in Scaffold THEN "scaffold" ELSE "none"
BY DEF Base, ScaffoldFiles, FileLists, Texts

\* An entry counts for a path when it names it and has a text.
Writes(entry, p) == entry.name = p /\ entry.body # "none"

LEMMA ListedIs ==
    ASSUME NEW files \in FileLists, NEW entry \in Entries
    PROVE  /\ Listed(files, entry) \in FileLists
           /\ \A p \in Paths : Listed(files, entry)[p] =
                                  IF Writes(entry, p) THEN entry.body ELSE files[p]
<1>1. CASE entry.name \in SkippedNames \/ entry.body = "none"
  BY <1>1, NamesAssumption DEF Listed, Writes
<1>2. CASE ~(entry.name \in SkippedNames \/ entry.body = "none")
  <2>1. entry.name \in Paths /\ entry.body \in Bodies
    BY <1>2, PathFacts DEF Entries
  <2>2. Listed(files, entry) = [files EXCEPT ![entry.name] = entry.body]
    BY <1>2 DEF Listed
  <2> QED
    BY <1>2, <2>1, <2>2 DEF FileLists, Texts, Writes
<1> QED
  BY <1>1, <1>2

\* f has the files after each of the entries.
Merges(entries, f) ==
    /\ f \in [0 .. Len(entries) -> FileLists]
    /\ f[0] = Base
    /\ \A k \in 1 .. Len(entries) : f[k] = Listed(f[k - 1], entries[k])

LEMMA HydratedIs ==
    ASSUME NEW entries \in Seq(Entries)
    PROVE  \E f : Merges(entries, f) /\ Hydrated(entries) = f[Len(entries)]
<1>. PICK n \in Nat : n = Len(entries)
  OBVIOUS
<1>. DEFINE step == [k \in 1 .. n |-> [x \in FileLists |-> Listed(x, entries[k])]]
            IsUpTo(f) == f = [k \in 0 .. n |-> IF k = 0 THEN Base
                                               ELSE Listed(f[k - 1], entries[k])]
            upTo == CHOOSE g : IsUpTo(g)
<1>1. \A x \in FileLists, k \in 1 .. n : Listed(x, entries[k]) \in FileLists
  <2>1. \A k \in 1 .. n : entries[k] \in Entries
    OBVIOUS
  <2> QED
    BY <2>1, ListedIs
<1>2. step \in [1 .. n -> [FileLists -> FileLists]]
  BY <1>1
<1>3. PICK f : Iterates(f, FileLists, n, Base, step)
  <2> HIDE DEF step
  <2> QED
    BY <1>2, BaseIs, Recursion
<1>4. f \in [0 .. n -> FileLists] /\ f[0] = Base
  BY <1>3 DEF Iterates
<1>5. \A k \in 1 .. n : f[k] = Listed(f[k - 1], entries[k])
  <2> SUFFICES ASSUME NEW k \in 1 .. n PROVE f[k] = Listed(f[k - 1], entries[k])
    OBVIOUS
  <2>1. f[k] = step[k][f[k - 1]]
    BY <1>3 DEF Iterates
  <2>2. f[k - 1] \in FileLists
    BY <1>4
  <2> QED
    BY <2>1, <2>2
<1>6. IsUpTo(upTo)
  <2>1. IsUpTo(f)
    BY <1>4, <1>5
  <2> HIDE DEF IsUpTo
  <2> QED
    BY <2>1
<1>7. Hydrated(entries) = upTo[n]
  BY DEF Hydrated
<1>8. Merges(entries, upTo)
  <2> HIDE DEF upTo
  <2>1. upTo[0] = Base /\ \A k \in 1 .. n : upTo[k] = Listed(upTo[k - 1], entries[k])
    <3>1. \A k \in 0 .. n : upTo[k] = IF k = 0 THEN Base
                                      ELSE Listed(upTo[k - 1], entries[k])
      BY <1>6
    <3>2. 0 \in 0 .. n /\ \A k \in 1 .. n : k \in 0 .. n /\ k # 0
      OBVIOUS
    <3> QED
      BY <3>1, <3>2
  <2>. DEFINE S == {k \in Nat : k <= n => upTo[k] \in FileLists}
  <2>2. ASSUME NEW k \in Nat, k \in S PROVE k + 1 \in S
    <3> SUFFICES ASSUME k + 1 <= n PROVE upTo[k + 1] \in FileLists
      OBVIOUS
    <3>1. k + 1 \in 1 .. n /\ (k + 1) - 1 = k /\ upTo[k] \in FileLists
      BY <2>2
    <3>2. upTo[k + 1] = Listed(upTo[k], entries[k + 1])
      BY <2>1, <3>1
    <3> QED
      BY <1>1, <3>1, <3>2
  <2>3. Nat \subseteq S
    <3>1. 0 \in S
      BY <2>1, BaseIs
    <3> HIDE DEF S
    <3> QED
      BY <2>2, <3>1, SetInduction
  <2>4. upTo = [k \in 0 .. n |-> upTo[k]]
    BY <1>6
  <2>5. \A k \in 0 .. n : upTo[k] \in FileLists
    BY <2>3
  <2>6. upTo \in [0 .. n -> FileLists]
    BY <2>4, <2>5
  <2> QED
    BY <2>1, <2>6 DEF Merges
<1> QED
  BY <1>7, <1>8

\* Of a path the last entry that counts is left, or else what the scaffold has.
Written(entries, n, p) == {k \in 1 .. n : Writes(entries[k], p)}

Greatest(S) == CHOOSE k \in S : \A j \in S : j <= k

LastOf(entries, n, p) ==
    IF Written(entries, n, p) = {} THEN Base[p]
                                   ELSE entries[Greatest(Written(entries, n, p))].body

LEMMA HydratedHas ==
    ASSUME NEW entries \in Seq(Entries), NEW p \in Paths
    PROVE  /\ Hydrated(entries) \in FileLists
           /\ Hydrated(entries)[p] = LastOf(entries, Len(entries), p)
<1>. PICK n \in Nat : n = Len(entries)
  OBVIOUS
<1>1. PICK f : Merges(entries, f) /\ Hydrated(entries) = f[n]
  BY HydratedIs
<1>2. \A k \in 1 .. n : entries[k] \in Entries
  OBVIOUS
<1>. DEFINE S == {k \in Nat : k <= n => f[k][p] = LastOf(entries, k, p)}
<1>3. 0 \in S
  <2>1. Written(entries, 0, p) = {}
    BY DEF Written
  <2> QED
    BY <1>1, <2>1 DEF Merges, LastOf
<1>4. ASSUME NEW k \in Nat, k \in S PROVE k + 1 \in S
  <2> SUFFICES ASSUME k + 1 <= n PROVE f[k + 1][p] = LastOf(entries, k + 1, p)
    OBVIOUS
  <2>1. k + 1 \in 1 .. n /\ (k + 1) - 1 = k /\ k \in 0 .. n
    OBVIOUS
  <2>2. f[k + 1] = Listed(f[k], entries[k + 1]) /\ f[k] \in FileLists
    BY <1>1, <2>1 DEF Merges
  <2>3. f[k + 1][p] = IF Writes(entries[k + 1], p) THEN entries[k + 1].body ELSE f[k][p]
    <3>. PICK entry \in Entries, files \in FileLists : entry = entries[k + 1] /\ files = f[k]
      BY <1>2, <2>1, <2>2
    <3>1. Listed(files, entry)[p] = IF Writes(entry, p) THEN entry.body ELSE files[p]
      BY ListedIs
    <3> QED
      BY <2>2, <3>1
  <2>4. CASE Writes(entries[k + 1], p)
    <3>. DEFINE written == Written(entries, k + 1, p)
    <3>1. k + 1 \in written /\ \A j \in written : j \in Nat /\ j <= k + 1
      BY <2>4 DEF Written
    <3>2. Greatest(written) = k + 1
      <4> HIDE DEF written
      <4>1. \A i \in written : (\A j \in written : j <= i) => i = k + 1
        BY <3>1
      <4> QED
        BY <3>1, <4>1 DEF Greatest
    <3> QED
      BY <2>3, <2>4, <3>1, <3>2 DEF LastOf
  <2>5. CASE ~Writes(entries[k + 1], p)
    <3>1. Written(entries, k + 1, p) = Written(entries, k, p)
      BY <2>5 DEF Written
    <3>2. LastOf(entries, k + 1, p) = LastOf(entries, k, p)
      BY <3>1 DEF LastOf
    <3> QED
      BY <1>4, <2>3, <2>5, <3>2
  <2> QED
    BY <2>4, <2>5
<1>5. n \in S
  <2> HIDE DEF S
  <2> QED
    BY <1>3, <1>4, SetInduction
<1>6. n \in 0 .. n
  OBVIOUS
<1> QED
  BY <1>1, <1>5, <1>6 DEF Merges

\* What the model can list does not remove a path from the scaffold.
LEMMA ScaffoldStays ==
    ASSUME NEW entries \in Seq(Entries), NEW p \in Scaffold
    PROVE  Has(Hydrated(entries), p)
<1>. PICK n \in Nat : n = Len(entries)
  OBVIOUS
<1>1. PICK f : Merges(entries, f) /\ Hydrated(entries) = f[n]
  BY HydratedIs
<1>2. \A k \in 1 .. n : entries[k] \in Entries
  OBVIOUS
<1>3. p \in Paths
  BY PathFacts
<1>. DEFINE S == {k \in Nat : k <= n => f[k][p] # "none"}
<1>4. 0 \in S
  BY <1>1, <1>3, BaseIs DEF Merges
<1>5. ASSUME NEW k \in Nat, k \in S PROVE k + 1 \in S
  <2> SUFFICES ASSUME k + 1 <= n PROVE f[k + 1][p] # "none"
    OBVIOUS
  <2>1. k + 1 \in 1 .. n /\ (k + 1) - 1 = k /\ k \in 0 .. n
    OBVIOUS
  <2>2. f[k + 1] = Listed(f[k], entries[k + 1]) /\ f[k] \in FileLists
    BY <1>1, <2>1 DEF Merges
  <2>3. f[k + 1][p] = IF Writes(entries[k + 1], p) THEN entries[k + 1].body ELSE f[k][p]
    <3>. PICK entry \in Entries, files \in FileLists : entry = entries[k + 1] /\ files = f[k]
      BY <1>2, <2>1, <2>2
    <3>1. Listed(files, entry)[p] = IF Writes(entry, p) THEN entry.body ELSE files[p]
      BY <1>3, ListedIs
    <3> QED
      BY <2>2, <3>1
  <2> QED
    BY <1>5, <2>3 DEF Writes
<1>6. n \in S
  <2> HIDE DEF S
  <2> QED
    BY <1>4, <1>5, SetInduction
<1> QED
  BY <1>1, <1>6 DEF Has

-----------------------------------------------------------------------------
(* The files.                                                              *)

\* What the health scaffold fills in is enough for the health check,
\* whatever there was.
LEMMA MergeHeals ==
    ASSUME NEW lists PROVE Healthy(MergeRepoHealthScaffold(FilesFrom(lists)))
<1>. PICK files : files = FilesFrom(lists)
  OBVIOUS
<1>. PICK merged : merged = MergeRepoHealthScaffold(files)
  OBVIOUS
<1>1. \A p \in Paths : merged[p] = IF p \in HealthScaffold /\ ~HasAny(files, Alternatives(p))
                                   THEN "stub" ELSE files[p]
  BY DEF MergeRepoHealthScaffold
<1>2. BuildLogs \cup Demos \cup Packages \cup AnySources
        \cup {"README.md", "docs/ARCHITECTURE.md"} \subseteq Paths
  BY DEF Paths, Scaffold, SourcePaths, BuildLogs, Demos, Packages, AnySources
\* A group of which a path is in the health scaffold is never empty.
<1>3. ASSUME NEW group, NEW p \in group, group \subseteq Paths, p \in HealthScaffold,
             Alternatives(p) = group
      PROVE  HasAny(merged, group)
  <2>1. CASE HasAny(files, group)
    <3>. PICK q \in group : files[q] # "none"
      BY <2>1 DEF HasAny, Has
    <3>1. merged[q] \in {"stub", files[q]}
      BY <1>1, <1>3
    <3> QED
      BY <3>1 DEF HasAny, Has
  <2>2. CASE ~HasAny(files, group)
    BY <1>1, <1>3, <2>2 DEF HasAny, Has
  <2> QED
    BY <2>1, <2>2
<1>4. HasAny(merged, {"README.md"})
  BY <1>2, <1>3 DEF HealthScaffold, Alternatives, BuildLogs, Demos, Packages, AnySources,
                    SourcePaths
<1>5. HasAny(merged, {"docs/ARCHITECTURE.md"})
  BY <1>2, <1>3 DEF HealthScaffold, Alternatives, BuildLogs, Demos, Packages, AnySources,
                    SourcePaths
<1>6. HasAny(merged, BuildLogs)
  <2>1. "docs/BUILD_LOG.md" \in BuildLogs /\ "docs/BUILD_LOG.md" \in HealthScaffold
    BY DEF BuildLogs, HealthScaffold
  <2>2. Alternatives("docs/BUILD_LOG.md") = BuildLogs
    BY <2>1 DEF Alternatives, BuildLogs, Demos, Packages, AnySources, SourcePaths
  <2> QED
    BY <1>2, <1>3, <2>1, <2>2
<1>7. HasAny(merged, Demos)
  <2>1. "demo/demo_script.md" \in Demos /\ "demo/demo_script.md" \in HealthScaffold
    BY DEF Demos, HealthScaffold
  <2>2. Alternatives("demo/demo_script.md") = Demos
    BY <2>1 DEF Alternatives, BuildLogs, Demos, Packages, AnySources, SourcePaths
  <2> QED
    BY <1>2, <1>3, <2>1, <2>2
<1>8. HasAny(merged, Packages)
  <2>1. "requirements.txt" \in Packages /\ "requirements.txt" \in HealthScaffold
    BY DEF Packages, HealthScaffold
  <2>2. Alternatives("requirements.txt") = Packages
    BY <2>1 DEF Alternatives, BuildLogs, Demos, Packages, AnySources, SourcePaths
  <2> QED
    BY <1>2, <1>3, <2>1, <2>2
<1>9. HasAny(merged, AnySources)
  <2>1. "src/app.py" \in AnySources /\ "src/app.py" \in HealthScaffold
    BY DEF AnySources, HealthScaffold
  <2>2. Alternatives("src/app.py") = AnySources
    BY <2>1 DEF Alternatives, BuildLogs, Demos, Packages, AnySources, SourcePaths
  <2> QED
    BY <1>2, <1>3, <2>1, <2>2
<1> QED
  BY <1>4, <1>5, <1>6, <1>7, <1>8, <1>9 DEF Healthy, HasAny

LEMMA ConcatIs ==
    ASSUME NEW S, NEW p \in Seq(S), NEW q \in Seq(S)
    PROVE  /\ p \o q \in Seq(S)
           /\ Len(p \o q) = Len(p) + Len(q)
           /\ \A i \in 1 .. Len(p) : (p \o q)[i] = p[i]
           /\ \A i \in 1 .. Len(q) : (p \o q)[Len(p) + i] = q[i]
OBVIOUS

LEMMA OneIs ==
    ASSUME NEW S, NEW x \in S
    PROVE  <<x>> \in Seq(S) /\ Len(<<x>>) = 1 /\ <<x>>[1] = x
OBVIOUS

LEMMA ThreeLists ==
    ASSUME NEW h, NEW x, NEW again, again = <<h>> \o <<h>> \o <<x>>
    PROVE  Len(again) = 3 /\ again[1] = h /\ again[2] = h /\ again[3] = x
<1>. PICK S : S = {h, x}
  OBVIOUS
<1>1. \A y \in S : <<y>> \in Seq(S) /\ Len(<<y>>) = 1 /\ <<y>>[1] = y
  BY OneIs
<1>. PICK a \in Seq(S), b \in Seq(S) : /\ a = <<h>> /\ Len(a) = 1 /\ a[1] = h
                                       /\ b = <<x>> /\ Len(b) = 1 /\ b[1] = x
  BY <1>1
<1>. PICK two : two = a \o a
  OBVIOUS
<1>2. two \in Seq(S) /\ Len(two) = 2 /\ two[1] = h /\ two[2] = h
  <2>1. /\ two \in Seq(S) /\ Len(two) = Len(a) + Len(a)
        /\ \A i \in 1 .. Len(a) : two[i] = a[i]
        /\ \A i \in 1 .. Len(a) : two[Len(a) + i] = a[i]
    BY ConcatIs
  <2>2. Len(a) = 1 /\ 1 \in 1 .. Len(a) /\ Len(a) + 1 = 2 /\ Len(a) + Len(a) = 2
    OBVIOUS
  <2>3. two[1] = h
    BY <2>1, <2>2
  <2>4. two[Len(a) + 1] = a[1]
    BY <2>1, <2>2
  <2> QED
    BY <2>1, <2>2, <2>3, <2>4
<1>3. again = two \o b
  OBVIOUS
<1>4. /\ Len(again) = Len(two) + Len(b)
      /\ \A i \in 1 .. Len(two) : again[i] = two[i]
      /\ \A i \in 1 .. Len(b) : again[Len(two) + i] = b[i]
  <2>1. two \in Seq(S)
    BY <1>2
  <2>2. /\ Len(two \o b) = Len(two) + Len(b)
        /\ \A i \in 1 .. Len(two) : (two \o b)[i] = two[i]
        /\ \A i \in 1 .. Len(b) : (two \o b)[Len(two) + i] = b[i]
    BY <2>1, ConcatIs
  <2> QED
    BY <1>3, <2>2
<1>5. Len(two) = 2 /\ Len(b) = 1 /\ two[1] = h /\ two[2] = h /\ b[1] = x
  BY <1>2
<1> QED
  BY ONLY <1>4, <1>5

\* Listing the files a second time, behind a report, changes none of those
\* that are read.
LEMMA NewestAgain ==
    ASSUME NEW h, NEW p \in Paths, p # DebugReport, NEW lists, lists = <<h>>, NEW again,
           again = lists \o lists \o <<[NoFiles EXCEPT ![DebugReport] = "report"]>>
    PROVE  Newest(again, p) = Newest(lists, p)
<1>. PICK x : x = [NoFiles EXCEPT ![DebugReport] = "report"]
  OBVIOUS
<1>1. ~Has(x, p)
  BY DEF Has, NoFiles
<1>2. Len(lists) = 1 /\ lists[1] = h
  OBVIOUS
<1>4. Len(again) = 3 /\ again[1] = h /\ again[2] = h /\ again[3] = x
  <2>1. again = <<h>> \o <<h>> \o <<x>>
    OBVIOUS
  <2> QED
    BY ONLY <2>1, ThreeLists
<1>5. 1 .. 1 = {1} /\ 1 .. 3 = {1, 2, 3}
  OBVIOUS
<1>6. CASE Has(h, p)
  <2>1. {k \in 1 .. Len(lists) : Has(lists[k], p)} = {1}
    BY <1>2, <1>5, <1>6
  <2>2. {k \in 1 .. Len(again) : Has(again[k], p)} = {1, 2}
    BY <1>1, <1>4, <1>5, <1>6
  <2>3. Newest(lists, p) = lists[CHOOSE k \in {1} : \A j \in {1} : j <= k][p]
    BY <2>1 DEF Newest
  <2>4. Newest(again, p) = again[CHOOSE k \in {1, 2} : \A j \in {1, 2} : j <= k][p]
    BY <2>2 DEF Newest
  <2>5. (CHOOSE k \in {1} : \A j \in {1} : j <= k) = 1
    OBVIOUS
  <2>6. (CHOOSE k \in {1, 2} : \A j \in {1, 2} : j <= k) = 2
    OBVIOUS
  <2> QED
    BY <1>2, <1>4, <2>3, <2>4, <2>5, <2>6
<1>7. CASE ~Has(h, p)
  <2>1. {k \in 1 .. Len(lists) : Has(lists[k], p)} = {}
    BY <1>2, <1>5, <1>7
  <2>2. {k \in 1 .. Len(again) : Has(again[k], p)} = {}
    BY <1>1, <1>4, <1>5, <1>7
  <2> QED
    BY <2>1, <2>2 DEF Newest
<1> QED
  BY <1>6, <1>7

ReadFits(lists) == \A p \in ReadPaths : Fits(Newest(lists, p))

\* What a run commits, by path, once the report is there.
ArtifactsHave == \A p \in Paths : Newest(generated_artifacts, p) = Expected(p)

LEMMA NewestOfOne ==
    ASSUME NEW h, NEW p PROVE Newest(<<h>>, p) = h[p]
<1>. PICK lists : lists = <<h>>
  OBVIOUS
<1>1. Len(lists) = 1 /\ lists[1] = h /\ 1 .. 1 = {1}
  OBVIOUS
<1>2. CASE Has(h, p)
  <2>1. {k \in 1 .. Len(lists) : Has(lists[k], p)} = {1}
    BY <1>1, <1>2
  <2>2. Newest(lists, p) = lists[CHOOSE k \in {1} : \A j \in {1} : j <= k][p]
    BY <2>1 DEF Newest
  <2>3. (CHOOSE k \in {1} : \A j \in {1} : j <= k) = 1
    OBVIOUS
  <2> QED
    BY <1>1, <2>2, <2>3
<1>3. CASE ~Has(h, p)
  <2>1. {k \in 1 .. Len(lists) : Has(lists[k], p)} = {}
    BY <1>1, <1>3
  <2> QED
    BY <1>3, <2>1 DEF Newest, Has
<1> QED
  BY <1>2, <1>3

LEMMA NewestOfReport ==
    ASSUME NEW h, NEW lists, lists = <<h>>, NEW again,
           again = lists \o lists \o <<[NoFiles EXCEPT ![DebugReport] = "report"]>>
    PROVE  Newest(again, DebugReport) = "report"
<1>. PICK x : x = [NoFiles EXCEPT ![DebugReport] = "report"]
  OBVIOUS
<1>1. x[DebugReport] = "report" /\ Has(x, DebugReport)
  BY PathFacts DEF NoFiles, Has
<1>2. Len(again) = 3 /\ again[3] = x
  <2>1. again = <<h>> \o <<h>> \o <<x>>
    OBVIOUS
  <2> QED
    BY ONLY <2>1, ThreeLists
<1>. DEFINE having == {k \in 1 .. Len(again) : Has(again[k], DebugReport)}
<1>3. 3 \in having /\ \A k \in having : k \in Nat /\ k <= 3
  BY <1>1, <1>2
<1>4. (CHOOSE k \in having : \A j \in having : j <= k) = 3
  <2> HIDE DEF having
  <2>1. \A k \in having : (\A j \in having : j <= k) => k = 3
    BY <1>3
  <2> QED
    BY <1>3, <2>1
<1>5. Newest(again, DebugReport) = again[CHOOSE k \in having : \A j \in having : j <= k][DebugReport]
  BY <1>3 DEF Newest
<1> QED
  BY <1>1, <1>2, <1>4, <1>5

LEMMA ExpectedIs ==
    ASSUME manifest \in Seq(Entries), NEW p \in Paths
    PROVE  Expected(p) = IF p = DebugReport THEN "report" ELSE Hydrated(manifest)[p]
<1>. DEFINE written == {k \in 1 .. Len(manifest) :
                          manifest[k].name = p /\ manifest[k].body # "none"}
<1>1. written = Written(manifest, Len(manifest), p)
  BY DEF Written, Writes
<1>2. CASE p = DebugReport
  BY <1>2 DEF Expected
<1>3. CASE p # DebugReport /\ written # {}
  <2>1. Expected(p) = manifest[Greatest(written)].body
    BY <1>3 DEF Expected, Greatest
  <2> QED
    BY <1>1, <1>3, <2>1, HydratedHas DEF LastOf
<1>4. CASE p # DebugReport /\ written = {}
  <2>1. Expected(p) = IF p \in Scaffold THEN "scaffold" ELSE "none"
    BY <1>4 DEF Expected
  <2> QED
    BY <1>1, <1>4, <2>1, HydratedHas, BaseIs DEF LastOf
<1> QED
  BY <1>2, <1>3, <1>4

LEMMA ExpectedFacts ==
    ASSUME manifest \in Seq(Entries)
    PROVE  /\ \A p \in Paths : Expected(p) \in Texts \cup {"none"}
           /\ \A p \in Scaffold : Expected(p) # "none"
<1>1. ASSUME NEW p \in Paths PROVE Expected(p) \in Texts \cup {"none"}
  <2>1. Hydrated(manifest)[p] \in Texts \cup {"none"}
    BY HydratedHas DEF FileLists
  <2> QED
    BY <2>1, ExpectedIs DEF Texts
<1>2. ASSUME NEW p \in Scaffold PROVE Expected(p) # "none"
  BY PathFacts, ExpectedIs, ScaffoldStays DEF Has
<1> QED
  BY <1>1, <1>2

\* The health scaffold adds nothing where the scaffold of the project is.
LEMMA MergeKeeps ==
    ASSUME NEW files, \A p \in Scaffold : Has(files, p), NEW p \in Paths
    PROVE  MergeRepoHealthScaffold(files)[p] = files[p]
<1> SUFFICES ASSUME p \in HealthScaffold PROVE HasAny(files, Alternatives(p))
  BY DEF MergeRepoHealthScaffold
<1>1. CASE p \in {"README.md", "docs/BUILD_LOG.md", "docs/ARCHITECTURE.md",
                  "demo/demo_script.md", "requirements.txt"}
  <2>1. p \in Scaffold
    BY <1>1 DEF Scaffold
  <2>2. p \in Alternatives(p)
    BY DEF Alternatives
  <2> QED
    BY <2>1, <2>2 DEF HasAny
<1>2. CASE p \in {"src/__init__.py", "src/app.py"}
  <2>1. "src/main.jsx" \in Scaffold /\ "src/main.jsx" \in AnySources
    BY DEF Scaffold, AnySources, SourcePaths
  <2>2. Alternatives(p) = AnySources
    BY <1>2 DEF Alternatives, BuildLogs, Demos, Packages, AnySources
  <2> QED
    BY <2>1, <2>2 DEF HasAny
<1> QED
  BY <1>1, <1>2 DEF HealthScaffold

LEMMA FileListTypes ==
    ASSUME NEW f \in FileLists, NEW g \in FileLists
    PROVE  /\ <<f>> \in Seq(FileLists)
           /\ <<f>> \o <<f>> \o <<g>> \in Seq(FileLists)
<1>1. <<f>> \in Seq(FileLists) /\ <<g>> \in Seq(FileLists)
  OBVIOUS
<1>2. <<f>> \o <<f>> \in Seq(FileLists)
  BY <1>1, ConcatIs
<1> QED
  BY <1>1, <1>2, ConcatIs

LinkedPaths == {"docs/BUILD_LOG.md", "docs/ARCHITECTURE.md", "demo/demo_script.md"}

\* From the manifest to the commit: the files are those of the manifest until
\* the report is added, and then those the commit should have.
FilesIInv ==
    /\ SourceIInv
    /\ PromptIsBounded
    /\ FilesTypeOK
    /\ stage \in {"validate_mvp", "debug_generated_files"} =>
          generated_artifacts = <<Hydrated(manifest)>>
    /\ stage \in {"debug_generated_files", "commit_progress"} => ReadFits(generated_artifacts)
    /\ stage = "commit_progress" => ArtifactsHave
    /\ Committed =>
          /\ stage \in {"verify_build", "generate_final_package", "completed", "failed"}
          /\ ArtifactsHave
          /\ \A p \in Paths : committed[p] = Expected(p)
          /\ Healthy(committed)
          /\ \A p \in ReadPaths : Fits(committed[p])
    /\ stage \in {"verify_build", "generate_final_package", "completed"} => Committed
    /\ links \subseteq LinkedPaths
    /\ links # {} => Committed

LEMMA ReadPathsFacts == ReadPaths \subseteq Paths /\ DebugReport \notin ReadPaths
BY DEF ReadPaths, Paths, Scaffold, SourcePaths, DebugReport

LEMMA FilesInitIInv == FilesInit => FilesIInv
<1> SUFFICES ASSUME FilesInit PROVE FilesIInv
  OBVIOUS
<1>1. SourceIInv /\ PromptIsBounded
  BY SourceInitIInv, PromptInit DEF FilesInit
<1>2. NoFiles \in FileLists
  BY DEF NoFiles, FileLists
<1>3. FilesTypeOK
  BY <1>1, <1>2, EmptyIsSeq DEF FilesInit, FilesTypeOK, SourceIInv
<1> QED
  BY <1>1, <1>3 DEF FilesInit, FilesIInv, Committed

\* What the properties say of the files only changes with them.
LEMMA FilesSame ==
    ASSUME UNCHANGED <<scaffoldFits, manifest, generated_artifacts, committed>>
    PROVE  /\ ReadFits(generated_artifacts)' <=> ReadFits(generated_artifacts)
           /\ ArtifactsHave' <=> ArtifactsHave
           /\ \A p : Fits(committed[p])' <=> Fits(committed[p])
           /\ \A p : Expected(p)' = Expected(p)
           /\ Healthy(committed)' <=> Healthy(committed)
           /\ Committed' <=> Committed
<1>1. \A p : Newest(generated_artifacts, p)' = Newest(generated_artifacts, p)
  BY DEF Newest
<1>2. \A t : Fits(t)' <=> Fits(t)
  BY DEF Fits
<1>3. \A p : Expected(p)' = Expected(p)
  BY DEF Expected
<1>4. Healthy(committed)' <=> Healthy(committed)
  BY DEF Healthy, HasAny, Has
<1>5. ReadFits(generated_artifacts)' <=> ReadFits(generated_artifacts)
  BY <1>1, <1>2 DEF ReadFits, Fits
<1>6. ArtifactsHave' <=> ArtifactsHave
  BY <1>1, <1>3 DEF ArtifactsHave
<1> QED
  BY <1>2, <1>3, <1>4, <1>5, <1>6 DEF Committed, Fits

LEMMA GenerateFilesStep ==
    ASSUME FilesIInv, GenerateFiles, SourceIInv', PromptIsBounded' PROVE FilesIInv'
<1>1. manifest' \in Seq(Entries)
  <2>1. \A e \in BoundedSeq(Entries, MaxEntries) : e \in Seq(Entries)
    BY PathsAssumption DEF BoundedSeq
  <2> QED
    BY <2>1 DEF GenerateFiles
<1>2. Hydrated(manifest') \in FileLists
  BY <1>1, HydratedHas, PathFacts
<1>3. generated_artifacts' = <<Hydrated(manifest')>>
  BY DEF GenerateFiles
<1>4. generated_artifacts' \in Seq(FileLists)
  BY <1>2, <1>3, FileListTypes
<1>5. ~Committed /\ committed' = committed /\ links' = links /\ stage' = "validate_mvp"
  BY DEF GenerateFiles, FilesIInv
<1>6. ~Committed'
  BY <1>5 DEF Committed
<1>7. FilesTypeOK'
  BY <1>1, <1>4 DEF GenerateFiles, FilesIInv, FilesTypeOK, SourceIInv
<1> QED
  BY <1>3, <1>5, <1>6, <1>7 DEF FilesIInv, Hydrated

LEMMA DebugStep ==
    ASSUME FilesIInv, DebugGeneratedFiles, SourceIInv', PromptIsBounded'
    PROVE  FilesIInv'
<1>. PICK h : h = Hydrated(manifest)
  OBVIOUS
<1>1. generated_artifacts = <<h>> /\ ReadFits(generated_artifacts)
  BY DEF DebugGeneratedFiles, FilesIInv
<1>2. manifest \in Seq(Entries) /\ manifest' = manifest /\ scaffoldFits' = scaffoldFits
  BY DEF DebugGeneratedFiles, FilesIInv, FilesTypeOK
<1>3. h \in FileLists
  BY <1>2, HydratedHas, PathFacts
<1>4. generated_artifacts' = generated_artifacts \o generated_artifacts
                                \o <<[NoFiles EXCEPT ![DebugReport] = "report"]>>
  BY DEF DebugGeneratedFiles
<1>5. generated_artifacts' \in Seq(FileLists)
  <2>1. [NoFiles EXCEPT ![DebugReport] = "report"] \in FileLists
    BY DEF NoFiles, FileLists, Texts
  <2> QED
    BY <1>1, <1>3, <1>4, <2>1, FileListTypes
<1>6. ASSUME NEW p \in Paths, p # DebugReport
      PROVE  /\ Newest(generated_artifacts', p) = Newest(generated_artifacts, p)
             /\ Newest(generated_artifacts', p) = h[p]
  <2>1. Newest(generated_artifacts', p) = Newest(generated_artifacts, p)
    <3>. PICK lists, again : lists = generated_artifacts /\ again = generated_artifacts'
      OBVIOUS
    <3>1. lists = <<h>> /\ again = lists \o lists \o
                                     <<[NoFiles EXCEPT ![DebugReport] = "report"]>>
      BY <1>1, <1>4
    <3>2. Newest(again, p) = Newest(lists, p)
      BY <1>6, <3>1, NewestAgain
    <3> QED
      BY <3>2
  <2>2. Newest(generated_artifacts, p) = h[p]
    BY <1>1, NewestOfOne
  <2> QED
    BY <2>1, <2>2
<1>7. ReadFits(generated_artifacts)'
  <2> SUFFICES ASSUME NEW p \in ReadPaths PROVE Fits(Newest(generated_artifacts, p))'
    BY DEF ReadFits
  <2>1. Newest(generated_artifacts', p) = Newest(generated_artifacts, p)
    BY <1>6, ReadPathsFacts
  <2>2. Fits(Newest(generated_artifacts, p))
    BY <1>1 DEF ReadFits
  <2> QED
    BY <1>2, <2>1, <2>2 DEF Fits
<1>8. ArtifactsHave'
  <2> SUFFICES ASSUME NEW p \in Paths PROVE Newest(generated_artifacts', p) = Expected(p)'
    BY DEF ArtifactsHave
  <2>1. Expected(p)' = Expected(p)
    BY <1>2 DEF Expected
  <2>2. CASE p = DebugReport
    BY <1>1, <1>2, <1>4, <2>1, <2>2, NewestOfReport, ExpectedIs
  <2>3. CASE p # DebugReport
    BY <1>2, <1>6, <2>1, <2>3, ExpectedIs
  <2> QED
    BY <2>2, <2>3
<1>9. /\ ~Committed /\ committed' = committed /\ links' = links
      /\ stage' = "commit_progress"
  BY DEF DebugGeneratedFiles, FilesIInv
<1>10. ~Committed'
  BY <1>9 DEF Committed
<1>11. FilesTypeOK'
  BY <1>5 DEF DebugGeneratedFiles, FilesIInv, FilesTypeOK, SourceIInv
<1> QED
  BY <1>7, <1>8, <1>9, <1>10, <1>11 DEF FilesIInv

LEMMA CommitStep ==
    ASSUME FilesIInv, CommitProgress, SourceIInv', PromptIsBounded'
    PROVE  FilesIInv'
<1>. PICK lists : lists = generated_artifacts
  OBVIOUS
<1>. PICK files : files = MergeRepoHealthScaffold(FilesFrom(lists))
  OBVIOUS
<1>1. /\ committed' \in {files, committed} /\ stage' \in {"verify_build", "failed"}
      /\ stage' = "verify_build" => committed' = files
      /\ UNCHANGED <<scaffoldFits, manifest, generated_artifacts, mvp_validation, links>>
  BY DEF CommitProgress
<1>2. manifest \in Seq(Entries) /\ ~Committed
  BY DEF CommitProgress, FilesIInv, FilesTypeOK
<1>3. \A p \in Paths : FilesFrom(lists)[p] = Expected(p)
  BY DEF CommitProgress, FilesIInv, ArtifactsHave, FilesFrom
<1>4. \A p \in Scaffold : Has(FilesFrom(lists), p)
  BY <1>2, <1>3, ExpectedFacts, PathFacts DEF Has
<1>5. \A p \in Paths : files[p] = Expected(p)
  BY <1>3, <1>4, MergeKeeps
<1>6. Healthy(files)
  BY MergeHeals
<1>7. \A p \in ReadPaths : Fits(files[p])
  <2> SUFFICES ASSUME NEW p \in ReadPaths PROVE Fits(files[p])
    OBVIOUS
  <2>1. p \in Paths /\ Fits(Newest(lists, p))
    BY ReadPathsFacts DEF CommitProgress, FilesIInv, ReadFits
  <2>2. Newest(lists, p) = Expected(p)
    BY <2>1 DEF CommitProgress, FilesIInv, ArtifactsHave
  <2> QED
    BY <1>5, <2>1, <2>2
<1>8. files \in FileLists
  <2>1. \A p \in Paths : files[p] \in Texts \cup {"none"}
    BY <1>2, <1>5, ExpectedFacts
  <2>2. files = [p \in Paths |-> files[p]]
    BY DEF MergeRepoHealthScaffold
  <2> QED
    BY <2>1, <2>2 DEF FileLists
<1>9. files # NoFiles
  <2>1. files["README.md"] # "none" /\ "README.md" \in Paths
    BY <1>6, ReadPathsFacts DEF Healthy, Has, ReadPaths
  <2> QED
    BY <2>1 DEF NoFiles
<1>10. FilesTypeOK'
  BY <1>1, <1>8 DEF FilesIInv, FilesTypeOK, SourceIInv
<1>11. CASE committed' = committed
  <2>1. ~Committed' /\ links' = links /\ stage' = "failed"
    BY <1>1, <1>2, <1>9, <1>11 DEF Committed
  <2>2. links = {}
    BY <1>2 DEF FilesIInv
  <2> QED
    BY <1>10, <2>1, <2>2 DEF FilesIInv
<1>12. CASE committed' = files
  <2>1. Committed'
    BY <1>9, <1>12 DEF Committed
  <2>2. ArtifactsHave'
    <3>1. \A p : Expected(p)' = Expected(p) /\ Newest(generated_artifacts, p)' = Newest(lists, p)
      BY <1>1 DEF Expected, Newest
    <3> QED
      BY <3>1 DEF CommitProgress, FilesIInv, ArtifactsHave
  <2>3. \A p \in Paths : committed'[p] = Expected(p)'
    <3>1. \A p : Expected(p)' = Expected(p)
      BY <1>1 DEF Expected
    <3> QED
      BY <1>5, <1>12, <3>1
  <2>4. Healthy(committed)'
    BY <1>6, <1>12 DEF Healthy, HasAny, Has
  <2>5. \A p \in ReadPaths : Fits(committed[p])'
    BY <1>1, <1>7, <1>12 DEF Fits
  <2> QED
    BY <1>1, <1>10, <2>1, <2>2, <2>3, <2>4, <2>5 DEF FilesIInv
<1> QED
  BY <1>1, <1>11, <1>12

\* The steps that leave the files alone.
LEMMA OtherStep ==
    ASSUME FilesIInv, SourceIInv', PromptIsBounded',
           \/ RetrieveContext \/ ValidateMvp \/ VerifyBuild \/ GenerateFinalPackage
           \/ UNCHANGED allVars
    PROVE  FilesIInv'
<1>1. UNCHANGED <<scaffoldFits, manifest, generated_artifacts, committed>>
  BY DEF RetrieveContext, ValidateMvp, VerifyBuild, GenerateFinalPackage, allVars, fileVars
<1>2. Hydrated(manifest)' = Hydrated(manifest)
  BY <1>1 DEF Hydrated
<1>3. CASE RetrieveContext
  <2>1. /\ stage = "retrieve_context" /\ stage' \in {"retrieve_context", "generate_files"}
        /\ UNCHANGED <<mvp_validation, links>> /\ ~Committed
    BY <1>3 DEF RetrieveContext, FilesIInv
  <2>2. FilesTypeOK'
    BY <1>1, <2>1 DEF FilesIInv, FilesTypeOK, SourceIInv
  <2> QED
    BY <1>1, <2>1, <2>2, FilesSame DEF FilesIInv
<1>4. CASE ValidateMvp
  <2>1. /\ stage = "validate_mvp" /\ UNCHANGED links /\ ~Committed
        /\ mvp_validation' \in {FALSE, FilesPass(generated_artifacts)}
        /\ stage' = IF mvp_validation' THEN "debug_generated_files" ELSE "failed"
    BY <1>4 DEF ValidateMvp, FilesIInv
  <2>2. FilesPass(generated_artifacts) \in BOOLEAN
    BY DEF FilesPass
  <2>3. FilesTypeOK'
    BY <1>1, <2>1, <2>2 DEF FilesIInv, FilesTypeOK, SourceIInv
  <2>4. stage' = "debug_generated_files" => ReadFits(generated_artifacts)
    BY <2>1 DEF FilesPass, ReadFits
  <2> QED
    BY <1>1, <1>2, <2>1, <2>3, <2>4, FilesSame DEF FilesIInv
<1>5. CASE VerifyBuild
  <2>1. /\ stage = "verify_build" /\ stage' \in {"generate_final_package", "failed"}
        /\ UNCHANGED <<mvp_validation, links>> /\ Committed
    BY <1>5 DEF VerifyBuild, FilesIInv
  <2>2. FilesTypeOK'
    BY <1>1, <2>1 DEF FilesIInv, FilesTypeOK, SourceIInv
  <2> QED
    BY <1>1, <2>1, <2>2, FilesSame DEF FilesIInv
<1>6. CASE GenerateFinalPackage
  <2>1. /\ stage = "generate_final_package" /\ stage' = "completed"
        /\ UNCHANGED mvp_validation /\ Committed /\ links' = LinkedPaths
    BY <1>6 DEF GenerateFinalPackage, FilesIInv, LinkedPaths
  <2>2. LinkedPaths \subseteq Paths
    BY DEF LinkedPaths, Paths, Scaffold
  <2>3. FilesTypeOK'
    BY <1>1, <2>1, <2>2 DEF FilesIInv, FilesTypeOK, SourceIInv
  <2> QED
    BY <1>1, <2>1, <2>3, FilesSame DEF FilesIInv
<1>7. CASE UNCHANGED allVars
  <2>1. UNCHANGED <<stage, mvp_validation, links>>
    BY <1>7 DEF allVars, fileVars
  <2>2. FilesTypeOK'
    BY <1>1, <2>1 DEF FilesIInv, FilesTypeOK, SourceIInv
  <2> QED
    BY <1>1, <1>2, <2>1, <2>2, FilesSame DEF FilesIInv
<1> QED
  BY <1>3, <1>4, <1>5, <1>6, <1>7

LEMMA FilesNextIInv == FilesIInv /\ [FilesNext]_allVars => FilesIInv'
<1> SUFFICES ASSUME FilesIInv, [FilesNext]_allVars PROVE FilesIInv'
  OBVIOUS
<1>1. [SourceNext]_sourceVars
  BY DEF FilesNext, RetrieveContext, GenerateFiles, ValidateMvp, DebugGeneratedFiles,
         CommitProgress, VerifyBuild, GenerateFinalPackage, allVars
<1>2. SourceIInv' /\ PromptIsBounded'
  BY <1>1, SourceNextIInv, PromptNext DEF FilesIInv
<1> QED
  BY <1>2, GenerateFilesStep, DebugStep, CommitStep, OtherStep DEF FilesNext

LEMMA FilesInvariance == FilesSpec => []FilesIInv
BY FilesInitIInv, FilesNextIInv, PTL DEF FilesSpec

-----------------------------------------------------------------------------
\* Each source that was visited is in the prompts with all its text, or the
\* user is warned of it, and never both (_SourceBudget.take and its callers).
THEOREM SourcesAreToldOrRead == FilesSpec => []SourcesAreAccounted
<1>1. FilesIInv => SourcesAreAccounted
  BY DEF FilesIInv, SourceIInv
<1> QED
  BY <1>1, FilesInvariance, PTL

\* The context of the sources, the files and the verdict keep their types.
THEOREM FilesTypeCorrect == FilesSpec => []FilesTypeOK
<1>1. FilesIInv => FilesTypeOK
  BY DEF FilesIInv
<1> QED
  BY <1>1, FilesInvariance, PTL

\* The characters of all summaries are what the budget counts, and within it,
\* for any texts in any order (_SourceBudget.take).
THEOREM PromptsAreBounded == FilesSpec => []PromptIsBounded
<1>1. FilesIInv => PromptIsBounded
  BY DEF FilesIInv
<1> QED
  BY <1>1, FilesInvariance, PTL

\* What is committed would pass the health check, whatever the manifest was
\* (merge_repo_health_scaffold against verify_repository).
THEOREM CommitsAreHealthy == FilesSpec => []CommittedIsHealthy
<1>1. FilesIInv => CommittedIsHealthy
  BY DEF FilesIInv, CommittedIsHealthy
<1> QED
  BY <1>1, FilesInvariance, PTL

\* What is committed under a path of the scaffold is what the artifacts have,
\* and under a path that the validation reads it fits: neither the second
\* listing, nor the report, nor the scaffold of the health check comes between.
THEOREM ValidatedFilesAreCommitted == FilesSpec => []ValidatedIsCommitted
<1>1. FilesIInv => ValidatedIsCommitted
  BY PathFacts DEF FilesIInv, ValidatedIsCommitted, ArtifactsHave
<1> QED
  BY <1>1, FilesInvariance, PTL

\* A commit has of every path what the last entry of the manifest that counts
\* says, or the scaffold, for manifests of any length (hydrate_file_manifest to
\* _files_from_generated_artifacts).
THEOREM ManifestsAreCommitted == FilesSpec => []ManifestIsCommitted
<1>1. FilesIInv => ManifestIsCommitted
  BY DEF FilesIInv, ManifestIsCommitted
<1> QED
  BY <1>1, FilesInvariance, PTL

\* The final report links only paths that are in the commit
\* (generate_final_package).
THEOREM LinksAlwaysResolve == FilesSpec => []LinksResolve
<1>1. FilesIInv => LinksResolve
  <2> SUFFICES ASSUME FilesIInv, NEW p \in links PROVE Has(committed, p)
    BY DEF LinksResolve
  <2>1. p \in Scaffold /\ p \in Paths
    <3>1. p \in LinkedPaths
      BY DEF FilesIInv
    <3> QED
      BY <3>1, PathFacts DEF LinkedPaths, Scaffold
  <2>2. Committed /\ manifest \in Seq(Entries)
    BY DEF FilesIInv, FilesTypeOK
  <2>3. committed[p] = Expected(p)
    BY <2>1, <2>2 DEF FilesIInv
  <2> QED
    BY <2>1, <2>2, <2>3, ExpectedFacts DEF Has
<1> QED
  BY <1>1, FilesInvariance, PTL
=============================================================================
