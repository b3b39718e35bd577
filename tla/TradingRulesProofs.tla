------------------------- MODULE TradingRulesProofs -------------------------
(***************************************************************************)
(* What an APPROVED verdict implies, for any facts, any option and any     *)
(* limits; that the AI strategy is never approved without a human; that    *)
(* the option selected is the best of any list; and that the sliding sums  *)
(* of the indicators are the sums of their windows, for any candles,       *)
(* however many.                                                           *)
(***************************************************************************)
EXTENDS TradingRules, SequenceTheorems, WellFoundedInduction, TLAPS

Tiered(findings) == \A x \in findings : x[1] \in Tiers

\* A control, met or not, yields nothing or a finding of its tier.
LEMMA ControlsAreTiered ==
  ASSUME NEW k PROVE Reject(k)[1] \in Tiers /\ Ask(k)[1] \in Tiers
  BY DEF Reject, Ask, Tiers

\* Every finding has one of the two tiers.
LEMMA FindingsHaveTiers ==
  ASSUME NEW f PROVE Tiered(Findings(f))
<1>1. Tiered(StateFindings(f)) /\ Tiered(ExposureFindings(f)) /\ Tiered(ProtectionFindings(f))
  <2>1. Tiered(StateFindings(f))
    BY ControlsAreTiered, Zenon DEF StateFindings, When, Tiered
  <2>2. Tiered(ExposureFindings(f))
    BY ControlsAreTiered, Zenon DEF ExposureFindings, When, Tiered
  <2>3. Tiered(ProtectionFindings(f))
    BY ControlsAreTiered, Zenon DEF ProtectionFindings, When, Tiered
  <2> QED
    BY <2>1, <2>2, <2>3
<1>2. Tiered(CashFindings(f))
  BY ControlsAreTiered, Zenon DEF CashFindings, When, Tiered
<1>3. Tiered(OptionFindings(f))
  <2>1. Tiered(ContractFindings(f))
    BY ControlsAreTiered, Zenon DEF ContractFindings, When, Tiered
  <2>2. Tiered(PriceFindings(f))
    BY ControlsAreTiered, Zenon DEF PriceFindings, When, Tiered
  <2> QED
    BY <1>2, <2>1, <2>2, ControlsAreTiered, Zenon DEF OptionFindings, Tiered
<1>4. Tiered(UnverifiableFindings)
  BY ControlsAreTiered, Zenon DEF UnverifiableFindings, Tiered
<1> QED
  BY <1>1, <1>3, <1>4 DEF Findings, CommonFindings, Tiered

\* The worst tier decides: one rejection outweighs everything, and only the absence
\* of findings approves.
LEMMA WorstTierDecides ==
  ASSUME NEW F, Tiered(F)
  PROVE  /\ CombineOutcome(F) = "APPROVED" <=> F = {}
         /\ CombineOutcome(F) = "REJECTED" <=> \E x \in F : x[1] = "REJECTED"
<1> DEFINE Worst(t) == \A x \in F : Precedence[x[1]] <= Precedence[t]
<1>1. ASSUME NEW y \in F, y[1] = "REJECTED" PROVE CombineOutcome(F) = "REJECTED"
  <2>1. Worst("REJECTED") /\ "REJECTED" \in {x[1] : x \in F}
    BY <1>1 DEF Precedence, Tiers, Tiered
  <2>2. \A t \in {x[1] : x \in F} : Worst(t) => t = "REJECTED"
    BY <1>1 DEF Precedence, Tiers, Tiered
  <2> QED
    BY <1>1, <2>1, <2>2 DEF CombineOutcome
<1>2. ASSUME F # {}, \A x \in F : x[1] # "REJECTED" PROVE CombineOutcome(F) = "REQUIRES_APPROVAL"
  <2>1. \A x \in F : x[1] = "REQUIRES_APPROVAL"
    BY <1>2 DEF Tiers, Tiered
  <2>2. {x[1] : x \in F} = {"REQUIRES_APPROVAL"}
    BY <1>2, <2>1
  <2>3. Worst("REQUIRES_APPROVAL")
    BY <2>1 DEF Precedence
  <2> QED
    BY <1>2, <2>2, <2>3 DEF CombineOutcome
<1>3. F = {} => CombineOutcome(F) = "APPROVED"
  BY DEF CombineOutcome
<1> QED
  BY <1>1, <1>2, <1>3

\* The veto of the kill switch and of the status cannot be outweighed, an order for
\* shares is never approved, and an approved option is the right kind of contract.
THEOREM ApprovedIsVetted ==
  ASSUME NEW f, Verdict(f) = "APPROVED"
  PROVE  /\ ~f.switch /\ f.status = "ACTIVE" /\ ~f.cooling /\ f.age = "fresh"
         /\ ~f.flagged /\ (f.ai => f.humanApproval)
         /\ f.option \notin {NoInstrument, Malformed}
         /\ f.option.type = ExpectedType(f.signal)
<1>1. Findings(f) = {}
  BY FindingsHaveTiers, WorstTierDecides DEF Verdict
<1>2. CommonFindings(f) = {} /\ OptionFindings(f) = {}
  BY <1>1 DEF Findings
<1>3. f.option # NoInstrument
  BY <1>1 DEF Findings, UnverifiableFindings
<1>4. ~f.switch /\ f.status = "ACTIVE" /\ ~f.cooling /\ f.age = "fresh" /\ ~f.flagged
  BY <1>2 DEF CommonFindings, StateFindings, ExposureFindings, ProtectionFindings, When
<1>5. f.ai => f.humanApproval
  BY <1>2 DEF CommonFindings, ProtectionFindings, When, ProtectionMissing
<1>6. f.option # Malformed
  BY <1>2, <1>3 DEF OptionFindings
<1>7. f.option.type = ExpectedType(f.signal)
  BY <1>2, <1>3, <1>6 DEF OptionFindings, ContractFindings, When
<1> QED
  BY <1>3, <1>4, <1>5, <1>6, <1>7

Asked == "requires_human_approval" \in proposal.flags

\* A directional proposal of an AI strategy that asks for a human is flagged, unless its
\* flags were not all strings, and the flag is still there when the controls read it.
IInv ==
  /\ stage \in {"candles", "proposed", "attached", "decided"}
  /\ stage \in {"candles", "proposed"} => option = NoInstrument
  /\ (stage = "proposed" /\ ai /\ humanApproval /\ typed /\ proposal.signal # "HOLD") => Asked
  /\ (stage \in {"attached", "decided"} /\ ai /\ humanApproval /\ typed /\ option # NoInstrument) => Asked
  /\ stage = "decided" => facts.ai = ai /\ facts.flagged = Asked /\ facts.option = option

\* The flag is set by the engine and kept by _build_proposal, if all flags are strings.
LEMMA FlagSurvives ==
  ASSUME NEW answer \in Answers, AiOutput(answer, TRUE).wellTyped,
         BuildProposal(AiOutput(answer, TRUE)).signal # "HOLD"
  PROVE  "requires_human_approval" \in BuildProposal(AiOutput(answer, TRUE)).flags
<1>1. answer.kind = "valid"
  BY TradingAssumption DEF AiOutput, FallbackOutput, BuildProposal
<1> QED
  BY <1>1 DEF AiOutput, BuildProposal

\* No answer of the provider, typed or not, no parameters, edited or not, and no option
\* get a proposal of the AI strategy approved without a human, but for the two gaps
\* AiAsksForAHuman names: flags dropped for their type, parameters edited in between.
THEOREM AiKeepsAHumanInTheLoop == Spec => []AiAsksForAHuman
<1>1. Init => IInv
  BY DEF Init, IInv
<1>2. IInv /\ [Next]_vars => IInv'
  <2> SUFFICES ASSUME IInv, [Next]_vars PROVE IInv'
    OBVIOUS
  <2>1. CASE Candle
    BY <2>1 DEF IInv, Candle, Asked
  <2>2. CASE EvaluateCrossover \/ EvaluateRsi
    BY <2>2 DEF IInv, EvaluateCrossover, EvaluateRsi, Propose
  <2>3. CASE EvaluateAi
    <3>1. PICK answer \in Answers, asked \in BOOLEAN : Propose(TRUE, asked, AiOutput(answer, asked))
      BY <2>3 DEF EvaluateAi
    <3>2. (asked /\ typed' /\ proposal'.signal # "HOLD") => Asked'
      BY <3>1, FlagSurvives DEF Propose, Asked
    <3> QED
      BY <3>1, <3>2 DEF IInv, Propose
  <2>4. CASE AttachOption
    <3>1. CASE proposal.signal = "HOLD"
      BY <2>4, <3>1 DEF IInv, AttachOption, Asked
    <3>2. CASE proposal.signal # "HOLD"
      <4>1. Asked => Asked'
        BY <2>4, <3>2 DEF AttachOption, Asked, Held
      <4> QED
        BY <2>4, <3>2, <4>1 DEF IInv, AttachOption
    <3> QED
      BY <3>1, <3>2
  <2>5. CASE Decide
    <3>1. PICK f \in Facts, day \in Days :
            facts' = [f EXCEPT !.ai = ai, !.flagged = Asked, !.signal = proposal.signal,
                               !.option = option, !.today = day]
      BY <2>5 DEF Decide, Asked
    <3>2. facts'.ai = ai /\ facts'.flagged = Asked /\ facts'.option = option
      BY <3>1, TradingAssumption DEF FactNames
    <3> QED
      BY <2>5, <3>1, <3>2 DEF IInv, Decide, Asked
  <2>6. CASE UNCHANGED vars
    BY <2>6 DEF IInv, vars, Asked
  <2> QED
    BY <2>1, <2>2, <2>3, <2>4, <2>5, <2>6 DEF Next
<1>3. IInv => AiAsksForAHuman
  <2> SUFFICES ASSUME IInv, stage = "decided", ai, Verdict(facts) = "APPROVED", typed
               PROVE  facts.humanApproval # humanApproval
    BY DEF AiAsksForAHuman
  <2>1. facts.option # NoInstrument /\ ~facts.flagged /\ (facts.ai => facts.humanApproval)
    BY ApprovedIsVetted
  <2> QED
    BY <2>1 DEF IInv, Asked
<1> QED
  BY <1>1, <1>2, <1>3, PTL DEF Spec

-----------------------------------------------------------------------------
(***************************************************************************)
(* Induction.  The induction theorems of the library take an operator as a *)
(* parameter; here the same is said of sets of numbers, and rests on their *)
(* well-foundedness.                                                       *)
(***************************************************************************)
NatOrder == {ss \in Nat \X Nat : ss[1] < ss[2]}

\* Less-than has no infinite descent.
LEMMA NatOrderIsWellFounded == IsWellFoundedOn(NatOrder, Nat)
<1>1. OpToRel(<, Nat) = NatOrder
  BY Zenon DEF OpToRel, NatOrder
<1> QED BY <1>1, NatLessThanWellFounded, Zenon

\* A non-empty set of numbers has a least element.
LEMMA LeastElement ==
  ASSUME NEW S, S \subseteq Nat, S # {}
  PROVE  \E m \in S : \A k \in S : m <= k
<1>1. PICK x \in S : \A y \in S : ~ (<<y, x>> \in NatOrder)
  BY NatOrderIsWellFounded, WFMin, Zenon
<1>2. \A y \in S : ~ (y < x)
  BY <1>1 DEF NatOrder
<1> QED BY <1>2

\* What holds of 0 and, up to n, of the successor of what it holds of, holds up to n.
LEMMA InductionUpTo ==
  ASSUME NEW n \in Nat, NEW S, 0 \in S, \A i \in 1 .. n : i - 1 \in S => i \in S
  PROVE  \A i \in 0 .. n : i \in S
<1> SUFFICES ASSUME NEW j \in 0 .. n, j \notin S PROVE FALSE
  OBVIOUS
<1>1. PICK T : T = {i \in 0 .. n : i \notin S}
  OBVIOUS
<1>2. T \subseteq Nat /\ T # {}
  BY <1>1
<1>3. PICK m \in T : \A k \in T : m <= k
  BY <1>2, LeastElement
<1>4. m \in 1 .. n /\ m - 1 \notin T /\ m - 1 \in 0 .. n
  BY <1>1, <1>3
<1> QED BY <1>1, <1>3, <1>4

\* g is given by its first value and its steps.
Recursion(n, base, step, g) ==
  g = [i \in 0 .. n |-> IF i = 0 THEN base ELSE step[<<i, g[i - 1]>>]]

\* There is such a function, whatever the first value and the steps.
LEMMA RecursionExists ==
  ASSUME NEW n \in Nat, NEW V, NEW base \in V, NEW step \in [(1 .. n) \X V -> V]
  PROVE  \E g \in [0 .. n -> V] : Recursion(n, base, step, g)
<1> DEFINE Prefix(m, g) == \A i \in 0 .. m : g[i] = IF i = 0 THEN base ELSE step[<<i, g[i - 1]>>]
<1>1. PICK S : S = {m \in 0 .. n : \E g \in [0 .. m -> V] : Prefix(m, g)}
  OBVIOUS
<1>2. 0 \in S
  <2>1. PICK g : g = [i \in 0 .. 0 |-> base]
    OBVIOUS
  <2>2. g \in [0 .. 0 -> V]
    BY <2>1
  <2>3. Prefix(0, g)
    BY <2>1
  <2>4. \E h \in [0 .. 0 -> V] : Prefix(0, h)
    BY <2>2, <2>3
  <2>5. 0 \in 0 .. n
    OBVIOUS
  <2> HIDE DEF Prefix
  <2> QED BY <1>1, <2>4, <2>5
<1>3. ASSUME NEW m \in 1 .. n, m - 1 \in S
      PROVE  m \in S
  <2>1. PICK g \in [0 .. m - 1 -> V] : Prefix(m - 1, g)
    BY <1>1, <1>3
  <2>2. PICK h : h = [i \in 0 .. m |-> IF i = m THEN step[<<m, g[m - 1]>>] ELSE g[i]]
    OBVIOUS
  <2>3. h \in [0 .. m -> V]
    BY <2>2
  <2>4. ASSUME NEW i \in 0 .. m
        PROVE  h[i] = IF i = 0 THEN base ELSE step[<<i, h[i - 1]>>]
    <3>1. CASE i = m
      <4>1. h[m - 1] = g[m - 1] /\ h[m] = step[<<m, g[m - 1]>>]
        BY <2>2
      <4> QED BY <3>1, <4>1
    <3>2. CASE i # m
      <4>1. i \in 0 .. m - 1 /\ h[i] = g[i] /\ (i # 0 => h[i - 1] = g[i - 1])
        BY <2>2, <3>2
      <4> QED BY <2>1, <4>1
    <3> QED BY <3>1, <3>2
  <2>5. Prefix(m, h) /\ m \in 0 .. n
    BY <2>4
  <2> HIDE DEF Prefix
  <2> QED BY <1>1, <2>3, <2>5
<1>4. n \in S
  BY <1>2, <1>3, InductionUpTo
<1>5. PICK g \in [0 .. n -> V] : Prefix(n, g)
  BY <1>1, <1>4
<1> QED BY <1>5 DEF Recursion

-----------------------------------------------------------------------------
\* The place of the best so far of those in E.
Scan(n, E, R, f) ==
  f = [i \in 0 .. n |->
        IF i = 0 THEN 0
        ELSE IF i \in E /\ (f[i - 1] = 0 \/ <<i, f[i - 1]>> \in R) THEN i ELSE f[i - 1]]

\* There is such a scan.
LEMMA ScanExists ==
  ASSUME NEW n \in Nat, NEW E, NEW R
  PROVE  \E f \in [0 .. n -> Nat] : Scan(n, E, R, f)
<1>1. PICK step : step = [p \in (1 .. n) \X Nat |->
                           IF p[1] \in E /\ (p[2] = 0 \/ <<p[1], p[2]>> \in R) THEN p[1] ELSE p[2]]
  OBVIOUS
<1>2. step \in [(1 .. n) \X Nat -> Nat]
  BY <1>1
<1>3. PICK g \in [0 .. n -> Nat] : Recursion(n, 0, step, g)
  <2>1. PICK V : V = Nat
    OBVIOUS
  <2>2. PICK base \in V : base = 0
    BY <2>1
  <2>3. step \in [(1 .. n) \X V -> V]
    BY <1>2, <2>1
  <2>4. \E g \in [0 .. n -> V] : Recursion(n, base, step, g)
    BY <2>3, RecursionExists
  <2> QED BY <2>1, <2>2, <2>4
<1>4. \A i \in 0 .. n : g[i] = IF i = 0 THEN 0 ELSE step[<<i, g[i - 1]>>]
  BY <1>3 DEF Recursion
<1>5. ASSUME NEW i \in 0 .. n
      PROVE  g[i] = IF i = 0 THEN 0
                    ELSE IF i \in E /\ (g[i - 1] = 0 \/ <<i, g[i - 1]>> \in R) THEN i ELSE g[i - 1]
  <2>1. CASE i = 0
    BY <1>4, <2>1
  <2>2. CASE i # 0
    <3>1. i \in 1 .. n /\ g[i - 1] \in Nat /\ g[i] = step[<<i, g[i - 1]>>]
      BY <1>4, <2>2
    <3> QED BY <1>1, <2>2, <3>1
  <2> QED BY <2>1, <2>2
<1>6. g \in [0 .. n -> Nat] /\ Scan(n, E, R, g)
  BY <1>5 DEF Scan
<1> QED BY <1>6

\* Under any strict order R, the scan ends on a member of E that none comes before.
LEMMA ScanFindsBest ==
  ASSUME NEW n \in Nat, NEW E, E \subseteq 1 .. n, NEW R,
         \A i \in E : <<i, i>> \notin R,
         \A i, j, k \in E : <<i, j>> \in R /\ <<j, k>> \in R => <<i, k>> \in R,
         NEW f, Scan(n, E, R, f)
  PROVE  \A i \in 0 .. n :
           /\ f[i] = 0 => \A j \in E : j > i
           /\ f[i] # 0 => f[i] \in E /\ \A j \in E : j <= i => <<j, f[i]>> \notin R
<1> DEFINE Best(i) ==
      /\ f[i] = 0 => \A j \in E : j > i
      /\ f[i] # 0 => f[i] \in E /\ \A j \in E : j <= i => <<j, f[i]>> \notin R
<1>1. PICK S : S = {i \in 0 .. n : Best(i)}
  OBVIOUS
<1>2. \A i \in 0 .. n :
        f[i] = IF i = 0 THEN 0
               ELSE IF i \in E /\ (f[i - 1] = 0 \/ <<i, f[i - 1]>> \in R) THEN i ELSE f[i - 1]
  BY DEF Scan
<1> \A j \in E : j \in Nat /\ j > 0
  OBVIOUS
<1>3. 0 \in S
  <2>1. 0 \in 0 .. n
    OBVIOUS
  <2>2. f[0] = 0
    BY <1>2, <2>1
  <2> QED BY <1>1, <2>1, <2>2
<1>4. ASSUME NEW i \in 1 .. n, i - 1 \in S
      PROVE  i \in S
  <2>1. Best(i - 1) /\ i \in 0 .. n /\ i # 0
    BY <1>1, <1>4
  <2>2. \A j \in E : j <= i <=> j <= i - 1 \/ j = i
    OBVIOUS
  <2>3. CASE i \in E /\ f[i - 1] = 0
    <3>1. f[i] = i
      BY <1>2, <2>1, <2>3
    <3>2. \A j \in E : j <= i => j = i
      BY <2>1, <2>2, <2>3
    <3>3. Best(i)
      BY <2>3, <3>1, <3>2
    <3> QED BY <1>1, <2>1, <3>3
  <2>4. CASE i \in E /\ f[i - 1] # 0 /\ <<i, f[i - 1]>> \in R
    <3>1. f[i] = i
      BY <1>2, <2>1, <2>4
    <3>2. ASSUME NEW j \in E, j <= i
          PROVE  <<j, i>> \notin R
      <4>1. CASE j = i
        BY <4>1
      <4>2. CASE j # i
        <5>1. <<j, f[i - 1]>> \notin R /\ f[i - 1] \in E
          BY <2>1, <2>2, <2>4, <3>2, <4>2
        <5>2. PICK k \in E : k = f[i - 1]
          BY <5>1
        <5>3. <<i, k>> \in R /\ <<j, k>> \notin R /\ i \in E
          BY <2>4, <5>1, <5>2
        <5>4. <<j, i>> \in R /\ <<i, k>> \in R => <<j, k>> \in R
          BY <5>3, Zenon
        <5> QED BY <5>3, <5>4
      <4> QED BY <4>1, <4>2
    <3>3. Best(i)
      BY <2>1, <2>4, <3>1, <3>2
    <3> QED BY <1>1, <2>1, <3>3
  <2>5. CASE i \in E /\ f[i - 1] # 0 /\ <<i, f[i - 1]>> \notin R
    <3>1. f[i] = f[i - 1]
      BY <1>2, <2>1, <2>5
    <3>2. \A j \in E : j <= i => <<j, f[i]>> \notin R
      BY <2>1, <2>2, <2>5, <3>1
    <3>3. Best(i)
      BY <2>1, <2>5, <3>1, <3>2
    <3> QED BY <1>1, <2>1, <3>3
  <2>6. CASE i \notin E
    <3>1. f[i] = f[i - 1]
      BY <1>2, <2>1, <2>6
    <3>2. \A j \in E : j <= i => j <= i - 1
      BY <2>2, <2>6
    <3>3. Best(i)
      BY <2>1, <2>6, <3>1, <3>2
    <3> QED BY <1>1, <2>1, <3>3
  <2> QED BY <2>3, <2>4, <2>5, <2>6
<1>5. \A i \in 0 .. n : i \in S
  BY <1>3, <1>4, InductionUpTo
<1> QED BY <1>1, <1>5

-----------------------------------------------------------------------------
\* What scores are made of.
Fractions == Int \X (Nat \ {0})

\* A positive factor keeps the order.
LEMMA ScaledOrder ==
  ASSUME NEW a \in Int, NEW b \in Int, NEW c \in Nat \ {0}
  PROVE  (a * c < b * c <=> a < b) /\ (a * c = b * c <=> a = b)
<1>1. a < b => a * c < b * c
  OBVIOUS
<1>2. b < a => b * c < a * c
  OBVIOUS
<1> QED BY <1>1, <1>2

\* Comparing cross products compares fractions.
LEMMA FractionsAreOrdered ==
  ASSUME NEW x \in Fractions, NEW y \in Fractions, NEW z \in Fractions
  PROVE  /\ ~Less(x, x)
         /\ Less(x, y) => ~Same(x, y)
         /\ Less(x, y) /\ Less(y, z) => Less(x, z)
         /\ Less(x, y) /\ Same(y, z) => Less(x, z)
         /\ Same(x, y) /\ Less(y, z) => Less(x, z)
         /\ Same(x, y) /\ Same(y, z) => Same(x, z)
<1>1. PICK a \in Int, b \in Nat \ {0}, c \in Int, d \in Nat \ {0}, e \in Int, g \in Nat \ {0} :
        x = <<a, b>> /\ y = <<c, d>> /\ z = <<e, g>>
  BY DEF Fractions
<1>2. \* over the common denominator
      PICK p \in Int, q \in Int, r \in Int : p = (a * d) * g /\ q = (c * b) * g /\ r = (e * b) * d
  OBVIOUS
<1>3. (Less(x, y) <=> p < q) /\ (Same(x, y) <=> p = q)
  BY <1>1, <1>2, ScaledOrder DEF Less, Same
<1>4. (Less(y, z) <=> q < r) /\ (Same(y, z) <=> q = r)
  <2>1. (c * g) * b = q /\ (e * d) * b = r /\ c * g \in Int /\ e * d \in Int
    BY <1>2
  <2> QED BY <1>1, <2>1, ScaledOrder DEF Less, Same
<1>5. (Less(x, z) <=> p < r) /\ (Same(x, z) <=> p = r)
  <2>1. (a * g) * d = p /\ (e * b) * d = r /\ a * g \in Int /\ e * b \in Int
    BY <1>2
  <2> QED BY <1>1, <2>1, ScaledOrder DEF Less, Same
<1>6. ~Less(x, x)
  BY <1>1 DEF Less
<1> QED BY <1>3, <1>4, <1>5, <1>6

\* The order of the scores is irreflexive and transitive.
LEMMA BeforeIsAnOrder ==
  ASSUME NEW s \in [1 .. 5 -> Fractions], NEW t \in [1 .. 5 -> Fractions], NEW u \in [1 .. 5 -> Fractions]
  PROVE  ~Before(s, s) /\ (Before(s, t) /\ Before(t, u) => Before(s, u))
<1>1. ~Before(s, s)
  BY FractionsAreOrdered DEF Before
<1>2. ASSUME Before(s, t), Before(t, u)
      PROVE  Before(s, u)
  <2>1. PICK i \in 1 .. 5 : Less(s[i], t[i]) /\ \A j \in 1 .. i - 1 : Same(s[j], t[j])
    BY <1>2 DEF Before
  <2>2. PICK k \in 1 .. 5 : Less(t[k], u[k]) /\ \A j \in 1 .. k - 1 : Same(t[j], u[j])
    BY <1>2 DEF Before
  <2>3. PICK m \in 1 .. 5 : m = IF i < k THEN i ELSE k
    OBVIOUS
  <2>4. \A j \in 1 .. m - 1 : j \in 1 .. 5 /\ Same(s[j], t[j]) /\ Same(t[j], u[j])
    BY <2>1, <2>2, <2>3
  <2>5. \A j \in 1 .. m - 1 : Same(s[j], u[j])
    BY <2>4, FractionsAreOrdered
  <2>6. Less(s[m], u[m])
    <3>1. CASE i < k
      BY <2>1, <2>2, <2>3, <3>1, FractionsAreOrdered
    <3>2. CASE k < i
      BY <2>1, <2>2, <2>3, <3>2, FractionsAreOrdered
    <3>3. CASE i = k
      BY <2>1, <2>2, <2>3, <3>3, FractionsAreOrdered
    <3> QED BY <3>1, <3>2, <3>3
  <2> QED BY <2>5, <2>6 DEF Before
<1> QED BY <1>1, <1>2

\* An eligible offer has a score that can be compared: the price and the quote it is
\* divided by are not zero.
LEMMA ScoresAreFractions ==
  ASSUME NEW o \in Offers, NEW signal, NEW p \in Int, p > 0, Eligible(o, signal, 0)
  PROVE  Score(o, p, 0) \in [1 .. 5 -> Fractions]
<1>1. /\ o.strike \in Nat /\ o.expiry \in Int /\ o.interest \in Nat /\ o.bid \in Nat /\ o.ask \in Nat
      /\ o.delta \in Nat \cup {NoDelta} /\ o.bid > 0 /\ o.ask > 0
  BY DEF Offers, Eligible, HasQuote
<1>2. Policy.minDte \in Nat /\ Policy.maxDte \in Nat /\ TargetDelta \in Nat
  BY PolicyAssumption DEF Bounds
<1>3. ASSUME NEW a \in Int, NEW b \in Int, NEW c \in Nat, c > 0
      PROVE  <<Distance(a, b), c>> \in Fractions
  <2>1. Distance(a, b) \in Int
    BY DEF Distance
  <2> QED BY <1>3, <2>1 DEF Fractions
<1>4. <<Distance(o.strike, p), p>> \in Fractions
  <2>1. o.strike \in Int /\ p \in Nat
    BY <1>1
  <2> QED BY <1>3, <2>1
<1>5. <<IF o.delta = NoDelta THEN 25 ELSE Distance(o.delta, TargetDelta), 100>> \in Fractions
  <2>1. CASE o.delta = NoDelta
    BY <2>1 DEF Fractions
  <2>2. CASE o.delta # NoDelta
    <3>1. o.delta \in Int /\ TargetDelta \in Int
      BY <1>1, <1>2, <2>2
    <3> QED BY <1>3, <2>2, <3>1
  <2> QED BY <2>1, <2>2
<1>6. <<Distance(2 * (o.expiry - 0), Policy.minDte + Policy.maxDte), 2>> \in Fractions
  <2>1. 2 * (o.expiry - 0) \in Int /\ Policy.minDte + Policy.maxDte \in Int
    BY <1>1, <1>2
  <2> QED BY <1>3, <2>1
<1>7. SpreadPct(o) \in Fractions
  BY <1>1 DEF SpreadPct, Fractions
<1>8. <<-o.interest, 1>> \in Fractions
  BY <1>1 DEF Fractions
<1>9. \A a, b, c, d, e \in Fractions : <<a, b, c, d, e>> \in [1 .. 5 -> Fractions]
  OBVIOUS
<1> QED BY <1>4, <1>5, <1>6, <1>7, <1>8, <1>9 DEF Score

\* The place min() finds is that of an eligible offer none of the list comes before,
\* and there is none only if no offer is eligible.
LEMMA BestOfIsBest ==
  ASSUME NEW list \in Seq(Offers), NEW signal, NEW p \in Int, p > 0,
         NEW best, best = BestOf(list, signal, p, 0)
  PROVE  /\ best = 0 => \A j \in DOMAIN list : ~Eligible(list[j], signal, 0)
         /\ best # 0 =>
              /\ best \in DOMAIN list /\ Eligible(list[best], signal, 0)
              /\ \A j \in DOMAIN list : Eligible(list[j], signal, 0) =>
                   ~Before(Score(list[j], p, 0), Score(list[best], p, 0))
<1> DEFINE n == Len(list)
<1>1. n \in Nat /\ DOMAIN list = 1 .. n /\ \A i \in 1 .. n : list[i] \in Offers
  OBVIOUS
<1>2. PICK E : E = {i \in 1 .. n : Eligible(list[i], signal, 0)}
  OBVIOUS
<1>3. PICK R : R = {r \in E \X E : Before(Score(list[r[1]], p, 0), Score(list[r[2]], p, 0))}
  OBVIOUS
<1>4. \A i \in E : Score(list[i], p, 0) \in [1 .. 5 -> Fractions]
  BY <1>1, <1>2, ScoresAreFractions
<1>5. \A i, j \in E : <<i, j>> \in R <=> Before(Score(list[i], p, 0), Score(list[j], p, 0))
  BY <1>3
<1>6. \A i \in E : <<i, i>> \notin R
  BY <1>4, <1>5, BeforeIsAnOrder
<1>7. \A i, j, k \in E : <<i, j>> \in R /\ <<j, k>> \in R => <<i, k>> \in R
  BY <1>4, <1>5, BeforeIsAnOrder
<1>8. PICK g \in [0 .. n -> Nat] : Scan(n, E, R, g)
  BY <1>1, ScanExists
<1>9. \A i \in 0 .. n :
        /\ g[i] = 0 => \A j \in E : j > i
        /\ g[i] # 0 => g[i] \in E /\ \A j \in E : j <= i => <<j, g[i]>> \notin R
  <2>1. E \subseteq 1 .. n
    BY <1>2
  <2> HIDE DEF n
  <2> QED BY <1>1, <1>6, <1>7, <1>8, <2>1, ScanFindsBest
<1> DEFINE Beats(i, j) == j = 0 \/ Before(Score(list[i], p, 0), Score(list[j], p, 0))
           Step(f) == [i \in 0 .. n |->
                        IF i = 0 THEN 0
                        ELSE IF Eligible(list[i], signal, 0) /\ Beats(i, f[i - 1]) THEN i ELSE f[i - 1]]
           b == CHOOSE f : f = Step(f)
<1>10. BestOf(list, signal, p, 0) = b[n]
  BY DEF BestOf
<1>11. g = Step(g)
  <2>1. ASSUME NEW i \in 0 .. n
        PROVE  g[i] = IF i = 0 THEN 0
                      ELSE IF Eligible(list[i], signal, 0) /\ Beats(i, g[i - 1]) THEN i ELSE g[i - 1]
    <3>1. g[i] = IF i = 0 THEN 0
                 ELSE IF i \in E /\ (g[i - 1] = 0 \/ <<i, g[i - 1]>> \in R) THEN i ELSE g[i - 1]
      BY <1>8 DEF Scan
    <3>2. CASE i = 0
      BY <3>1, <3>2
    <3>3. CASE i # 0
      <4>1. i \in 1 .. n /\ i - 1 \in 0 .. n /\ (i \in E <=> Eligible(list[i], signal, 0))
        BY <1>2, <3>3
      <4>2. g[i - 1] # 0 => g[i - 1] \in E
        BY <1>9, <4>1
      <4>3. i \in E => (g[i - 1] = 0 \/ <<i, g[i - 1]>> \in R <=> Beats(i, g[i - 1]))
        BY <1>5, <4>2
      <4> HIDE DEF Beats
      <4> QED BY <3>1, <3>3, <4>1, <4>3
    <3> QED BY <3>2, <3>3
  <2> HIDE DEF Beats, n
  <2> QED BY <1>8, <2>1
<1>12. b = Step(b)
  <2>1. \E f : f = Step(f)
    BY <1>11
  <2> HIDE DEF Step
  <2> QED BY <2>1
<1>13. b[n] = g[n]
  <2> HIDE DEF b, n, Beats
  <2>1. \A i \in 0 .. n : b[i] = IF i = 0 THEN 0
          ELSE IF Eligible(list[i], signal, 0) /\ Beats(i, b[i - 1]) THEN i ELSE b[i - 1]
    BY <1>12
  <2>2. \A i \in 0 .. n : g[i] = IF i = 0 THEN 0
          ELSE IF Eligible(list[i], signal, 0) /\ Beats(i, g[i - 1]) THEN i ELSE g[i - 1]
    BY <1>11
  <2>3. PICK S : S = {i \in 0 .. n : b[i] = g[i]}
    OBVIOUS
  <2>4. 0 \in 0 .. n /\ n \in 0 .. n
    BY <1>1
  <2>5. 0 \in S
    BY <2>1, <2>2, <2>3, <2>4
  <2>6. ASSUME NEW i \in 1 .. n, i - 1 \in S
        PROVE  i \in S
    <3>1. b[i - 1] = g[i - 1] /\ i \in 0 .. n /\ i # 0
      BY <2>3, <2>6
    <3>2. b[i] = g[i]
      BY <2>1, <2>2, <3>1
    <3> QED BY <2>3, <3>1, <3>2
  <2>7. \A i \in 0 .. n : i \in S
    BY <1>1, <2>5, <2>6, InductionUpTo
  <2> QED BY <2>3, <2>4, <2>7
<1>14. best = g[n] /\ n \in 0 .. n
  BY <1>1, <1>10, <1>13
<1>15. CASE g[n] = 0
  <2>1. \A j \in E : j > n
    BY <1>9, <1>14, <1>15
  <2> QED BY <1>1, <1>2, <1>14, <1>15, <2>1
<1>16. CASE g[n] # 0
  <2>1. g[n] \in E /\ \A j \in E : <<j, g[n]>> \notin R
    BY <1>1, <1>2, <1>9, <1>14, <1>16
  <2>2. \A j \in E : ~Before(Score(list[j], p, 0), Score(list[g[n]], p, 0))
    BY <1>5, <2>1
  <2> HIDE DEF n
  <2> QED BY <1>1, <1>2, <1>14, <1>16, <2>1, <2>2
<1> QED BY <1>15, <1>16

\* Until the strategy agent attaches one, a proposal has no option.
NothingChosenYet == stage \in {"candles", "proposed"} => option = NoInstrument

\* The option of a directional proposal is the best the list holds, for any offers,
\* prices and policy.
THEOREM TheBestIsSelected == Spec => []SelectionIsBest
<1> DEFINE Inv == NothingChosenYet /\ SelectionIsBest
<1>1. Init => Inv
  BY DEF Init, NothingChosenYet, SelectionIsBest
<1>2. Inv /\ [Next]_vars => Inv'
  <2> SUFFICES ASSUME NothingChosenYet, SelectionIsBest, [Next]_vars PROVE Inv'
    OBVIOUS
  <2>1. CASE Candle
    BY <2>1 DEF Candle, NothingChosenYet, SelectionIsBest
  <2>2. CASE EvaluateCrossover \/ EvaluateRsi \/ EvaluateAi
    BY <2>2 DEF EvaluateCrossover, EvaluateRsi, EvaluateAi, Propose, NothingChosenYet, SelectionIsBest
  <2>3. CASE AttachOption
    <3>1. NothingChosenYet'
      BY <2>3 DEF AttachOption, NothingChosenYet
    <3>2. CASE proposal.signal = "HOLD"
      BY <2>3, <3>1, <3>2 DEF AttachOption, NothingChosenYet, SelectionIsBest
    <3>3. CASE proposal.signal # "HOLD"
      <4>1. PICK list \in OfferLists, p \in Prices :
              /\ offers' = list /\ price' = p /\ option' = SelectOption(proposal.signal, p, list, 0)
              /\ proposal' = CASE ~Discovered(list) \/ p <= 0 -> Held(proposal, "options_unavailable")
                               [] option' = NoInstrument -> Held(proposal, "option_selection_failed")
                               [] OTHER -> proposal
        BY <2>3, <3>3 DEF AttachOption
      <4>2. SUFFICES ASSUME option' # NoInstrument PROVE SelectionIsBest'
        BY <3>1 DEF SelectionIsBest
      <4>3. PICK best : best = BestOf(list, proposal.signal, p, 0)
        OBVIOUS
      <4>4. p \in Int /\ p > 0 /\ best # 0 /\ option' = InstrumentOf(list[best]) /\ list \in Seq(Offers)
        BY <4>1, <4>2, <4>3, TradingAssumption DEF SelectOption
      <4>5. /\ best \in DOMAIN list /\ Eligible(list[best], proposal.signal, 0)
            /\ \A j \in DOMAIN list : Eligible(list[j], proposal.signal, 0) =>
                 ~Before(Score(list[j], p, 0), Score(list[best], p, 0))
        BY <4>3, <4>4, BestOfIsBest
      <4>6. Discovered(list)
        BY <4>5 DEF Discovered, Eligible
      <4>7. proposal' = proposal
        BY <4>1, <4>2, <4>4, <4>6
      <4> QED BY <4>1, <4>4, <4>5, <4>7 DEF SelectionIsBest
    <3> QED BY <3>1, <3>2, <3>3
  <2>4. CASE Decide
    BY <2>4 DEF Decide, NothingChosenYet, SelectionIsBest
  <2>5. CASE UNCHANGED vars
    BY <2>5 DEF vars, NothingChosenYet, SelectionIsBest
  <2> QED BY <2>1, <2>2, <2>3, <2>4, <2>5 DEF Next
<1>3. Inv => SelectionIsBest
  OBVIOUS
<1> QED BY <1>1, <1>2, <1>3, PTL DEF Spec

-----------------------------------------------------------------------------
\* sums[i] is the sum of the first i values.
Sums(n, values, sums) ==
  sums[0] = 0 /\ \A i \in 1 .. n : sums[i] = sums[i - 1] + values[i]

\* There are such sums.
LEMMA SumsExist ==
  ASSUME NEW n \in Nat, NEW values \in [1 .. n -> Int]
  PROVE  \E sums \in [0 .. n -> Int] : Sums(n, values, sums)
<1>1. PICK step : step = [p \in (1 .. n) \X Int |-> p[2] + values[p[1]]]
  OBVIOUS
<1>2. PICK V : V = Int
  OBVIOUS
<1>3. PICK base \in V : base = 0
  BY <1>2
<1>4. step \in [(1 .. n) \X V -> V]
  BY <1>1, <1>2
<1>5. PICK g \in [0 .. n -> V] : Recursion(n, base, step, g)
  BY <1>4, RecursionExists
<1>6. \A i \in 0 .. n : g[i] = IF i = 0 THEN 0 ELSE step[<<i, g[i - 1]>>]
  BY <1>3, <1>5 DEF Recursion
<1>7. g[0] = 0
  <2>1. 0 \in 0 .. n
    OBVIOUS
  <2> QED BY <1>6, <2>1
<1>8. ASSUME NEW i \in 1 .. n
      PROVE  g[i] = g[i - 1] + values[i]
  <2>1. g[i] = step[<<i, g[i - 1]>>] /\ <<i, g[i - 1]>> \in (1 .. n) \X Int
    BY <1>2, <1>5, <1>6
  <2> QED BY <1>1, <2>1
<1> QED BY <1>2, <1>5, <1>7, <1>8 DEF Sums

\* The running sum of a window: it is defined by its first value and its steps, and the
\* difference of two sums has the same.
LEMMA RunningSumIsADifference ==
  ASSUME NEW n \in Nat, NEW values \in [1 .. n -> Int], NEW sums \in [0 .. n -> Int],
         Sums(n, values, sums), NEW period \in Nat \ {0}, NEW i \in period .. n
  PROVE  RunningSum(values, period)[i] = sums[i] - sums[i - period]
<1> DEFINE Step(f) == [k \in 0 .. Len(values) |->
                        IF k = 0 THEN 0
                        ELSE f[k - 1] + values[k] - (IF k > period THEN values[k - period] ELSE 0)]
           r == CHOOSE f : f = Step(f)
<1>1. RunningSum(values, period) = r
  BY DEF RunningSum
<1>2. Len(values) = n
  OBVIOUS
<1>3. PICK g : g = [k \in 0 .. n |-> sums[k] - (IF k > period THEN sums[k - period] ELSE 0)]
  OBVIOUS
<1>4. ASSUME NEW k \in 1 .. n
      PROVE  g[k] = g[k - 1] + values[k] - (IF k > period THEN values[k - period] ELSE 0)
  <2>1. /\ sums[k] = sums[k - 1] + values[k] /\ sums[k] \in Int /\ sums[k - 1] \in Int /\ values[k] \in Int
        /\ sums[0] = 0 /\ k - 1 \in 0 .. n /\ k \in 0 .. n
    BY DEF Sums
  <2>2. CASE k > period
    <3>1. k - period \in 1 .. n
      BY <2>2
    <3>2. /\ sums[k - period] = sums[k - period - 1] + values[k - period]
          /\ sums[k - period] \in Int /\ sums[k - period - 1] \in Int /\ values[k - period] \in Int
      BY <3>1 DEF Sums
    <3>3. g[k] = sums[k] - sums[k - period]
      BY <1>3, <2>1, <2>2
    <3>4. g[k - 1] = sums[k - 1] - sums[k - period - 1]
      <4>1. CASE k - 1 > period
        <5>1. (k - 1) - period = k - period - 1
          OBVIOUS
        <5> QED BY <1>3, <2>1, <4>1, <5>1
      <4>2. CASE k - 1 = period
        <5>1. k - period - 1 = 0
          BY <4>2
        <5>2. g[k - 1] = sums[k - 1] - 0
          BY <1>3, <2>1, <4>2
        <5> QED BY <2>1, <5>1, <5>2
      <4> QED BY <2>2, <4>1, <4>2
    <3>5. g[k] = g[k - 1] + values[k] - values[k - period]
      <4>1. PICK a \in Int, b \in Int, x \in Int, y \in Int :
              a = sums[k - 1] /\ b = sums[k - period - 1] /\ x = values[k] /\ y = values[k - period]
        BY <2>1, <3>2
      <4>2. g[k] = (a + x) - (b + y)
        BY <2>1, <3>2, <3>3, <4>1
      <4>3. g[k - 1] = a - b
        BY <3>4, <4>1
      <4>4. (a + x) - (b + y) = (a - b) + x - y
        OBVIOUS
      <4> QED BY <4>1, <4>2, <4>3, <4>4
    <3> QED BY <2>2, <3>5
  <2>3. CASE ~(k > period)
    <3>1. g[k] = sums[k] - 0 /\ g[k - 1] = sums[k - 1] - 0
      BY <1>3, <2>1, <2>3
    <3> QED BY <2>1, <2>3, <3>1
  <2> QED BY <2>2, <2>3
<1>5. g[0] = 0
  BY <1>3 DEF Sums
<1>6. g = Step(g)
  <2>1. ASSUME NEW k \in 0 .. n
        PROVE  g[k] = IF k = 0 THEN 0
                      ELSE g[k - 1] + values[k] - (IF k > period THEN values[k - period] ELSE 0)
    <3>1. CASE k = 0
      BY <1>5, <3>1
    <3>2. CASE k # 0
      BY <1>4, <3>2
    <3> QED BY <3>1, <3>2
  <2> QED BY <1>2, <1>3, <2>1
<1>7. r = Step(r)
  <2>1. \E f : f = Step(f)
    BY <1>6
  <2> HIDE DEF Step
  <2> QED BY <2>1
<1>8. r[0] = 0 /\ \A k \in 1 .. n : r[k] = r[k - 1] + values[k] - (IF k > period THEN values[k - period] ELSE 0)
  <2> HIDE DEF r
  <2>1. \A k \in 0 .. n : r[k] = IF k = 0 THEN 0
                                 ELSE r[k - 1] + values[k] - (IF k > period THEN values[k - period] ELSE 0)
    BY <1>2, <1>7
  <2> QED BY <2>1
<1>9. r[i] = g[i]
  <2> HIDE DEF r
  <2>1. PICK S : S = {k \in 0 .. n : r[k] = g[k]}
    OBVIOUS
  <2>2. 0 \in S
    BY <1>5, <1>8, <2>1
  <2>3. ASSUME NEW k \in 1 .. n, k - 1 \in S
        PROVE  k \in S
    BY <1>4, <1>8, <2>1, <2>3
  <2>4. \A k \in 0 .. n : k \in S
    BY <2>2, <2>3, InductionUpTo
  <2> QED BY <2>1, <2>4
<1>10. g[i] = sums[i] - sums[i - period]
  <2>1. CASE i > period
    BY <1>3, <2>1
  <2>2. CASE i = period
    BY <1>3, <2>2 DEF Sums
  <2> QED BY <2>1, <2>2
<1> QED BY <1>1, <1>9, <1>10

\* The sum of a window, as the definition has it, is the same difference.
LEMMA WindowSumIsADifference ==
  ASSUME NEW n \in Nat, NEW values \in [1 .. n -> Int], NEW sums \in [0 .. n -> Int],
         Sums(n, values, sums), NEW period \in Nat \ {0}, NEW i \in period .. n
  PROVE  WindowSum(values, period, i) = sums[i] - sums[i - period]
<1> DEFINE Step(f) == [j \in i - period .. i |-> IF j = i - period THEN 0 ELSE f[j - 1] + values[j]]
           w == CHOOSE f : f = Step(f)
<1>1. WindowSum(values, period, i) = w[i]
  BY DEF WindowSum
<1>2. PICK g : g = [j \in i - period .. i |-> sums[j] - sums[i - period]]
  OBVIOUS
<1>3. ASSUME NEW j \in i - period .. i, j # i - period
      PROVE  g[j] = g[j - 1] + values[j]
  <2>1. j \in 1 .. n /\ j - 1 \in i - period .. i /\ i - period \in 0 .. n
    BY <1>3
  <2>2. /\ sums[j] = sums[j - 1] + values[j] /\ sums[j] \in Int /\ sums[j - 1] \in Int /\ values[j] \in Int
        /\ sums[i - period] \in Int
    BY <2>1 DEF Sums
  <2> QED BY <1>2, <2>1, <2>2
<1>4. g[i - period] = 0
  <2>1. i - period \in 0 .. n /\ i - period \in i - period .. i
    OBVIOUS
  <2> QED BY <1>2, <2>1
<1>5. g = Step(g)
  BY <1>2, <1>3, <1>4
<1>6. w = Step(w)
  <2>1. \E f : f = Step(f)
    BY <1>5
  <2> HIDE DEF Step
  <2> QED BY <2>1
<1>7. \A j \in i - period .. i : w[j] = IF j = i - period THEN 0 ELSE w[j - 1] + values[j]
  <2> HIDE DEF w
  <2> QED BY <1>6
<1>8. w[i] = g[i]
  <2> HIDE DEF w
  <2>1. PICK S : S = {k \in 0 .. period : w[i - period + k] = g[i - period + k]}
    OBVIOUS
  <2>2. 0 \in S
    <3>1. i - period + 0 = i - period /\ i - period \in i - period .. i
      OBVIOUS
    <3> QED BY <1>4, <1>7, <2>1, <3>1
  <2>3. ASSUME NEW k \in 1 .. period, k - 1 \in S
        PROVE  k \in S
    <3>1. PICK j : j = i - period + k
      OBVIOUS
    <3>2. /\ j \in i - period .. i /\ j # i - period /\ j - 1 = i - period + (k - 1) /\ k \in 0 .. period
      BY <3>1
    <3>3. w[j - 1] = g[j - 1]
      BY <2>1, <2>3, <3>2
    <3>4. w[j] = g[j]
      BY <1>3, <1>7, <3>2, <3>3
    <3> QED BY <2>1, <3>1, <3>2, <3>4
  <2>4. \A k \in 0 .. period : k \in S
    BY <2>2, <2>3, InductionUpTo
  <2>5. period \in 0 .. period /\ i - period + period = i
    OBVIOUS
  <2> QED BY <2>1, <2>4, <2>5
<1>9. g[i] = sums[i] - sums[i - period]
  BY <1>2
<1> QED BY <1>1, <1>8, <1>9

\* Turning the values upside down negates the sum of every window.
LEMMA MirrorNegatesWindows ==
  ASSUME NEW n \in Nat, NEW values \in [1 .. n -> Int], NEW period \in Nat \ {0}, NEW i \in period .. n
  PROVE  /\ WindowSum(values, period, i) \in Int
         /\ RunningSum(values, period)[i] = WindowSum(values, period, i)
         /\ WindowSum(Mirror(values), period, i) = -WindowSum(values, period, i)
<1>1. PICK sums \in [0 .. n -> Int] : Sums(n, values, sums)
  BY SumsExist
<1>2. PICK mirror : mirror = Mirror(values)
  OBVIOUS
<1>3. mirror \in [1 .. n -> Int] /\ \A k \in 1 .. n : mirror[k] = -values[k]
  BY <1>2 DEF Mirror
<1>4. PICK negated : negated = [k \in 0 .. n |-> -sums[k]]
  OBVIOUS
<1>5. negated \in [0 .. n -> Int] /\ \A k \in 0 .. n : negated[k] = -sums[k]
  BY <1>4
<1>6. Sums(n, mirror, negated)
  <2>1. negated[0] = 0
    BY <1>1, <1>5 DEF Sums
  <2>2. ASSUME NEW k \in 1 .. n
        PROVE  negated[k] = negated[k - 1] + mirror[k]
    <3>1. k \in 0 .. n /\ k - 1 \in 0 .. n /\ sums[k] = sums[k - 1] + values[k]
      BY <1>1 DEF Sums
    <3>2. sums[k] \in Int /\ sums[k - 1] \in Int /\ values[k] \in Int
      BY <3>1
    <3> QED BY <1>3, <1>5, <3>1, <3>2
  <2> QED BY <2>1, <2>2 DEF Sums
<1>7. WindowSum(values, period, i) = sums[i] - sums[i - period]
  BY <1>1, WindowSumIsADifference
<1>8. RunningSum(values, period)[i] = sums[i] - sums[i - period]
  BY <1>1, RunningSumIsADifference
<1>9. WindowSum(mirror, period, i) = negated[i] - negated[i - period]
  BY <1>3, <1>5, <1>6, WindowSumIsADifference
<1>10. i \in 0 .. n /\ i - period \in 0 .. n /\ sums[i] \in Int /\ sums[i - period] \in Int
  OBVIOUS
<1>11. negated[i] = -sums[i] /\ negated[i - period] = -sums[i - period]
  BY <1>5, <1>10
<1>12. negated[i] - negated[i - period] = -(sums[i] - sums[i - period])
  BY <1>10, <1>11
<1> QED BY <1>2, <1>7, <1>8, <1>9, <1>10, <1>12

\* The sum of a window of numbers is not negative.
LEMMA WindowsOfNumbers ==
  ASSUME NEW n \in Nat, NEW values \in [1 .. n -> Nat], NEW period \in Nat \ {0}, NEW i \in period .. n
  PROVE  WindowSum(values, period, i) \in Nat
<1>1. values \in [1 .. n -> Int]
  OBVIOUS
<1>2. PICK sums \in [0 .. n -> Int] : Sums(n, values, sums)
  BY <1>1, SumsExist
<1>3. PICK S : S = {k \in 0 .. period : sums[i - period + k] >= sums[i - period]}
  OBVIOUS
<1>4. 0 \in S
  <2>1. i - period + 0 = i - period /\ sums[i - period] \in Int /\ 0 \in 0 .. period
    OBVIOUS
  <2> QED BY <1>3, <2>1
<1>5. ASSUME NEW k \in 1 .. period, k - 1 \in S
      PROVE  k \in S
  <2>1. PICK j : j = i - period + k
    OBVIOUS
  <2>2. j \in 1 .. n /\ j - 1 = i - period + (k - 1) /\ k \in 0 .. period
    BY <2>1
  <2>3. sums[j] = sums[j - 1] + values[j] /\ sums[j - 1] \in Int /\ values[j] \in Nat /\ sums[i - period] \in Int
    BY <1>2, <2>2 DEF Sums
  <2>4. sums[j - 1] >= sums[i - period]
    BY <1>3, <1>5, <2>2
  <2>5. sums[j] >= sums[i - period]
    BY <2>3, <2>4
  <2> QED BY <1>3, <2>1, <2>2, <2>5
<1>6. \A k \in 0 .. period : k \in S
  BY <1>4, <1>5, InductionUpTo
<1>7. sums[i] >= sums[i - period]
  <2>1. period \in 0 .. period /\ i - period + period = i
    OBVIOUS
  <2> QED BY <1>3, <1>6, <2>1
<1>8. WindowSum(values, period, i) = sums[i] - sums[i - period]
  BY <1>1, <1>2, WindowSumIsADifference
<1> QED BY <1>7, <1>8

-----------------------------------------------------------------------------
\* The signal of moving_average_crossover is a crossing of the averages, up or down.
LEMMA CrossoverIsACrossing ==
  ASSUME NEW n \in Nat, NEW closes \in [1 .. n -> Int]
  PROVE  /\ (CrossoverSignal(closes) = "BUY") = CrossesUp(closes)
         /\ (CrossoverSignal(closes) = "SELL") = CrossesUp(Mirror(closes))
<1>1. Len(closes) = n /\ Len(Mirror(closes)) = n
  BY DEF Mirror
<1>2. ShortPeriod \in Nat \ {0} /\ LongPeriod \in Nat \ {0} /\ ShortPeriod < LongPeriod
  BY EnginesAssumption
<1>3. CASE n < LongPeriod + 1
  BY <1>1, <1>2, <1>3 DEF CrossoverSignal, CrossesUp
<1>4. CASE ~(n < LongPeriod + 1)
  <2> DEFINE Short(i) == WindowSum(closes, ShortPeriod, i)
             Long(i) == WindowSum(closes, LongPeriod, i)
             MirrorShort(i) == WindowSum(Mirror(closes), ShortPeriod, i)
             MirrorLong(i) == WindowSum(Mirror(closes), LongPeriod, i)
             Sh == RunningSum(closes, ShortPeriod)
             Lg == RunningSum(closes, LongPeriod)
  <2>1. n > LongPeriod /\ n - 1 \in LongPeriod .. n /\ n \in LongPeriod .. n
    BY <1>2, <1>4
  <2>2. ASSUME NEW i \in {n - 1, n}
        PROVE  /\ Short(i) \in Int /\ Long(i) \in Int
               /\ Sh[i] = Short(i) /\ Lg[i] = Long(i)
               /\ MirrorShort(i) = -Short(i) /\ MirrorLong(i) = -Long(i)
    <3>1. i \in LongPeriod .. n /\ i \in ShortPeriod .. n
      BY <1>2, <2>1
    <3> QED BY <1>2, <3>1, MirrorNegatesWindows
  <2>3. PICK a \in Int, b \in Int, c \in Int, d \in Int :
          a = Short(n - 1) /\ b = Long(n - 1) /\ c = Short(n) /\ d = Long(n)
    BY <2>2
  <2>4. \A x, y \in Int : (-x) * LongPeriod > (-y) * ShortPeriod <=> x * LongPeriod - y * ShortPeriod < 0
    BY <1>2
  <2>5. \A x, y \in Int : x * LongPeriod > y * ShortPeriod <=> x * LongPeriod - y * ShortPeriod > 0
    BY <1>2
  <2> DEFINE G == a * LongPeriod - b * ShortPeriod
             H == c * LongPeriod - d * ShortPeriod
  <2>6. G \in Int /\ H \in Int
    BY <1>2
  <2>7. CrossoverSignal(closes) = CASE G <= 0 /\ H > 0 -> "BUY" [] G >= 0 /\ H < 0 -> "SELL" [] OTHER -> "HOLD"
    BY <1>1, <1>4, <2>2, <2>3 DEF CrossoverSignal
  <2>8. CrossesUp(closes) <=> ~(G > 0) /\ H > 0
    <3>1. CrossesUp(closes) <=> ~(a * LongPeriod > b * ShortPeriod) /\ c * LongPeriod > d * ShortPeriod
      BY <1>1, <2>1, <2>3 DEF CrossesUp
    <3> QED BY <2>5, <3>1
  <2>9. CrossesUp(Mirror(closes)) <=> ~(G < 0) /\ H < 0
    <3>1. CrossesUp(Mirror(closes)) <=>
            ~((-a) * LongPeriod > (-b) * ShortPeriod) /\ (-c) * LongPeriod > (-d) * ShortPeriod
      BY <1>1, <2>1, <2>2, <2>3 DEF CrossesUp
    <3> QED BY <2>4, <3>1
  <2>10. (CrossoverSignal(closes) = "BUY") <=> ~(G > 0) /\ H > 0
    <3> HIDE DEF G, H
    <3> QED BY <2>6, <2>7
  <2>11. (CrossoverSignal(closes) = "SELL") <=> ~(G < 0) /\ H < 0
    <3> HIDE DEF G, H
    <3> QED BY <2>6, <2>7
  <2>12. CrossesUp(closes) \in BOOLEAN /\ CrossesUp(Mirror(closes)) \in BOOLEAN
    BY DEF CrossesUp
  <2> QED BY <2>8, <2>9, <2>10, <2>11, <2>12
<1> QED BY <1>3, <1>4

-----------------------------------------------------------------------------
\* Upside down, a gain is a loss.
LEMMA MirrorSwapsGainsAndLosses ==
  ASSUME NEW n \in Nat, NEW closes \in [1 .. n -> Int], NEW i \in 1 .. n
  PROVE  /\ Gain(closes, i) \in Nat /\ Loss(closes, i) \in Nat
         /\ Gain(Mirror(closes), i) = Loss(closes, i) /\ Loss(Mirror(closes), i) = Gain(closes, i)
<1>1. CASE i = 1
  BY <1>1 DEF Gain, Loss
<1>2. CASE i > 1
  <2>1. PICK a \in Int, b \in Int : a = closes[i] /\ b = closes[i - 1]
    BY <1>2
  <2>2. Mirror(closes)[i] = -a /\ Mirror(closes)[i - 1] = -b
    BY <1>2, <2>1 DEF Mirror
  <2>3. Gain(closes, i) = (IF a > b THEN a - b ELSE 0) /\ Loss(closes, i) = (IF a < b THEN b - a ELSE 0)
    BY <1>2, <2>1 DEF Gain, Loss
  <2>4. /\ Gain(Mirror(closes), i) = (IF -a > -b THEN (-a) - (-b) ELSE 0)
        /\ Loss(Mirror(closes), i) = (IF -a < -b THEN (-b) - (-a) ELSE 0)
    BY <1>2, <2>2 DEF Gain, Loss
  <2> QED BY <2>3, <2>4
<1> QED BY <1>1, <1>2

\* The signal of rsi_reversal is a small share of gains or, upside down, of losses.
LEMMA RsiIsAShareOfGains ==
  ASSUME NEW n \in Nat, NEW closes \in [1 .. n -> Int]
  PROVE  /\ (RsiSignal(closes) = "BUY") = RsiAtMost(closes, Oversold)
         /\ (RsiSignal(closes) = "SELL") = RsiAtMost(Mirror(closes), 100 - Overbought)
<1>1. Len(closes) = n /\ Len(Mirror(closes)) = n
  BY DEF Mirror
<1>2. /\ RsiPeriod \in Nat \ {0} /\ Oversold \in Nat /\ Overbought \in Nat /\ Oversold < Overbought
  BY EnginesAssumption
<1>3. /\ RsiAtMost(closes, Oversold) \in BOOLEAN /\ RsiAtMost(Mirror(closes), 100 - Overbought) \in BOOLEAN
  BY DEF RsiAtMost
<1>4. CASE n < RsiPeriod + 1
  <2>1. RsiSignal(closes) = "HOLD"
    BY <1>1, <1>4 DEF RsiSignal
  <2>2. ~(n > RsiPeriod)
    BY <1>2, <1>4
  <2>3. ~RsiAtMost(closes, Oversold) /\ ~RsiAtMost(Mirror(closes), 100 - Overbought)
    BY <1>1, <2>2 DEF RsiAtMost
  <2> QED BY <1>3, <2>1, <2>3
<1>5. CASE ~(n < RsiPeriod + 1)
  <2>1. n > RsiPeriod /\ n \in RsiPeriod .. n
    BY <1>2, <1>5
  <2>2. PICK gains, losses : /\ gains = [i \in 1 .. n |-> Gain(closes, i)]
                             /\ losses = [i \in 1 .. n |-> Loss(closes, i)]
    OBVIOUS
  <2>3. gains \in [1 .. n -> Nat] /\ losses \in [1 .. n -> Nat]
    BY <2>2, MirrorSwapsGainsAndLosses
  <2>4. gains \in [1 .. n -> Int] /\ losses \in [1 .. n -> Int]
    BY <2>3
  <2>5. /\ gains = [i \in 1 .. n |-> Loss(Mirror(closes), i)]
        /\ losses = [i \in 1 .. n |-> Gain(Mirror(closes), i)]
    BY <2>2, MirrorSwapsGainsAndLosses
  <2>6. PICK g \in Nat, l \in Nat : g = WindowSum(gains, RsiPeriod, n) /\ l = WindowSum(losses, RsiPeriod, n)
    BY <1>2, <2>1, <2>3, WindowsOfNumbers
  <2>7. g = RunningSum(gains, RsiPeriod)[n] /\ l = RunningSum(losses, RsiPeriod)[n]
    <3>1. RunningSum(gains, RsiPeriod)[n] = WindowSum(gains, RsiPeriod, n)
      BY <1>2, <2>1, <2>4, MirrorNegatesWindows
    <3>2. RunningSum(losses, RsiPeriod)[n] = WindowSum(losses, RsiPeriod, n)
      BY <1>2, <2>1, <2>4, MirrorNegatesWindows
    <3>3. QED BY <2>6, <3>1, <3>2
  <2>8. LastRsi(closes) = IF g + l = 0 THEN <<50, 1>> ELSE <<100 * g, g + l>>
    BY <1>1, <2>2, <2>7 DEF LastRsi
  <2>9. RsiAtMost(closes, Oversold) <=>
          IF l = 0 /\ g = 0 THEN 50 <= Oversold ELSE 100 * g <= Oversold * (g + l)
    BY <1>1, <2>1, <2>2, <2>6 DEF RsiAtMost
  <2>10. RsiAtMost(Mirror(closes), 100 - Overbought) <=>
           IF g = 0 /\ l = 0 THEN 50 <= 100 - Overbought ELSE 100 * l <= (100 - Overbought) * (l + g)
    BY <1>1, <2>1, <2>5, <2>6 DEF RsiAtMost
  <2>11. RsiSignal(closes) = CASE LastRsi(closes)[1] <= Oversold * LastRsi(closes)[2] -> "BUY"
                               [] LastRsi(closes)[1] >= Overbought * LastRsi(closes)[2] -> "SELL"
                               [] OTHER -> "HOLD"
    BY <1>1, <1>5 DEF RsiSignal
  <2>12. CASE g + l = 0
    <3>1. g = 0 /\ l = 0
      BY <2>12
    <3>2. RsiSignal(closes) = CASE 50 <= Oversold -> "BUY" [] 50 >= Overbought -> "SELL" [] OTHER -> "HOLD"
      BY <1>2, <2>8, <2>11, <2>12
    <3> QED BY <1>2, <1>3, <2>9, <2>10, <3>1, <3>2
  <2>13. CASE g + l # 0
    <3>1. PICK h \in Nat \ {0}, low \in Nat, high \in Nat : 
            h = g + l /\ low = Oversold * h /\ high = Overbought * h
      BY <1>2, <2>13
    <3>2. low < high
      BY <1>2, <3>1, ScaledOrder
    <3>3. RsiSignal(closes) = CASE 100 * g <= low -> "BUY" [] 100 * g >= high -> "SELL" [] OTHER -> "HOLD"
      BY <2>8, <2>11, <2>13, <3>1
    <3>4. RsiAtMost(closes, Oversold) <=> 100 * g <= low
      BY <2>9, <2>13, <3>1
    <3>5. RsiAtMost(Mirror(closes), 100 - Overbought) <=> 100 * g >= high
      <4>1. (100 - Overbought) * h = 100 * h - high
        BY <1>2, <3>1
      <4>2. 100 * l <= 100 * h - high <=> 100 * g >= high
        BY <3>1
      <4> QED BY <2>10, <2>13, <3>1, <4>1, <4>2
    <3> QED BY <1>3, <3>2, <3>3, <3>4, <3>5
  <2> QED BY <2>12, <2>13
<1> QED BY <1>4, <1>5

-----------------------------------------------------------------------------
\* A candle as it is normalised, and the sequences ordered by time.
Bars == [at : Nat, close : Nat]
ByTime(s) == \A i, j \in 1 .. Len(s) : i < j => s[i].at <= s[j].at
Sorted == {s \in Seq(Bars) : ByTime(s)}

\* Where a bar is put: behind those of its time or before, before those of a later one.
Inserted(s, bar, t, place) ==
  /\ t \in Seq(Bars) /\ Len(t) = Len(s) + 1
  /\ \A i \in 1 .. Len(s) + 1 :
       t[i] = IF i <= place THEN s[i] ELSE IF i = place + 1 THEN bar ELSE s[i - 1]
  /\ \A i \in 1 .. place : s[i].at <= bar.at
  /\ \A i \in place + 1 .. Len(s) : s[i].at > bar.at

\* The elements of a sorted sequence.
LEMMA SortedBars ==
  ASSUME NEW s \in Sorted
  PROVE  /\ s \in Seq(Bars) /\ Len(s) \in Nat
         /\ \A i \in 1 .. Len(s) : s[i] \in Bars /\ s[i].at \in Nat
         /\ \A i, j \in 1 .. Len(s) : i < j => s[i].at <= s[j].at
<1>1. s \in Seq(Bars) /\ ByTime(s)
  BY DEF Sorted
<1>2. Len(s) \in Nat
  BY <1>1, LenProperties
<1>3. \A i \in 1 .. Len(s) : s[i] \in Bars
  BY <1>1, ElementOfSeq
<1>4. \A b \in Bars : b.at \in Nat
  BY DEF Bars
<1> QED BY <1>1, <1>2, <1>3, <1>4 DEF ByTime

\* A sorted sequence has such a place: behind the least k after which all is later.
LEMMA InsertionHasAPlace ==
  ASSUME NEW s \in Sorted, NEW bar \in Bars
  PROVE  \E place \in 0 .. Len(s) : Inserted(s, bar, InsertByTime(s, bar), place)
<1>1. /\ s \in Seq(Bars) /\ Len(s) \in Nat /\ bar.at \in Nat
      /\ \A i \in 1 .. Len(s) : s[i] \in Bars /\ s[i].at \in Nat
      /\ \A i, j \in 1 .. Len(s) : i < j => s[i].at <= s[j].at
  BY SortedBars DEF Bars
<1>2. PICK K : K = {k \in 0 .. Len(s) : \A i \in k + 1 .. Len(s) : s[i].at > bar.at}
  OBVIOUS
<1>3. K \subseteq Nat /\ K # {}
  <2>1. Len(s) \in K
    BY <1>1, <1>2
  <2> QED BY <1>2, <2>1
<1>4. PICK m \in K : \A k \in K : m <= k
  BY <1>3, LeastElement
<1>5. \A i \in 1 .. m : s[i].at <= bar.at
  <2>1. CASE m = 0
    BY <2>1
  <2>2. CASE m # 0
    <3>1. m \in 1 .. Len(s) /\ m - 1 \in 0 .. Len(s) /\ m - 1 \notin K
      <4>1. m \in 0 .. Len(s)
        BY <1>2
      <4>2. ~(m <= m - 1)
        BY <4>1
      <4>3. m - 1 \notin K
        BY <1>4, <4>2
      <4> QED BY <1>1, <2>2, <4>1, <4>3
    <3>2. PICK i \in m .. Len(s) : ~(s[i].at > bar.at)
      BY <1>2, <3>1
    <3>3. \A j \in m + 1 .. Len(s) : s[j].at > bar.at
      BY <1>2
    <3>4. i = m
      BY <1>1, <3>1, <3>2, <3>3
    <3>5. s[m].at <= bar.at
      BY <1>1, <3>1, <3>2, <3>4
    <3>6. ASSUME NEW j \in 1 .. m
          PROVE  s[j].at <= bar.at
      BY <1>1, <3>1, <3>5
    <3> QED BY <3>6
  <2> QED BY <2>1, <2>2
<1> DEFINE Place(k) == /\ \A i \in 1 .. k : s[i].at <= bar.at
                       /\ \A i \in k + 1 .. Len(s) : s[i].at > bar.at
           place == CHOOSE k \in 0 .. Len(s) : Place(k)
<1>6. place \in 0 .. Len(s) /\ Place(place)
  <2>1. m \in 0 .. Len(s) /\ Place(m)
    BY <1>2, <1>5
  <2> HIDE DEF Place
  <2> QED BY <2>1
<1>7. InsertByTime(s, bar) = SubSeq(s, 1, place) \o <<bar>> \o SubSeq(s, place + 1, Len(s))
  BY DEF InsertByTime
<1>8. PICK p \in 0 .. Len(s) : p = place
  BY <1>6
<1> HIDE DEF place
<1>9. PICK front, back : front = SubSeq(s, 1, p) /\ back = SubSeq(s, p + 1, Len(s))
  OBVIOUS
<1>10. front \in Seq(Bars) /\ Len(front) = p /\ \A i \in 1 .. p : front[i] = s[i]
  <2>1. \A i \in 1 .. p : s[i] \in Bars
    BY <1>1
  <2>2. /\ front \in Seq(Bars) /\ Len(front) = (IF 1 <= p THEN p - 1 + 1 ELSE 0)
        /\ \A i \in 1 .. p - 1 + 1 : front[i] = s[1 + i - 1]
    BY <1>9, <2>1, SubSeqProperties
  <2> QED BY <2>2
<1>11. back \in Seq(Bars) /\ Len(back) = Len(s) - p /\ \A i \in 1 .. Len(s) - p : back[i] = s[p + i]
  <2>1. \A i \in p + 1 .. Len(s) : s[i] \in Bars
    BY <1>1
  <2>2. /\ back \in Seq(Bars) /\ Len(back) = (IF p + 1 <= Len(s) THEN Len(s) - (p + 1) + 1 ELSE 0)
        /\ \A i \in 1 .. Len(s) - (p + 1) + 1 : back[i] = s[p + 1 + i - 1]
    BY <1>1, <1>9, <2>1, SubSeqProperties
  <2>3. \A i \in 1 .. Len(s) - p : i \in 1 .. Len(s) - (p + 1) + 1 /\ p + 1 + i - 1 = p + i
    BY <1>1
  <2> QED BY <1>1, <2>2, <2>3
<1>12. PICK head : head = front \o <<bar>>
  OBVIOUS
<1>13. /\ head \in Seq(Bars) /\ Len(head) = p + 1
       /\ \A i \in 1 .. p + 1 : head[i] = IF i <= p THEN s[i] ELSE bar
  <2>1. <<bar>> \in Seq(Bars) /\ Len(<<bar>>) = 1 /\ <<bar>>[1] = bar
    OBVIOUS
  <2>2. /\ head \in Seq(Bars) /\ Len(head) = p + 1
        /\ \A i \in 1 .. p + 1 : head[i] = IF i <= p THEN front[i] ELSE <<bar>>[i - p]
    BY <1>10, <1>12, <2>1, ConcatProperties
  <2>3. ASSUME NEW i \in 1 .. p + 1
        PROVE  head[i] = IF i <= p THEN s[i] ELSE bar
    <3>1. CASE i <= p
      BY <1>10, <2>2, <3>1
    <3>2. CASE ~(i <= p)
      <4>1. i - p = 1
        BY <3>2
      <4> QED BY <2>1, <2>2, <3>2, <4>1
    <3> QED BY <3>1, <3>2
  <2> QED BY <2>2, <2>3
<1>14. PICK t : t = InsertByTime(s, bar)
  OBVIOUS
<1>15. t = head \o back
  BY <1>7, <1>8, <1>9, <1>12, <1>14
<1>16. /\ t \in Seq(Bars) /\ Len(t) = p + 1 + (Len(s) - p)
       /\ \A i \in 1 .. p + 1 + (Len(s) - p) : t[i] = IF i <= p + 1 THEN head[i] ELSE back[i - (p + 1)]
  <2>1. /\ t \in Seq(Bars) /\ Len(t) = Len(head) + Len(back)
        /\ \A i \in 1 .. Len(head) + Len(back) : t[i] = IF i <= Len(head) THEN head[i] ELSE back[i - Len(head)]
    BY <1>11, <1>13, <1>15, ConcatProperties
  <2> QED BY <1>11, <1>13, <2>1
<1>17. Len(t) = Len(s) + 1
  BY <1>1, <1>16
<1>18. ASSUME NEW i \in 1 .. Len(s) + 1
       PROVE  t[i] = IF i <= p THEN s[i] ELSE IF i = p + 1 THEN bar ELSE s[i - 1]
  <2>1. t[i] = IF i <= p + 1 THEN head[i] ELSE back[i - (p + 1)]
    BY <1>1, <1>16
  <2>2. CASE i <= p + 1
    BY <1>13, <2>1, <2>2
  <2>3. CASE ~(i <= p + 1)
    <3>1. i - (p + 1) \in 1 .. Len(s) - p /\ p + (i - (p + 1)) = i - 1
      BY <1>1, <2>3
    <3> QED BY <1>11, <2>1, <2>3, <3>1
  <2> QED BY <2>2, <2>3
<1>19. Inserted(s, bar, t, p)
  BY <1>6, <1>8, <1>16, <1>17, <1>18 DEF Inserted
<1> QED BY <1>14, <1>19

\* With one more bar the sequence is still sorted.
LEMMA InsertionKeepsTheOrder ==
  ASSUME NEW s \in Sorted, NEW bar \in Bars
  PROVE  InsertByTime(s, bar) \in Sorted
<1>0. PICK t : t = InsertByTime(s, bar)
  OBVIOUS
<1>1. PICK place \in 0 .. Len(s) : t = InsertByTime(s, bar) /\ Inserted(s, bar, t, place)
  BY <1>0, InsertionHasAPlace
<1>2. /\ Len(s) \in Nat /\ bar.at \in Nat /\ \A i \in 1 .. Len(s) : s[i].at \in Nat
      /\ \A i, j \in 1 .. Len(s) : i < j => s[i].at <= s[j].at
  BY SortedBars DEF Bars
<1>3. ASSUME NEW i \in 1 .. Len(t), NEW j \in 1 .. Len(t), i < j
      PROVE  t[i].at <= t[j].at
  <2>1. /\ Len(t) = Len(s) + 1
        /\ t[i] = IF i <= place THEN s[i] ELSE IF i = place + 1 THEN bar ELSE s[i - 1]
        /\ t[j] = IF j <= place THEN s[j] ELSE IF j = place + 1 THEN bar ELSE s[j - 1]
        /\ \A k \in 1 .. place : s[k].at <= bar.at
        /\ \A k \in place + 1 .. Len(s) : s[k].at > bar.at
    BY <1>1 DEF Inserted
  <2>2. CASE j <= place
    BY <1>2, <1>3, <2>1, <2>2
  <2>3. CASE j = place + 1
    BY <1>2, <1>3, <2>1, <2>3
  <2>4. CASE j > place + 1
    <3>1. j - 1 \in place + 1 .. Len(s) /\ j - 1 \in 1 .. Len(s) /\ t[j] = s[j - 1]
      BY <1>2, <2>1, <2>4
    <3>2. CASE i <= place
      BY <1>2, <1>3, <2>1, <3>1, <3>2
    <3>3. CASE i = place + 1
      BY <1>2, <1>3, <2>1, <3>1, <3>3
    <3>4. CASE i > place + 1
      <4>1. i - 1 \in 1 .. Len(s) /\ i - 1 < j - 1 /\ t[i] = s[i - 1]
        BY <1>2, <1>3, <2>1, <3>4
      <4> QED BY <1>2, <3>1, <4>1
    <3> QED BY <3>2, <3>3, <3>4
  <2> QED BY <2>2, <2>3, <2>4
<1> QED BY <1>1, <1>3 DEF Inserted, Sorted, ByTime

\* No two dated bars of raw are of the same time.
DatedApart(raw) == \A i, j \in 1 .. Len(raw) : i # j /\ raw[i].at # Undated => raw[i].at # raw[j].at

\* Each dated bar is strictly before those behind it.
InTime(s) == \A i, j \in 1 .. Len(s) : i < j /\ s[i].at # Undated => s[i].at < s[j].at

\* Every bar of s is one of the first i of raw.
FromFirst(raw, i, s) == \A k \in 1 .. Len(s) : \E j \in 1 .. i : s[k] = raw[j]

\* Inserting the next bar of raw keeps the bars strictly in time.
LEMMA InsertionKeepsTimesApart ==
  ASSUME NEW raw \in Seq(Bars), DatedApart(raw), NEW i \in 1 .. Len(raw),
         NEW s \in Sorted, InTime(s), FromFirst(raw, i - 1, s)
  PROVE  InTime(InsertByTime(s, raw[i])) /\ FromFirst(raw, i, InsertByTime(s, raw[i]))
<1>0. PICK t : t = InsertByTime(s, raw[i])
  OBVIOUS
<1>1. raw[i] \in Bars /\ raw[i].at \in Nat /\ Len(raw) \in Nat
  <2>1. raw[i] \in Bars /\ Len(raw) \in Nat
    BY ElementOfSeq, LenProperties
  <2> QED BY <2>1 DEF Bars
<1>2. PICK place \in 0 .. Len(s) : t = InsertByTime(s, raw[i]) /\ Inserted(s, raw[i], t, place)
  BY <1>0, <1>1, InsertionHasAPlace
<1>3. /\ Len(s) \in Nat /\ \A k \in 1 .. Len(s) : s[k].at \in Nat
      /\ \A k, l \in 1 .. Len(s) : k < l /\ s[k].at # Undated => s[k].at < s[l].at
  BY SortedBars DEF InTime
<1>4. \A k \in 1 .. Len(s) : raw[i].at = s[k].at => s[k].at = Undated
  <2> SUFFICES ASSUME NEW k \in 1 .. Len(s), raw[i].at = s[k].at, s[k].at # Undated PROVE FALSE
    OBVIOUS
  <2>1. PICK j \in 1 .. i - 1 : s[k] = raw[j]
    BY DEF FromFirst
  <2>2. j \in 1 .. Len(raw) /\ j # i
    BY <1>1
  <2> QED BY <2>1, <2>2 DEF DatedApart
<1>5. ASSUME NEW k \in 1 .. Len(t)
      PROVE  \E j \in 1 .. i : t[k] = raw[j]
  <2>1. /\ Len(t) = Len(s) + 1
        /\ t[k] = IF k <= place THEN s[k] ELSE IF k = place + 1 THEN raw[i] ELSE s[k - 1]
    BY <1>2 DEF Inserted
  <2>2. \A l \in 1 .. Len(s) : \E j \in 1 .. i : s[l] = raw[j]
    BY DEF FromFirst
  <2>3. CASE k = place + 1
    <3>1. t[k] = raw[i] /\ i \in 1 .. i
      BY <2>1, <2>3
    <3> QED BY <3>1
  <2>4. CASE k # place + 1
    <3>1. PICK l \in 1 .. Len(s) : t[k] = s[l]
      BY <1>3, <2>1, <2>4
    <3> QED BY <2>2, <3>1
  <2> QED BY <2>3, <2>4
<1>6. ASSUME NEW k \in 1 .. Len(t), NEW l \in 1 .. Len(t), k < l, t[k].at # Undated
      PROVE  t[k].at < t[l].at
  <2>1. /\ Len(t) = Len(s) + 1
        /\ t[k] = IF k <= place THEN s[k] ELSE IF k = place + 1 THEN raw[i] ELSE s[k - 1]
        /\ t[l] = IF l <= place THEN s[l] ELSE IF l = place + 1 THEN raw[i] ELSE s[l - 1]
        /\ \A m \in 1 .. place : s[m].at <= raw[i].at
        /\ \A m \in place + 1 .. Len(s) : s[m].at > raw[i].at
    BY <1>2 DEF Inserted
  <2>2. CASE k = place + 1
    <3>1. l - 1 \in place + 1 .. Len(s) /\ t[l] = s[l - 1] /\ t[k] = raw[i]
      BY <1>3, <1>6, <2>1, <2>2
    <3>2. l - 1 \in 1 .. Len(s)
      BY <3>1
    <3> QED BY <1>1, <1>3, <2>1, <3>1, <3>2
  <2>3. CASE l = place + 1
    <3>1. k \in 1 .. place /\ k \in 1 .. Len(s) /\ t[k] = s[k] /\ t[l] = raw[i]
      BY <1>3, <1>6, <2>1, <2>3
    <3>2. s[k].at <= raw[i].at /\ s[k].at # raw[i].at
      BY <1>4, <1>6, <2>1, <3>1
    <3> QED BY <1>1, <1>3, <3>1, <3>2
  <2>4. CASE k # place + 1 /\ l # place + 1
    <3>1. PICK a \in 1 .. Len(s), b \in 1 .. Len(s) : a < b /\ t[k] = s[a] /\ t[l] = s[b]
      <4>1. CASE k <= place /\ l <= place
        <5>1. k \in 1 .. Len(s) /\ l \in 1 .. Len(s) /\ t[k] = s[k] /\ t[l] = s[l]
          BY <1>3, <2>1, <4>1
        <5> QED BY <1>6, <5>1
      <4>2. CASE k <= place /\ l > place + 1
        <5>1. k \in 1 .. Len(s) /\ l - 1 \in 1 .. Len(s) /\ k < l - 1 /\ t[k] = s[k] /\ t[l] = s[l - 1]
          BY <1>3, <2>1, <4>2
        <5> QED BY <5>1
      <4>3. CASE k > place + 1
        <5>1. k - 1 \in 1 .. Len(s) /\ l - 1 \in 1 .. Len(s) /\ k - 1 < l - 1 /\ t[k] = s[k - 1] /\ t[l] = s[l - 1]
          BY <1>3, <1>6, <2>1, <4>3
        <5> QED BY <5>1
      <4> QED BY <1>3, <1>6, <2>4, <4>1, <4>2, <4>3
    <3> QED BY <1>3, <1>6, <3>1
  <2> QED BY <2>2, <2>3, <2>4
<1> QED BY <1>2, <1>5, <1>6 DEF InTime, FromFirst

\* The candles come out oldest first.
LEMMA NormalizedBarsAreInTime ==
  ASSUME NEW raw \in Seq(Bars), DatedApart(raw)
  PROVE  NormalizeBars(raw) \in Sorted /\ InTime(NormalizeBars(raw))
<1>1. PICK n \in Nat : n = Len(raw)
  BY LenProperties
<1>2. \A i \in 1 .. n : raw[i] \in Bars
  BY <1>1, ElementOfSeq
<1> DEFINE Step(f) == [i \in 0 .. Len(raw) |->
                        IF i = 0 THEN <<>>
                        ELSE IF raw[i].close = NoClose THEN f[i - 1] ELSE InsertByTime(f[i - 1], raw[i])]
           h == CHOOSE f : f = Step(f)
<1>3. NormalizeBars(raw) = h[n]
  BY <1>1 DEF NormalizeBars
<1>4. <<>> \in Sorted
  BY DEF Sorted, ByTime
<1>5. \E f : f = Step(f)
  <2>1. PICK step : step = [p \in (1 .. n) \X Sorted |->
                             IF raw[p[1]].close = NoClose THEN p[2] ELSE InsertByTime(p[2], raw[p[1]])]
    OBVIOUS
  <2>2. step \in [(1 .. n) \X Sorted -> Sorted]
    BY <1>2, <2>1, InsertionKeepsTheOrder
  <2>3. PICK base \in Sorted : base = <<>>
    BY <1>4
  <2>4. PICK g \in [0 .. n -> Sorted] : Recursion(n, base, step, g)
    BY <2>2, RecursionExists
  <2>5. \A i \in 0 .. n : g[i] = IF i = 0 THEN <<>> ELSE step[<<i, g[i - 1]>>]
    BY <2>3, <2>4 DEF Recursion
  <2>6. ASSUME NEW i \in 0 .. n
        PROVE  g[i] = IF i = 0 THEN <<>>
                      ELSE IF raw[i].close = NoClose THEN g[i - 1] ELSE InsertByTime(g[i - 1], raw[i])
    <3>1. CASE i = 0
      BY <2>5, <3>1
    <3>2. CASE i # 0
      <4>1. g[i] = step[<<i, g[i - 1]>>] /\ <<i, g[i - 1]>> \in (1 .. n) \X Sorted
        BY <2>4, <2>5, <3>2
      <4> QED BY <2>1, <3>2, <4>1
    <3> QED BY <3>1, <3>2
  <2>7. g = Step(g)
    BY <1>1, <2>4, <2>6
  <2> HIDE DEF Step
  <2> QED BY <2>7
<1>6. h = Step(h)
  <2> HIDE DEF Step
  <2> QED BY <1>5
<1> HIDE DEF h
<1>7. \A i \in 0 .. n : h[i] = IF i = 0 THEN <<>>
        ELSE IF raw[i].close = NoClose THEN h[i - 1] ELSE InsertByTime(h[i - 1], raw[i])
  BY <1>1, <1>6
<1> DEFINE Good(i) == h[i] \in Sorted /\ InTime(h[i]) /\ FromFirst(raw, i, h[i])
<1>8. PICK S : S = {i \in 0 .. n : Good(i)}
  OBVIOUS
<1>9. 0 \in S
  <2>1. 0 \in 0 .. n
    OBVIOUS
  <2>2. h[0] = <<>>
    BY <1>7, <2>1
  <2>3. InTime(h[0]) /\ FromFirst(raw, 0, h[0])
    BY <2>2 DEF InTime, FromFirst
  <2> QED BY <1>4, <1>8, <2>1, <2>2, <2>3
<1>10. ASSUME NEW i \in 1 .. n, i - 1 \in S
       PROVE  i \in S
  <2>1. i \in 0 .. n /\ i # 0
    OBVIOUS
  <2>2. h[i - 1] \in Sorted /\ InTime(h[i - 1]) /\ FromFirst(raw, i - 1, h[i - 1])
    BY <1>8, <1>10
  <2>3. Good(i)
    <3>1. CASE raw[i].close = NoClose
      <4>1. h[i] = h[i - 1]
        BY <1>7, <2>1, <3>1
      <4>2. FromFirst(raw, i, h[i])
        BY <2>2, <4>1 DEF FromFirst
      <4> QED BY <2>2, <4>1, <4>2
    <3>2. CASE raw[i].close # NoClose
      <4>1. h[i] = InsertByTime(h[i - 1], raw[i])
        BY <1>7, <2>1, <3>2
      <4>2. InTime(h[i]) /\ FromFirst(raw, i, h[i])
        BY <1>1, <2>2, <4>1, InsertionKeepsTimesApart
      <4>3. h[i] \in Sorted
        BY <1>2, <2>2, <4>1, InsertionKeepsTheOrder
      <4> QED BY <4>2, <4>3
    <3> QED BY <3>1, <3>2
  <2> HIDE DEF Good
  <2> QED BY <1>8, <2>1, <2>3
<1>11. \A i \in 0 .. n : i \in S
  BY <1>9, <1>10, InductionUpTo
<1>12. n \in 0 .. n
  OBVIOUS
<1> QED BY <1>3, <1>8, <1>11, <1>12

-----------------------------------------------------------------------------
\* No two dated candles of an answer are of the same time.
BarsInv ==
  /\ bars \in Seq(Bars) /\ DatedApart(bars)
  /\ \A i \in 1 .. Len(bars) : bars[i].at <= Len(bars)

\* A candle is of a time of its own, or of none.
LEMMA BarsStayApart == BarsInv /\ [Next]_vars => BarsInv'
<1> SUFFICES ASSUME BarsInv, [Next]_vars PROVE BarsInv'
  OBVIOUS
<1>1. CASE Candle
  <2>1. PICK bar : /\ \E c \in Candles : bar = [at |-> IF c.dated THEN Len(bars) + 1 ELSE Undated,
                                               close |-> c.close]
                   /\ bars' \in {Append(bars, bar), <<bar>> \o bars}
    BY <1>1 DEF Candle
  <2>2. PICK n, old, new : /\ n \in Nat /\ n = Len(bars)
                           /\ old \in Seq(Bars) /\ old = bars /\ new = bars'
                           /\ DatedApart(old) /\ \A i \in 1 .. n : old[i].at <= n
    BY LenProperties DEF BarsInv
  <2>3. bar \in Bars /\ bar.at \in {n + 1, Undated} /\ <<bar>> \in Seq(Bars)
    BY <2>1, <2>2, TradingAssumption DEF Bars, Undated
  <2>4. \A i \in 1 .. n : old[i] \in Bars /\ old[i].at \in Nat
    <3>1. \A i \in 1 .. n : old[i] \in Bars
      BY <2>2, ElementOfSeq
    <3> QED BY <3>1 DEF Bars
  <2>5. CASE new = Append(old, bar)
    <3>1. /\ new \in Seq(Bars) /\ Len(new) = n + 1
          /\ \A i \in 1 .. n + 1 : new[i] = IF i <= n THEN old[i] ELSE bar
      BY <2>2, <2>3, <2>5
    <3>2. \A i \in 1 .. n + 1 : new[i].at <= n + 1
      BY <2>2, <2>3, <2>4, <3>1 DEF Undated
    <3>3. DatedApart(new)
      BY <2>2, <2>3, <2>4, <3>1 DEF DatedApart, Undated
    <3> QED BY <2>2, <3>1, <3>2, <3>3 DEF BarsInv
  <2>6. CASE new = <<bar>> \o old
    <3>1. /\ new \in Seq(Bars) /\ Len(new) = n + 1
          /\ \A i \in 1 .. n + 1 : new[i] = IF i = 1 THEN bar ELSE old[i - 1]
      BY <2>2, <2>3, <2>6
    <3>2. ASSUME NEW i \in 1 .. n + 1
          PROVE  new[i].at <= n + 1
      <4>1. CASE i = 1
        BY <2>2, <2>3, <3>1, <4>1 DEF Undated
      <4>2. CASE i # 1
        <5>1. i - 1 \in 1 .. n /\ new[i] = old[i - 1]
          BY <2>2, <3>1, <4>2
        <5> QED BY <2>2, <2>4, <5>1
      <4> QED BY <4>1, <4>2
    <3>3. DatedApart(new)
      <4> SUFFICES ASSUME NEW i \in 1 .. n + 1, NEW j \in 1 .. n + 1, i # j, new[i].at # Undated
                   PROVE  new[i].at # new[j].at
        BY <3>1 DEF DatedApart
      <4>1. CASE i = 1
        <5>1. j - 1 \in 1 .. n /\ new[j] = old[j - 1] /\ new[i] = bar
          BY <2>2, <3>1, <4>1
        <5> QED BY <2>2, <2>3, <2>4, <5>1
      <4>2. CASE j = 1
        <5>1. i - 1 \in 1 .. n /\ new[i] = old[i - 1] /\ new[j] = bar
          BY <2>2, <3>1, <4>2
        <5> QED BY <2>2, <2>3, <2>4, <5>1
      <4>3. CASE i # 1 /\ j # 1
        <5>1. /\ i - 1 \in 1 .. n /\ new[i] = old[i - 1] /\ j - 1 \in 1 .. n /\ new[j] = old[j - 1]
              /\ i - 1 # j - 1
          BY <2>2, <3>1, <4>3
        <5> QED BY <2>2, <5>1 DEF DatedApart
      <4> QED BY <4>1, <4>2, <4>3
    <3> QED BY <2>2, <3>1, <3>2, <3>3 DEF BarsInv
  <2> QED BY <2>1, <2>2, <2>5, <2>6
<1>2. CASE EvaluateCrossover \/ EvaluateRsi \/ EvaluateAi
  <2>1. bars' = <<>>
    BY <1>2 DEF EvaluateCrossover, EvaluateRsi, EvaluateAi, Propose
  <2> QED BY <2>1 DEF BarsInv, DatedApart
<1>3. CASE AttachOption \/ Decide \/ UNCHANGED vars
  <2>1. bars' = bars
    BY <1>3 DEF AttachOption, Decide, vars
  <2> QED BY <2>1 DEF BarsInv
<1> QED BY <1>1, <1>2, <1>3 DEF Next

\* In every state the engines see the candles in order, and their signals are those of
\* the definitions, for any candles, however many, and any periods and thresholds.
THEOREM SlidingSumsAreWindows == Spec => []IndicatorsMatchTheirWindows
<1>1. Init => BarsInv
  BY DEF Init, BarsInv, DatedApart
<1>2. BarsInv => IndicatorsMatchTheirWindows
  <2> SUFFICES ASSUME BarsInv PROVE IndicatorsMatchTheirWindows
    OBVIOUS
  <2>1. PICK series : series = NormalizeBars(bars)
    OBVIOUS
  <2>2. series \in Sorted /\ InTime(series)
    BY <2>1, NormalizedBarsAreInTime DEF BarsInv
  <2>3. PICK n \in Nat : n = Len(series) /\ DOMAIN series = 1 .. n /\ \A i \in 1 .. n : series[i] \in Bars
    BY <2>2, SortedBars, LenProperties
  <2>4. ClosesOf(series) \in [1 .. n -> Int]
    BY <2>3 DEF ClosesOf, Bars
  <2>5. \A i, j \in DOMAIN series : i < j /\ series[i].at # Undated => series[i].at < series[j].at
    BY <2>2, <2>3 DEF InTime
  <2>6. /\ (CrossoverSignal(ClosesOf(series)) = "BUY") = CrossesUp(ClosesOf(series))
        /\ (CrossoverSignal(ClosesOf(series)) = "SELL") = CrossesUp(Mirror(ClosesOf(series)))
    BY <2>4, CrossoverIsACrossing
  <2>7. /\ (RsiSignal(ClosesOf(series)) = "BUY") = RsiAtMost(ClosesOf(series), Oversold)
        /\ (RsiSignal(ClosesOf(series)) = "SELL") = RsiAtMost(Mirror(ClosesOf(series)), 100 - Overbought)
    BY <2>4, RsiIsAShareOfGains
  <2> QED BY <2>1, <2>5, <2>6, <2>7 DEF IndicatorsMatchTheirWindows
<1> QED BY <1>1, <1>2, BarsStayApart, PTL DEF Spec
=============================================================================
