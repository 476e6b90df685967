--------------------------- MODULE RequestsProofs ---------------------------
(***************************************************************************)
(* What holds of RequestParts for every price list, every deployment and   *)
(* everything a provider may do; for every catalogue and everything its    *)
(* sources may answer; and for every model and every wish for thought.     *)
(***************************************************************************)
EXTENDS RequestParts, FiniteSetTheorems, WellFoundedInduction, TLAPS

-----------------------------------------------------------------------------
(* Finite sets and the numbers in them.                                    *)

\* Metering has the definition of finite sets for its own.
LEMMA MeteringFinite == \A X : M!IsFiniteSet(X) <=> IsFiniteSet(X)
BY DEF M!IsFiniteSet, IsFiniteSet

LEMMA ImageFinite ==
    ASSUME NEW X, IsFiniteSet(X), NEW f
    PROVE  IsFiniteSet({f[x] : x \in X})
<1> DEFINE T == {f[x] : x \in X}
           g == [x \in X |-> f[x]]
<1>1. g \in Surjection(X, T)
  BY DEF Surjection
<1> QED  BY <1>1, FS_Surjection

LEMMA GreatestNumber ==
    ASSUME NEW X, X \subseteq Nat, IsFiniteSet(X), X # {}
    PROVE  \E x \in X : \A y \in X : y <= x
<1> DEFINE Above(x) == {y \in X : x < y}
           T == {Above(x) : x \in X}
<1>1. T \subseteq FiniteSubsetsOf(X) /\ T # {}
  <2>1. \A x \in X : Above(x) \in FiniteSubsetsOf(X)
    BY FS_Subset DEF FiniteSubsetsOf
  <2> QED  BY <2>1
<1>2. PICK U \in T : \A V \in T : <<V, U>> \notin StrictSubsetOrdering(X)
  <2> HIDE DEF T
  <2> QED  BY <1>1, WFMin, FS_StrictSubsetOrderingWellFounded
<1>3. PICK x \in X : U = Above(x)
  OBVIOUS
<1>4. ASSUME NEW y \in X, x < y PROVE FALSE
  <2>1. \A z \in X : z \in Nat
    OBVIOUS
  <2>2. Above(y) \in T
    OBVIOUS
  <2> HIDE DEF T
  <2>3. \A z \in X : y < z => x < z
    BY <1>4, <2>1
  <2>4. y \in Above(x) /\ y \notin Above(y)
    BY <1>4, <2>1
  <2>5. <<Above(y), Above(x)>> \in StrictSubsetOrdering(X)
    BY <2>3, <2>4 DEF StrictSubsetOrdering
  <2> QED  BY <1>2, <1>3, <2>2, <2>5
<1>5. \A y \in X : y \in Nat /\ x \in Nat
  OBVIOUS
<1> HIDE DEF T
<1> QED  BY <1>4, <1>5

LEMMA Numbers == None \notin Nat /\ None \notin STRING /\ None \notin M!AllUsages /\ None \notin M!AllWorks
                 /\ None \notin M!AllImages /\ None \notin M!BracketedLists
BY RequestsAssumption DEF M!WellMeant

\* The element of a finite set whose number is the greatest.
LEMMA GreatestOf ==
    ASSUME NEW X, IsFiniteSet(X), X # {}, NEW f, \A x \in X : f[x] \in Nat
    PROVE  \E x \in X : \A y \in X : f[y] <= f[x]
<1> DEFINE N == {f[x] : x \in X}
<1>1. IsFiniteSet(N)
  BY ImageFinite
<1>2. N \subseteq Nat /\ N # {}
  OBVIOUS
<1>3. PICK n \in N : \A k \in N : k <= n
  <2> HIDE DEF N
  <2> QED  BY <1>1, <1>2, GreatestNumber
<1> QED  BY <1>3

\* A tier that a prompt has reached.
LEMMA TierOf ==
    ASSUME NEW X, IsFiniteSet(X), X # {}, \A t \in X : t.above \in Nat
    PROVE  LET t == CHOOSE v \in X : \A u \in X : u.above <= v.above
           IN  t \in X /\ \A u \in X : u.above <= t.above
<1> DEFINE f == [x \in X |-> x.above]
<1>1. \A x \in X : f[x] \in Nat
  OBVIOUS
<1>2. PICK x \in X : \A y \in X : f[y] <= f[x]
  <2> HIDE DEF f
  <2> QED  BY <1>1, GreatestOf
<1>3. \A y \in X : y.above <= x.above
  BY <1>2
<1> HIDE DEF f
<1> QED  BY <1>3

LEMMA RateIs ==
    ASSUME NEW p \in M!PriceLists, IsFiniteSet(p.tiers), NEW rate \in M!TokenRates, NEW prompt \in Nat
    PROVE  M!effectiveRate(p, rate, prompt) \in Nat /\ M!effectiveRate(p, rate, prompt) \in M!RatesOf(p) \cup {0}
<1> DEFINE exceeded == {t \in p.tiers : prompt > t.above /\ t[rate] # None}
           top == CHOOSE t \in exceeded : \A u \in exceeded : u.above <= t.above
<1>1. \A t \in p.tiers : t.above \in Nat /\ \A f \in M!TokenRates : t[f] \in M!Sums
  BY DEF M!PriceLists, M!TokenRates
<1>2. \A f \in M!TokenRates : p[f] \in M!Sums
  BY DEF M!PriceLists, M!TokenRates
<1>3. CASE exceeded # {}
  <2>1. IsFiniteSet(exceeded)
    BY FS_Subset
  <2>2. top \in exceeded
    <3> HIDE DEF exceeded
    <3>1. \A t \in exceeded : t.above \in Nat
      BY <1>1 DEF exceeded
    <3> QED  BY <1>3, <2>1, <3>1, TierOf
  <2>3. M!effectiveRate(p, rate, prompt) = top[rate]
    BY <1>3 DEF M!effectiveRate
  <2>4. top \in p.tiers /\ top[rate] # None /\ top[rate] \in Nat
    BY <1>1, <2>2 DEF M!Sums
  <2> HIDE DEF top
  <2>5. top[rate] \in M!RatesOf(p)
    BY <2>4 DEF M!RatesOf
  <2> QED  BY <2>3, <2>4, <2>5
<1>4. CASE exceeded = {}
  <2>1. M!effectiveRate(p, rate, prompt) =
          IF rate \in {"cacheRead", "cacheWrite"} THEN M!Default(p[rate], M!Default(p.input, 0)) ELSE M!Default(p[rate], 0)
    BY <1>4 DEF M!effectiveRate
  <2>2. \A f \in M!TokenRates : p[f] # None => p[f] \in M!RatesOf(p) /\ p[f] \in Nat
    BY <1>2 DEF M!RatesOf, M!Sums
  <2>3. p.input = p["input"] /\ "input" \in M!TokenRates
    BY DEF M!TokenRates
  <2> QED  BY <2>1, <2>2, <2>3 DEF M!Default
<1> QED  BY <1>3, <1>4

LEMMA RatesFinite ==
    ASSUME NEW p \in M!PriceLists, IsFiniteSet(p.tiers)
    PROVE  IsFiniteSet(M!RatesOf(p)) /\ M!RatesOf(p) \subseteq Nat
<1> DEFINE A == {p[f] : f \in M!TokenRates}
           P == p.tiers \X M!TokenRates
           g == [x \in P |-> x[1][x[2]]]
           B == {g[x] : x \in P}
<1>1. IsFiniteSet(M!TokenRates)
  <2>1. M!TokenRates = (({"input"} \cup {"output"}) \cup {"cacheRead"}) \cup {"cacheWrite"}
    BY DEF M!TokenRates
  <2> QED  BY <2>1, FS_Singleton, FS_Union
<1>2. IsFiniteSet(A)
  BY <1>1, ImageFinite
<1>3. IsFiniteSet(B)
  <2>1. IsFiniteSet(P)
    BY <1>1, FS_Product
  <2> HIDE DEF P, g
  <2> QED  BY <2>1, ImageFinite
<1>4. M!RatesOf(p) \subseteq A \cup B
  <2>1. \A t \in p.tiers, f \in M!TokenRates : t[f] \in B
    <3> TAKE t \in p.tiers, f \in M!TokenRates
    <3>1. <<t, f>> \in P /\ g[<<t, f>>] = t[f]
      OBVIOUS
    <3> QED  BY <3>1
  <2> HIDE DEF A, B
  <2> QED  BY <2>1 DEF M!RatesOf, A
<1>5. M!RatesOf(p) \subseteq Nat
  BY DEF M!RatesOf, M!PriceLists, M!TokenRates, M!Sums
<1> HIDE DEF A, B
<1> QED  BY <1>2, <1>3, <1>4, <1>5, FS_Union, FS_Subset

-----------------------------------------------------------------------------
(* What is counted of some work.                                           *)

Counted(w) == M!mapUsage(w.of, M!Report(w.of, w))
ModelOK ==
    /\ deployment \in M!AllModels /\ deployment.wire \in M!Wires[deployment.endpoint]
    /\ IsFiniteSet(deployment.pricing.tiers)

LEMMA WorkIs ==
    ASSUME NEW w \in M!AllWorks
    PROVE  /\ w.fresh \in Nat /\ w.read \in Nat /\ w.write \in Nat /\ w.visible \in Nat /\ w.thought \in Nat
           /\ w.omitted \in BOOLEAN /\ w.units \in M!Sums /\ w.cost \in M!Sums /\ w.seconds \in Nat
           /\ M!Input(w) \in Nat /\ M!Output(w) \in Nat
BY DEF M!AllWorks, M!Input, M!Output

\* A usage written out, and how each adapter fills one.
Tally(p, c, t, read, write, thoughts, units, cost) ==
    [prompt |-> p, completion |-> c, total |-> t, cacheRead |-> read, cacheWrite |-> write,
     reasoning |-> thoughts, units |-> units, seconds |-> 0, cost |-> cost]
WithThought(p, c, t, a, b) == [M!Usage(p, c, t) EXCEPT !.cacheRead = a, !.reasoning = b]
WithCache(p, c, t, a, b) == [M!Usage(p, c, t) EXCEPT !.cacheRead = a, !.cacheWrite = b]
WithUnits(p, c, t, a, b) == [M!Usage(p, c, t) EXCEPT !.units = a, !.cost = b]

LEMMA TallyIs ==
    ASSUME NEW p, NEW c, NEW t, NEW a, NEW b
    PROVE  /\ WithThought(p, c, t, a, b) = Tally(p, c, t, a, 0, b, 0, None)
           /\ WithCache(p, c, t, a, b) = Tally(p, c, t, a, b, 0, 0, None)
           /\ WithUnits(p, c, t, a, b) = Tally(p, c, t, 0, 0, 0, a, b)
<1>1. M!Usage(p, c, t) = Tally(p, c, t, 0, 0, 0, 0, None)
  BY DEF M!Usage, Tally
<1>2. [Tally(p, c, t, 0, 0, 0, 0, None) EXCEPT !.cacheRead = a] = Tally(p, c, t, a, 0, 0, 0, None)
  BY DEF Tally
<1>3. [Tally(p, c, t, 0, 0, 0, 0, None) EXCEPT !.cacheRead = a, !.reasoning = b]
        = [Tally(p, c, t, a, 0, 0, 0, None) EXCEPT !.reasoning = b]
  BY <1>2
<1>4. [Tally(p, c, t, 0, 0, 0, 0, None) EXCEPT !.cacheRead = a, !.cacheWrite = b]
        = [Tally(p, c, t, a, 0, 0, 0, None) EXCEPT !.cacheWrite = b]
  BY <1>2
<1>5. [Tally(p, c, t, 0, 0, 0, 0, None) EXCEPT !.units = a] = Tally(p, c, t, 0, 0, 0, a, None)
  BY DEF Tally
<1>6. [Tally(p, c, t, 0, 0, 0, 0, None) EXCEPT !.units = a, !.cost = b]
        = [Tally(p, c, t, 0, 0, 0, a, None) EXCEPT !.cost = b]
  BY <1>5
<1>7. WithThought(p, c, t, a, b) = Tally(p, c, t, a, 0, b, 0, None)
  BY <1>1, <1>3 DEF WithThought, Tally
<1>8. WithCache(p, c, t, a, b) = Tally(p, c, t, a, b, 0, 0, None)
  BY <1>1, <1>4 DEF WithCache, Tally
<1>9. WithUnits(p, c, t, a, b) = Tally(p, c, t, 0, 0, 0, a, b)
  BY <1>1, <1>6 DEF WithUnits, Tally
<1> QED  BY <1>7, <1>8, <1>9

\* A text wire counts all of it, cached tokens and thoughts apart where it tells them apart.
LEMMA TextCounted ==
    ASSUME NEW w \in M!AllWorks, w.of \in {"anthropic", "chat", "responses", "gemini"}
    PROVE  \E t \in {M!Input(w) + M!Output(w)} \cup IF w.omitted THEN {0} ELSE {} :
              Counted(w) = Tally(M!Input(w), M!Output(w), t, w.read, IF w.of = "anthropic" THEN w.write ELSE 0,
                                 IF w.of = "anthropic" THEN 0 ELSE w.thought, 0, None)
<1> DEFINE r == M!Report(w.of, w)
           all == M!Input(w) + M!Output(w)
<1>1. /\ r.cacheRead = w.read /\ r.total = IF w.omitted THEN None ELSE all
      /\ w.of = "anthropic" => r.input = w.fresh /\ r.output = M!Output(w) /\ r.cacheWrite = w.write
      /\ w.of # "anthropic" => r.input = M!Input(w) /\ r.thoughts = w.thought
      /\ w.of \in {"chat", "responses"} => r.output = M!Output(w)
      /\ w.of = "gemini" => r.output = w.visible
  BY DEF M!Report
<1>2. /\ w.fresh \in Nat /\ w.read \in Nat /\ w.write \in Nat /\ w.visible \in Nat /\ w.thought \in Nat
      /\ w.omitted \in BOOLEAN /\ all \in Nat /\ None \notin Nat
      /\ M!Input(w) = w.fresh + w.read + w.write /\ M!Output(w) = w.visible + w.thought
  BY WorkIs, Numbers DEF M!Input, M!Output
<1> HIDE DEF r
<1>3. M!Default(r.total, 0) = (IF w.omitted THEN 0 ELSE all) /\ M!Default(r.total, all) = all
  BY <1>1, <1>2 DEF M!Default
<1>4. CASE w.of = "anthropic"
  <2>1. Counted(w) = M!AnthropicUsage(r)
    BY <1>4 DEF Counted, M!mapUsage, r
  <2>2. Counted(w) = WithCache(r.input + r.cacheRead + r.cacheWrite, r.output,
                               r.input + r.cacheRead + r.cacheWrite + r.output, r.cacheRead, r.cacheWrite)
    BY <2>1 DEF M!AnthropicUsage, WithCache
  <2>3. Counted(w) = WithCache(M!Input(w), M!Output(w), all, w.read, w.write)
    BY <1>1, <1>2, <1>4, <2>2
  <2>4. Counted(w) = Tally(M!Input(w), M!Output(w), all, w.read, w.write, 0, 0, None)
    BY <2>3, TallyIs
  <2>5. all \in {M!Input(w) + M!Output(w)} \cup IF w.omitted THEN {0} ELSE {}
    OBVIOUS
  <2> HIDE DEF all
  <2> QED  BY <1>4, <2>4, <2>5
<1>5. CASE w.of \in {"chat", "responses"}
  <2>1. Counted(w) = M!ChatUsage(r) \/ Counted(w) = M!ResponsesUsage(r)
    BY <1>5 DEF Counted, M!mapUsage, r
  <2>2. Counted(w) = WithThought(r.input, r.output, M!Default(r.total, 0), r.cacheRead, r.thoughts)
    BY <2>1 DEF M!ChatUsage, M!ResponsesUsage, WithThought
  <2>3. Counted(w) = WithThought(M!Input(w), M!Output(w), IF w.omitted THEN 0 ELSE all, w.read, w.thought)
    BY <1>1, <1>3, <1>5, <2>2
  <2> QED  BY <1>2, <1>5, <2>3, TallyIs
<1>6. CASE w.of = "gemini"
  <2>1. Counted(w) = M!mapGeminiUsage(r)
    BY <1>6 DEF Counted, M!mapUsage, r
  <2>2. Counted(w) = WithThought(r.input, r.output + r.thoughts, M!Default(r.total, r.input + (r.output + r.thoughts)),
                                 r.cacheRead, r.thoughts)
    BY <2>1 DEF M!mapGeminiUsage, WithThought
  <2>3. r.input + (r.output + r.thoughts) = all /\ r.output + r.thoughts = M!Output(w)
    BY <1>1, <1>2, <1>6
  <2>4. Counted(w) = WithThought(M!Input(w), M!Output(w), all, w.read, w.thought)
    BY <1>1, <1>3, <1>6, <2>2, <2>3
  <2>5. Counted(w) = Tally(M!Input(w), M!Output(w), all, w.read, 0, w.thought, 0, None)
    BY <2>4, TallyIs
  <2>6. all \in {M!Input(w) + M!Output(w)} \cup IF w.omitted THEN {0} ELSE {}
    OBVIOUS
  <2> HIDE DEF all
  <2> QED  BY <1>6, <2>5, <2>6
<1> QED  BY <1>4, <1>5, <1>6

\* A reranker counts what it read and the units it charges for, and the cost it names
\* if its wire has a field for that.
LEMMA RerankCounted ==
    ASSUME NEW w \in M!AllWorks, M!Tellable(w), w.of \in {"vercel_rerank", "openrouter_rerank"}, Counted(w) # None
    PROVE  Counted(w) = Tally(M!Input(w), M!Output(w), M!Input(w), 0, 0, 0, M!Default(w.units, 0),
                              IF w.of = "openrouter_rerank" THEN w.cost ELSE None)
<1> DEFINE r == M!Report(w.of, w)
           cost == IF w.of = "openrouter_rerank" THEN w.cost ELSE None
<1>1. r.units = w.units /\ r.cost = w.cost /\ r.total = IF w.omitted THEN None ELSE M!Input(w) + M!Output(w)
  BY DEF M!Report
<1>2. Counted(w) = M!rerankUsage(r, cost)
  BY <1>1 DEF Counted, M!mapUsage, M!openrouterRerankUsage
<1> HIDE DEF r, cost
<1>3. M!Output(w) = 0 /\ (w.omitted => M!Input(w) = 0) /\ M!Input(w) \in Nat /\ w.omitted \in BOOLEAN
         /\ None \notin Nat
  BY WorkIs, Numbers DEF M!Tellable, M!Wires, M!Input, M!Output
<1>4. M!Default(r.total, 0) = M!Input(w) /\ M!Default(r.units, 0) = M!Default(w.units, 0)
  BY <1>1, <1>3 DEF M!Default
<1>5. Counted(w) = WithUnits(M!Default(r.total, 0), 0, M!Default(r.total, 0), M!Default(r.units, 0), cost)
  BY <1>2 DEF M!rerankUsage, WithUnits
<1> QED  BY <1>3, <1>4, <1>5, TallyIs DEF cost

\* What is counted of some work: all of it, or none where a total is missing.
LEMMA CountedIs ==
    ASSUME NEW w \in M!AllWorks, M!Tellable(w)
    PROVE  /\ Counted(w) \in M!AllUsages \cup {None}
           /\ Counted(w) # None =>
                LET u == Counted(w)
                    tells == w.of = "anthropic"
                    cached == w.of \in {"anthropic", "chat", "responses", "gemini"}
                IN  /\ u.prompt = M!Input(w) /\ u.completion = M!Output(w)
                    /\ u.cacheRead = (IF cached THEN w.read ELSE 0)
                    /\ u.cacheWrite = (IF tells THEN w.write ELSE 0)
                    /\ u.units = M!Default(w.units, 0)
                    /\ u.seconds = w.seconds
                    /\ u.cost = (IF w.of = "openrouter_rerank" THEN w.cost ELSE None)
                    /\ cached => /\ u.reasoning = (IF tells THEN 0 ELSE w.thought)
                                 /\ u.total \in {M!Input(w) + M!Output(w)} \cup IF w.omitted THEN {0} ELSE {}
           /\ w.of \in M!Wires["text"] => Counted(w) # None
<1>1. /\ w.fresh \in Nat /\ w.read \in Nat /\ w.write \in Nat /\ w.visible \in Nat /\ w.thought \in Nat
      /\ w.omitted \in BOOLEAN /\ w.units \in M!Sums /\ w.cost \in M!Sums /\ w.seconds \in Nat
      /\ M!Input(w) \in Nat /\ M!Output(w) \in Nat
      /\ None \notin Nat /\ None \notin M!AllUsages
      /\ w.of \in {"anthropic", "chat", "responses", "gemini", "embeddings", "gemini_embeddings",
                   "vercel_rerank", "openrouter_rerank", "tokens", "duration", "images", "gemini_images"}
  BY WorkIs, Numbers DEF M!AllWorks, M!Wires, M!Kinds
<1>2. CASE w.of \in {"anthropic", "chat", "responses", "gemini"}
  <2>1. PICK t \in {M!Input(w) + M!Output(w)} \cup IF w.omitted THEN {0} ELSE {} :
           Counted(w) = Tally(M!Input(w), M!Output(w), t, w.read, IF w.of = "anthropic" THEN w.write ELSE 0,
                              IF w.of = "anthropic" THEN 0 ELSE w.thought, 0, None)
    BY <1>2, TextCounted
  <2>2. w.units = None /\ w.seconds = 0 /\ t \in Nat /\ w.of # "openrouter_rerank"
    BY <1>1, <1>2 DEF M!Tellable, M!Wires
  <2>3. Counted(w) \in M!AllUsages
    BY <1>1, <2>1, <2>2 DEF Tally, M!AllUsages, M!Sums
  <2> QED  BY <1>1, <1>2, <2>1, <2>2, <2>3 DEF Tally, M!Default
<1>3. CASE w.of \in {"vercel_rerank", "openrouter_rerank"}
  <2>1. w.seconds = 0 /\ w.of \notin M!Wires["text"]
    BY <1>1, <1>3 DEF M!Tellable, M!Wires
  <2>2. CASE Counted(w) # None
    <3> DEFINE cost == IF w.of = "openrouter_rerank" THEN w.cost ELSE None
    <3>1. Counted(w) = Tally(M!Input(w), M!Output(w), M!Input(w), 0, 0, 0, M!Default(w.units, 0), cost)
      BY <1>3, <2>2, RerankCounted
    <3>2. cost \in M!Sums /\ M!Default(w.units, 0) \in Nat
      BY <1>1 DEF M!Sums, M!Default
    <3> HIDE DEF cost
    <3>3. Counted(w) \in M!AllUsages
      BY <1>1, <3>1, <3>2 DEF Tally, M!AllUsages
    <3> QED  BY <1>3, <2>1, <3>1, <3>3 DEF Tally, cost
  <2> QED  BY <2>1, <2>2
<1>4. CASE w.of = "embeddings"
  BY <1>1, <1>4 DEF Counted, M!mapUsage, M!embeddingsUsage, M!Usage, M!Report, M!Input, M!Output, M!AllUsages, M!Sums,
     M!Tellable, M!Wires, M!Default
<1>5. CASE w.of = "gemini_embeddings"
  BY <1>1, <1>5 DEF Counted, M!mapUsage, M!geminiEmbeddingsUsage, M!Usage, M!Report, M!Input, M!Output, M!AllUsages,
     M!Sums, M!Tellable, M!Wires, M!Default
<1>6. CASE w.of \in {"tokens", "duration"}
  BY <1>1, <1>6 DEF Counted, M!mapUsage, M!transcriptionUsage, M!Usage, M!Report, M!Input, M!Output, M!AllUsages,
     M!Sums, M!Tellable, M!Wires, M!Default
<1>7. CASE w.of = "images"
  BY <1>1, <1>7 DEF Counted, M!mapUsage, M!imageUsage, M!Usage, M!Report, M!Input, M!Output, M!AllUsages, M!Sums,
     M!Tellable, M!Wires, M!Default
<1>8. CASE w.of = "gemini_images"
  BY <1>1, <1>8 DEF Counted, M!mapUsage, M!geminiImageUsage, M!Usage, M!Report, M!Input, M!Output, M!AllUsages,
     M!Sums,
     M!Tellable, M!Wires, M!Default
<1> QED  BY <1>1, <1>2, <1>3, <1>4, <1>5, <1>6, <1>7, <1>8

LEMMA LessIs ==
    ASSUME NEW a \in Nat, NEW b \in Nat
    PROVE  M!Less(a + b, b) = a
BY DEF M!Less

\* An upper bound of what some work costs.
LEMMA Bounded ==
    ASSUME NEW n \in Nat, NEW r \in Nat, NEW g \in Nat, r <= g
    PROVE  n * r \in Nat /\ n * r <= n * g
OBVIOUS

\* What is made of a usage, when the price list is known.
Bill(pricing, u) ==
    M!Less(u.prompt, u.cacheRead + u.cacheWrite) * M!effectiveRate(pricing, "input", u.prompt)
    + u.cacheRead * M!effectiveRate(pricing, "cacheRead", u.prompt)
    + u.cacheWrite * M!effectiveRate(pricing, "cacheWrite", u.prompt)
    + u.completion * M!effectiveRate(pricing, "output", u.prompt)
    + u.units * M!Default(pricing.unit, 0) + u.seconds * M!Default(pricing.second, 0)
Known(pricing) == M!RatesOf(pricing) # {} \/ pricing.unit # None \/ pricing.second # None \/ pricing.tiers # {}

LEMMA CostIs ==
    ASSUME NEW p, NEW u
    PROVE  M!computeCost(p, u) = IF Known(p) THEN Bill(p, u) ELSE M!Default(u.cost, Bill(p, u))
BY DEF M!computeCost, Known, Bill

\* Nothing is known of a price list with no rates.
LEMMA UnknownRates ==
    ASSUME NEW p \in M!PriceLists, IsFiniteSet(p.tiers), ~Known(p), NEW prompt \in Nat
    PROVE  /\ \A rate \in M!TokenRates : M!effectiveRate(p, rate, prompt) = 0
           /\ M!Default(p.unit, 0) = 0 /\ M!Default(p.second, 0) = 0
<1>1. \A rate \in M!TokenRates : M!effectiveRate(p, rate, prompt) = 0
  BY RateIs DEF Known
<1> QED  BY <1>1 DEF Known, M!Default

LEMMA CostIsDue ==
    ASSUME ModelOK, NEW w \in M!AllWorks, M!Tellable(w), w.of = deployment.wire, Counted(w) # None
    PROVE  M!computeCost(deployment.pricing, Counted(w)) = M!Due(w) /\ M!Due(w) \in Nat
<1> DEFINE p == deployment.pricing
           u == Counted(w)
           tells == w.of = "anthropic"
           cached == w.of \in {"anthropic", "chat", "responses", "gemini"}
           Rate(rate) == M!effectiveRate(p, rate, M!Input(w))
           unit == M!Default(p.unit, 0)
           second == M!Default(p.second, 0)
           f == w.fresh + (IF cached THEN 0 ELSE w.read) + (IF tells THEN 0 ELSE w.write)
           c == IF cached THEN w.read ELSE 0
           h == IF tells THEN w.write ELSE 0
<1>1. p \in M!PriceLists /\ IsFiniteSet(p.tiers)
  BY DEF ModelOK, M!AllModels
<1>2. /\ w.fresh \in Nat /\ w.read \in Nat /\ w.write \in Nat /\ w.units \in M!Sums /\ w.cost \in M!Sums
      /\ w.seconds \in Nat
      /\ M!Input(w) \in Nat /\ M!Output(w) \in Nat /\ M!Input(w) = w.fresh + w.read + w.write
  BY WorkIs DEF M!Input
<1>3. /\ u.prompt = M!Input(w) /\ u.completion = M!Output(w) /\ u.cacheRead = c /\ u.cacheWrite = h
      /\ u.units = M!Default(w.units, 0) /\ u.seconds = w.seconds
      /\ u.cost = IF w.of = "openrouter_rerank" THEN w.cost ELSE None
  BY CountedIs
<1>4. unit \in Nat /\ second \in Nat /\ M!Default(w.units, 0) \in Nat
  BY <1>1, <1>2 DEF M!PriceLists, M!Sums, M!Default
<1>5. Rate("input") \in Nat /\ Rate("cacheRead") \in Nat /\ Rate("cacheWrite") \in Nat /\ Rate("output") \in Nat
  BY <1>1, <1>2, RateIs DEF M!TokenRates
<1>6. M!Less(u.prompt, u.cacheRead + u.cacheWrite) = f /\ f \in Nat /\ c \in Nat /\ h \in Nat
  BY <1>2, <1>3 DEF M!Less
<1>7. Bill(p, u) = f * Rate("input") + c * Rate("cacheRead") + h * Rate("cacheWrite") + M!Output(w) * Rate("output")
                   + M!Default(w.units, 0) * unit + w.seconds * second
  BY <1>3, <1>6 DEF Bill
<1>8. CASE ~Known(p)
  <2>1. Bill(p, u) = 0
    <3>1. Rate("input") = 0 /\ Rate("cacheRead") = 0 /\ Rate("cacheWrite") = 0 /\ Rate("output") = 0
             /\ unit = 0 /\ second = 0
      BY <1>1, <1>2, <1>8, UnknownRates DEF M!TokenRates
    <3> HIDE DEF f, c, h, Rate, unit, second
    <3> QED  BY <1>2, <1>4, <1>6, <1>7, <3>1
  <2>2. M!Due(w) = IF w.of = "openrouter_rerank" THEN M!Default(w.cost, 0) ELSE 0
    <3>1. ~(M!RatesOf(p) # {} \/ p.unit # None \/ p.second # None \/ p.tiers # {})
      BY <1>8 DEF Known
    <3> QED  BY <3>1 DEF M!Due
  <2>3. M!computeCost(p, u) = M!Default(u.cost, 0)
    BY <1>8, <2>1, CostIs
  <2> QED  BY <1>2, <1>3, <2>2, <2>3 DEF M!Default, M!Sums
<1>9. CASE Known(p) /\ w.of = "duration"
  <2>1. M!Due(w) = w.seconds * second
    BY <1>9 DEF M!Due, Known
  <2>2. w.fresh = 0 /\ w.read = 0 /\ w.write = 0 /\ M!Output(w) = 0 /\ w.units = None
    <3>1. w.of \notin M!Wires["rerank"]
      BY <1>9 DEF M!Wires
    <3>2. w.units = None /\ w.visible + w.thought = 0 /\ w.fresh + w.read + w.write = 0
      BY <1>9, <3>1 DEF M!Tellable
    <3> QED  BY <1>2, <3>2 DEF M!Output
  <2>3. f = 0 /\ c = 0 /\ h = 0 /\ M!Default(w.units, 0) = 0
    BY <1>9, <1>2, <2>2 DEF M!Default
  <2>4. Bill(p, u) = w.seconds * second
    <3> HIDE DEF f, c, h, Rate, unit, second
    <3>1. /\ f * Rate("input") = 0 /\ c * Rate("cacheRead") = 0 /\ h * Rate("cacheWrite") = 0
          /\ M!Output(w) * Rate("output") = 0 /\ M!Default(w.units, 0) * unit = 0 /\ w.seconds * second \in Nat
      BY <1>2, <1>4, <1>5, <2>2, <2>3
    <3> QED  BY <1>7, <3>1
  <2>5. M!computeCost(p, u) = Bill(p, u)
    BY <1>9, CostIs
  <2>6. w.seconds * second \in Nat
    BY <1>2, <1>4
  <2> QED  BY <2>1, <2>4, <2>5, <2>6
<1>10. CASE Known(p) /\ w.of # "duration"
  <2>1. M!Due(w) = f * Rate("input") + c * Rate("cacheRead") + h * Rate("cacheWrite") + M!Output(w) * Rate("output")
                 + M!Default(w.units, 0) * unit
    BY <1>10 DEF M!Due, Known, M!RateAt
  <2>2. w.seconds = 0
    BY <1>10, <1>2 DEF M!Tellable
  <2>3. /\ f * Rate("input") \in Nat /\ c * Rate("cacheRead") \in Nat /\ h * Rate("cacheWrite") \in Nat
        /\ M!Output(w) * Rate("output") \in Nat /\ M!Default(w.units, 0) * unit \in Nat /\ w.seconds * second = 0
    <3> HIDE DEF f, c, h, Rate, unit, second
    <3> QED  BY <1>2, <1>4, <1>5, <1>6, <2>2
  <2>4. M!computeCost(p, u) = Bill(p, u)
    BY <1>10, CostIs
  <2> HIDE DEF f, c, h, Rate, unit, second
  <2> QED  BY <1>7, <2>1, <2>3, <2>4
<1> QED  BY <1>8, <1>9, <1>10

\* Work that keeps to what was reserved costs no more than that.
LEMMA DueIsCovered ==
    ASSUME ModelOK, NEW w \in M!AllWorks, M!Tellable(w), w.of = deployment.wire, w.seconds = 0,
           NEW tokens \in Nat, NEW units \in Nat, M!Input(w) + M!Output(w) <= tokens, M!Default(w.units, 0) <= units,
           M!estimateMaximumCostCents(deployment.pricing, tokens, units) # None
    PROVE  M!Due(w) <= M!estimateMaximumCostCents(deployment.pricing, tokens, units)
<1> DEFINE p == deployment.pricing
           tells == w.of = "anthropic"
           cached == w.of \in {"anthropic", "chat", "responses", "gemini"}
           Rate(rate) == M!effectiveRate(p, rate, M!Input(w))
           unit == M!Default(p.unit, 0)
           f == w.fresh + (IF cached THEN 0 ELSE w.read) + (IF tells THEN 0 ELSE w.write)
           c == IF cached THEN w.read ELSE 0
           h == IF tells THEN w.write ELSE 0
           g == IF M!RatesOf(p) = {} THEN 0 ELSE M!Greatest(M!RatesOf(p))
           n == M!Default(w.units, 0)
<1>1. p \in M!PriceLists /\ IsFiniteSet(p.tiers)
  BY DEF ModelOK, M!AllModels
<1>2. /\ w.fresh \in Nat /\ w.read \in Nat /\ w.write \in Nat /\ w.units \in M!Sums /\ w.cost \in M!Sums
      /\ w.seconds \in Nat
      /\ M!Input(w) \in Nat /\ M!Output(w) \in Nat /\ M!Input(w) = w.fresh + w.read + w.write
  BY WorkIs DEF M!Input
<1>3. unit \in Nat /\ n \in Nat
  BY <1>1, <1>2 DEF M!PriceLists, M!Sums, M!Default
<1>4. g \in Nat /\ \A r \in M!RatesOf(p) : r <= g
  <2>1. CASE M!RatesOf(p) = {}
    BY <2>1
  <2>2. CASE M!RatesOf(p) # {}
    <3>1. \E x \in M!RatesOf(p) : \A y \in M!RatesOf(p) : y <= x
      BY <1>1, <2>2, RatesFinite, GreatestNumber
    <3>2. M!Greatest(M!RatesOf(p)) \in M!RatesOf(p) /\ \A y \in M!RatesOf(p) : y <= M!Greatest(M!RatesOf(p))
      BY <3>1 DEF M!Greatest
    <3> QED  BY <1>1, <2>2, <3>2, RatesFinite
  <2> QED  BY <2>1, <2>2
<1>5. /\ Rate("input") \in Nat /\ Rate("cacheRead") \in Nat /\ Rate("cacheWrite") \in Nat /\ Rate("output") \in Nat
      /\ Rate("input") <= g /\ Rate("cacheRead") <= g /\ Rate("cacheWrite") <= g /\ Rate("output") <= g
  <2>1. \A rate \in M!TokenRates : Rate(rate) \in Nat /\ Rate(rate) <= g
    <3> TAKE rate \in M!TokenRates
    <3>1. Rate(rate) \in Nat /\ Rate(rate) \in M!RatesOf(p) \cup {0}
      BY <1>1, <1>2, RateIs
    <3> HIDE DEF Rate, g
    <3> QED  BY <1>4, <3>1
  <2> QED  BY <2>1 DEF M!TokenRates
<1>6. f \in Nat /\ c \in Nat /\ h \in Nat /\ f + c + h = M!Input(w)
  BY <1>2
<1>7. M!estimateMaximumCostCents(p, tokens, units) = tokens * g + units * unit
  BY DEF M!estimateMaximumCostCents
<1>8. CASE Known(p) /\ w.of # "duration"
  <2>1. M!Due(w) = f * Rate("input") + c * Rate("cacheRead") + h * Rate("cacheWrite") + M!Output(w) * Rate("output") + n * unit
    BY <1>8 DEF M!Due, Known, M!RateAt
  <2> HIDE DEF f, c, h, Rate, unit, g, n
  <2>2. /\ f * Rate("input") \in Nat /\ f * Rate("input") <= f * g /\ c * Rate("cacheRead") \in Nat
        /\ c * Rate("cacheRead") <= c * g
        /\ h * Rate("cacheWrite") \in Nat /\ h * Rate("cacheWrite") <= h * g
        /\ M!Output(w) * Rate("output") \in Nat /\ M!Output(w) * Rate("output") <= M!Output(w) * g
    BY <1>2, <1>4, <1>5, <1>6, Bounded
  <2>3. n * unit <= units * unit /\ n * unit \in Nat /\ units * unit \in Nat
    <3>1. unit * n <= unit * units /\ unit * n \in Nat
      BY <1>3, Bounded DEF n
    <3> QED  BY <1>3, <3>1
  <2>4. f * g + c * g + h * g + M!Output(w) * g = (M!Input(w) + M!Output(w)) * g
    BY <1>2, <1>4, <1>6
  <2>5. (M!Input(w) + M!Output(w)) * g <= tokens * g
    <3>1. g * (M!Input(w) + M!Output(w)) <= g * tokens
      BY <1>2, <1>4, Bounded
    <3> QED  BY <1>2, <1>4, <3>1
  <2>6. f * g \in Nat /\ c * g \in Nat /\ h * g \in Nat /\ M!Output(w) * g \in Nat /\ tokens * g \in Nat
    BY <1>2, <1>4, <1>6
  <2> QED  BY <1>7, <2>1, <2>2, <2>3, <2>4, <2>5, <2>6
<1>9. CASE Known(p) /\ w.of = "duration"
  <2>1. M!Due(w) = 0
    <3>1. M!Due(w) = w.seconds * M!Default(p.second, 0)
      BY <1>9 DEF M!Due, Known
    <3>2. M!Default(p.second, 0) \in Nat
      BY <1>1 DEF M!PriceLists, M!Sums, M!Default
    <3> QED  BY <3>1, <3>2
  <2>2. tokens * g + units * unit \in Nat
    <3> HIDE DEF g, unit
    <3> QED  BY <1>3, <1>4
  <2> QED  BY <1>7, <2>1, <2>2
<1>10. CASE ~Known(p)
  BY <1>10 DEF Known, M!estimateMaximumCostCents
<1> QED  BY <1>8, <1>9, <1>10

-----------------------------------------------------------------------------
(* Price lists made of brackets.                                           *)

Holds(t, size) == t.min <= size /\ (t.max = None \/ size < t.max)

\* Contiguous brackets have one for each size.
LEMMA OneHolds ==
    ASSUME NEW raw \in M!BracketedLists, M!Contiguous(raw), NEW rate \in M!TokenRates, raw.brackets[rate] # {},
           NEW size \in Nat
    PROVE  \E t \in raw.brackets[rate] : \A u \in raw.brackets[rate] : Holds(u, size) <=> u = t
<1> DEFINE B == raw.brackets[rate]
           X == {t \in B : t.min <= size}
           f == [t \in X |-> t.min]
<1>1. \A t \in B : t.min \in Nat /\ t.max \in M!Sums
  BY DEF M!BracketedLists, M!Brackets
<1>2. /\ IsFiniteSet(B)
      /\ B # {} => \E t \in B : t.min = 0 /\ raw.flat[rate] \in {None, t.cost}
      /\ \A t \in B : t.max # None => t.min < t.max /\ \E u \in B : u.min = t.max
      /\ \A t \in B : \A u \in B \ {t} :
            (t.max # None /\ t.max <= u.min) \/ (u.max # None /\ u.max <= t.min)
  BY MeteringFinite DEF M!Contiguous
<1> HIDE DEF B
<1>3. IsFiniteSet(X) /\ X # {}
  BY <1>2, FS_Subset DEF B
<1>4. PICK t \in X : \A u \in X : f[u] <= f[t]
  <2>1. \A u \in X : f[u] \in Nat
    BY <1>1
  <2> HIDE DEF X, f
  <2> QED  BY <1>3, <2>1, GreatestOf
<1>5. t \in B /\ t.min <= size /\ \A u \in B : u.min <= size => u.min <= t.min
  BY <1>4
<1> HIDE DEF X, f
<1>6. Holds(t, size)
  BY <1>1, <1>2, <1>5 DEF Holds, M!Sums
<1>7. \A u \in B : Holds(u, size) => u = t
  BY <1>1, <1>2, <1>5, <1>6 DEF Holds, M!Sums
<1> QED  BY <1>5, <1>6, <1>7 DEF B

LEMMA TierCostIs ==
    ASSUME NEW raw \in M!BracketedLists, M!Contiguous(raw), NEW rate \in M!TokenRates, NEW size \in Nat
    PROVE  /\ raw.brackets[rate] = {} => M!tierCost(raw, rate, size) = None
           /\ \A b \in raw.brackets[rate] : Holds(b, size) => M!tierCost(raw, rate, size) = b.cost
           /\ M!tierCost(raw, rate, size) \in M!Sums
<1> DEFINE active == {t \in raw.brackets[rate] : t.min <= size /\ (t.max = None \/ size < t.max)}
<1>1. CASE raw.brackets[rate] = {}
  BY <1>1 DEF M!tierCost, M!Sums
<1>2. CASE raw.brackets[rate] # {}
  <2>1. PICK b \in raw.brackets[rate] : \A u \in raw.brackets[rate] : Holds(u, size) <=> u = b
    BY <1>2, OneHolds
  <2>2. active = {b}
    BY <2>1 DEF Holds
  <2>3. b.min \in Nat /\ b.cost \in Nat
    BY DEF M!BracketedLists, M!Brackets
  <2>4. M!tierCost(raw, rate, size) = (CHOOSE t \in {b} : \A u \in {b} : u.min <= t.min).cost
    BY <2>2 DEF M!tierCost
  <2>5. (CHOOSE t \in {b} : \A u \in {b} : u.min <= t.min) = b
    BY <2>3
  <2> QED  BY <2>1, <2>3, <2>4, <2>5 DEF M!Sums
<1> QED  BY <1>1, <1>2

Threshold(raw) == {t.min : t \in UNION {raw.brackets[f] : f \in M!TokenRates}} \ {0}
TierAt(raw, h) ==
    [above |-> h, input |-> M!tierCost(raw, "input", h), output |-> M!tierCost(raw, "output", h),
     cacheRead |-> M!tierCost(raw, "cacheRead", h), cacheWrite |-> M!tierCost(raw, "cacheWrite", h)]

LEMMA TierAtIs ==
    ASSUME NEW raw, NEW h, NEW rate \in M!TokenRates
    PROVE  TierAt(raw, h)[rate] = M!tierCost(raw, rate, h) /\ TierAt(raw, h).above = h
BY DEF TierAt, M!TokenRates

LEMMA VercelIs ==
    ASSUME NEW raw \in M!BracketedLists, M!Contiguous(raw)
    PROVE  LET p == M!pricingForVercelModel(raw)
           IN  /\ p \in M!PriceLists /\ IsFiniteSet(p.tiers)
               /\ \A rate \in M!TokenRates : p[rate] = M!Default(raw.flat[rate], M!tierCost(raw, rate, 0))
               /\ p.tiers = {t \in {TierAt(raw, h) : h \in Threshold(raw)} : \E f \in M!TokenRates : t[f] # None}
               /\ Threshold(raw) \subseteq Nat \ {0}
<1> DEFINE p == M!pricingForVercelModel(raw)
           T == {TierAt(raw, h) : h \in Threshold(raw)}
           Base(rate) == M!Default(raw.flat[rate], M!tierCost(raw, rate, 0))
<1>1. p = [input |-> Base("input"), output |-> Base("output"), cacheRead |-> Base("cacheRead"),
           cacheWrite |-> Base("cacheWrite"), unit |-> None, second |-> None,
           tiers |-> {t \in T : \E f \in M!TokenRates : t[f] # None}]
  BY DEF M!pricingForVercelModel, Threshold, TierAt
<1>2. \A rate \in M!TokenRates : Base(rate) \in M!Sums
  <2> TAKE rate \in M!TokenRates
  <2>1. raw.flat[rate] \in M!Sums /\ M!tierCost(raw, rate, 0) \in M!Sums
    BY TierCostIs DEF M!BracketedLists
  <2> QED  BY <2>1 DEF M!Default, M!Sums
<1>3. Threshold(raw) \subseteq Nat \ {0}
  BY DEF Threshold, M!BracketedLists, M!Brackets
<1>4. \A h \in Threshold(raw) :
        TierAt(raw, h) \in [above : Nat, input : M!Sums, output : M!Sums, cacheRead : M!Sums, cacheWrite : M!Sums]
  <2> TAKE h \in Threshold(raw)
  <2>1. h \in Nat /\ \A rate \in M!TokenRates : M!tierCost(raw, rate, h) \in M!Sums
    BY <1>3, TierCostIs
  <2> QED  BY <2>1 DEF TierAt, M!TokenRates
<1>5. IsFiniteSet(T)
  <2> DEFINE bs(rate) == raw.brackets[rate]
             all == ((bs("input") \cup bs("output")) \cup bs("cacheRead")) \cup bs("cacheWrite")
             f == [t \in all |-> t.min]
             g == [h \in Threshold(raw) |-> TierAt(raw, h)]
  <2>1. IsFiniteSet(bs("input")) /\ IsFiniteSet(bs("output")) /\ IsFiniteSet(bs("cacheRead"))
           /\ IsFiniteSet(bs("cacheWrite"))
    BY MeteringFinite DEF M!Contiguous, M!TokenRates
  <2>2. IsFiniteSet(all)
    <3> HIDE DEF bs
    <3> QED  BY <2>1, FS_Union
  <2>3. Threshold(raw) \subseteq {f[t] : t \in all}
    BY DEF Threshold, M!TokenRates
  <2>4. IsFiniteSet({f[t] : t \in all})
    <3> HIDE DEF all, f
    <3> QED  BY <2>2, ImageFinite
  <2>5. IsFiniteSet(Threshold(raw))
    <3> HIDE DEF all, f
    <3> QED  BY <2>3, <2>4, FS_Subset
  <2>6. IsFiniteSet({g[h] : h \in Threshold(raw)})
    <3> HIDE DEF g
    <3> QED  BY <2>5, ImageFinite
  <2>7. {g[h] : h \in Threshold(raw)} = T
    OBVIOUS
  <2> QED  BY <2>6, <2>7
<1>6. IsFiniteSet(p.tiers) /\ p.tiers \subseteq T
  <2>1. p.tiers \subseteq T
    BY <1>1
  <2> HIDE DEF T, p
  <2> QED  BY <1>5, <2>1, FS_Subset
<1>7. \A rate \in M!TokenRates : p[rate] = Base(rate)
  <2> HIDE DEF Base, T
  <2> QED  BY <1>1 DEF M!TokenRates
<1>8. p \in M!PriceLists
  <2>1. Base("input") \in M!Sums /\ Base("output") \in M!Sums /\ Base("cacheRead") \in M!Sums
           /\ Base("cacheWrite") \in M!Sums
        /\ None \in M!Sums
    BY <1>2 DEF M!TokenRates, M!Sums
  <2>2. {t \in T : \E f \in M!TokenRates : t[f] # None} \subseteq
          [above : Nat, input : M!Sums, output : M!Sums, cacheRead : M!Sums, cacheWrite : M!Sums]
    BY <1>4
  <2> HIDE DEF Base, T
  <2> QED  BY <1>1, <2>1, <2>2 DEF M!PriceLists
<1>9. p.tiers = {t \in T : \E f \in M!TokenRates : t[f] # None}
  BY <1>1
<1> QED  BY <1>3, <1>6, <1>7, <1>8, <1>9

\* The tiers made of a list charge what it says.
LEMMA TiersAgree ==
    ASSUME NEW raw \in M!BracketedLists, M!Contiguous(raw), NEW rate \in M!TokenRates, NEW size \in Nat,
           ~ \E t \in UNION {raw.brackets[f] : f \in M!TokenRates} : t.min = size
    PROVE  M!Listed(raw, rate, size) \in {None, M!effectiveRate(M!pricingForVercelModel(raw), rate, size)}
<1> DEFINE p == M!pricingForVercelModel(raw)
           B == raw.brackets[rate]
           exceeded == {t \in p.tiers : size > t.above /\ t[rate] # None}
           top == CHOOSE t \in exceeded : \A u \in exceeded : u.above <= t.above
           flat == raw.flat[rate]
           base == M!Default(flat, M!tierCost(raw, rate, 0))
<1>1. /\ p \in M!PriceLists /\ IsFiniteSet(p.tiers) /\ p[rate] = base
      /\ p.tiers = {t \in {TierAt(raw, h) : h \in Threshold(raw)} : \E f \in M!TokenRates : t[f] # None}
      /\ Threshold(raw) \subseteq Nat \ {0}
  BY VercelIs
<1> HIDE DEF p
<1>2. flat \in M!Sums /\ \A t \in B : t.min \in Nat /\ t.max \in M!Sums /\ t.cost \in Nat
  BY DEF M!BracketedLists, M!Brackets
<1>3. exceeded # {} => /\ top \in exceeded /\ \A u \in exceeded : u.above <= top.above
                       /\ M!effectiveRate(p, rate, size) = top[rate]
  <2> SUFFICES ASSUME exceeded # {}
               PROVE  /\ top \in exceeded /\ \A u \in exceeded : u.above <= top.above
                      /\ M!effectiveRate(p, rate, size) = top[rate]
    OBVIOUS
  <2>1. IsFiniteSet(exceeded)
    BY <1>1, FS_Subset
  <2>2. \A t \in exceeded : t.above \in Nat
    BY <1>1 DEF M!PriceLists
  <2>3. M!effectiveRate(p, rate, size) = top[rate]
    BY DEF M!effectiveRate
  <2>4. top \in exceeded /\ \A u \in exceeded : u.above <= top.above
    <3> HIDE DEF exceeded
    <3> QED  BY <2>1, <2>2, TierOf
  <2> QED  BY <2>3, <2>4
<1>4. exceeded = {} /\ base # None => M!effectiveRate(p, rate, size) = base
  BY <1>1 DEF M!effectiveRate, M!Default
<1>5. \A t \in exceeded : t.above \in Nat /\ t.above < size /\ t[rate] = M!tierCost(raw, rate, t.above)
         /\ t[rate] # None
  BY <1>1, TierAtIs
<1> HIDE DEF exceeded, top
<1>6. CASE B = {}
  <2>1. exceeded = {}
    BY <1>5, <1>6, TierCostIs
  <2>2. M!tierCost(raw, rate, 0) = None
    BY <1>6, TierCostIs
  <2>3. M!Listed(raw, rate, size) = base
    BY <1>6 DEF M!Listed
  <2> QED  BY <1>4, <2>1, <2>3 DEF p
<1>7. CASE B # {}
  <2>1. PICK b \in B : \A u \in B : Holds(u, size) <=> u = b
    BY <1>7, OneHolds
  <2>2. b.min \in Nat /\ b.cost \in Nat /\ b.cost # None /\ b.min < size /\ Holds(b, size)
    BY <1>2, <2>1, Numbers DEF Holds
  <2>3. \A h \in Nat : b.min <= h /\ h < size => M!tierCost(raw, rate, h) = b.cost
    <3> TAKE h \in Nat
    <3> HAVE b.min <= h /\ h < size
    <3>1. Holds(b, h)
      BY <1>2, <2>2 DEF Holds, M!Sums
    <3> QED  BY <3>1, TierCostIs
  <2>4. CASE b.min > 0
    <3>1. M!Listed(raw, rate, size) = b.cost
      <4>1. {t \in B : t.min > 0 /\ t.min <= size /\ (t.max = None \/ size < t.max)} = {b}
        BY <2>1, <2>4 DEF Holds
      <4>2. M!Listed(raw, rate, size) = (CHOOSE t \in {b} : TRUE).cost
        BY <4>1 DEF M!Listed
      <4> QED  BY <4>2
    <3>2. b.min \in Threshold(raw)
      BY <2>2, <2>4 DEF Threshold
    <3>3. TierAt(raw, b.min) \in exceeded
      <4>1. TierAt(raw, b.min)[rate] = b.cost /\ TierAt(raw, b.min).above = b.min
        BY <2>2, <2>3, TierAtIs
      <4> QED  BY <1>1, <2>2, <3>2, <4>1 DEF exceeded
    <3>4. top \in exceeded /\ b.min <= top.above
      BY <1>3, <3>3, TierAtIs
    <3> QED  BY <1>3, <1>5, <2>3, <3>1, <3>3, <3>4 DEF p
  <2>5. CASE b.min = 0
    <3>1. M!Listed(raw, rate, size) = base
      <4>1. {t \in B : t.min > 0 /\ t.min <= size /\ (t.max = None \/ size < t.max)} = {}
        BY <2>1, <2>5 DEF Holds
      <4> QED  BY <4>1 DEF M!Listed
    <3>2. base = b.cost
      <4>1. M!tierCost(raw, rate, 0) = b.cost
        BY <2>2, <2>3, <2>5
      <4>2. PICK t \in B : t.min = 0 /\ flat \in {None, t.cost} /\ (t.max # None => t.min < t.max)
        BY <1>7 DEF M!Contiguous
      <4>3. Holds(t, 0)
        BY <1>2, <4>2 DEF Holds, M!Sums
      <4>4. M!tierCost(raw, rate, 0) = t.cost
        BY <4>3, TierCostIs
      <4> QED  BY <4>1, <4>2, <4>4 DEF M!Default
    <3>3. CASE exceeded = {}
      BY <1>4, <2>2, <3>1, <3>2, <3>3 DEF p
    <3>4. CASE exceeded # {}
      <4>1. top[rate] = b.cost
        BY <1>3, <1>5, <2>3, <2>5, <3>4
      <4> QED  BY <1>3, <3>1, <3>2, <3>4, <4>1 DEF p
    <3> QED  BY <3>3, <3>4
  <2> QED  BY <2>2, <2>4, <2>5
<1> QED  BY <1>6, <1>7

-----------------------------------------------------------------------------
(* One request.                                                            *)

Estimate == M!estimateMaximumCostCents(deployment.pricing, request.tokens, request.units)
Pay(u) == IF u = None THEN 0 ELSE M!computeCost(deployment.pricing, u)
Did == work \in M!AllWorks /\ M!Tellable(work) /\ work.of = deployment.wire
Untouched == work = None /\ fallback = None /\ usage = None /\ image = None
Unsettled == charges = <<>> /\ ~finished
Unseen == record = None /\ shown = None
Kept(u) == usage \in {u, None} /\ (image # None => M!imageDelivers(image))
Fallback(u) == fallback = IF M!endpoint = "text" THEN None ELSE u

GivenOK ==
    /\ request \in M!AllRequests /\ (request.endpoint = "text" => request.contract # None /\ ~request.stream)
    /\ ModelOK /\ deployment.endpoint = request.endpoint
    /\ deployment.raw # None => M!Contiguous(deployment.raw) /\ deployment.pricing = M!pricingForVercelModel(deployment.raw)
HeldOK ==
    /\ held # None => held = M!Default(Estimate, 0) /\ M!Priced
    /\ stage \in {"body", "spooling", "route"} => held = None
SpoolOK ==
    /\ spool \in BOOLEAN
    /\ stage \in {"body", "over"} => ~spool
    /\ stage \in {"spooling", "route", "upstream"} => spool = request.upload
WaitingOK == stage \in {"body", "spooling", "route", "upstream", "stream"} => Untouched /\ Unsettled /\ Unseen
AnsweredOK ==
    stage = "answered" => Did /\ Unsettled /\ Unseen /\ ~M!streams /\ usage = Counted(work) /\ Fallback(Counted(work))
SendOK ==
    stage = "send" =>
        /\ Did /\ Unsettled /\ Unseen /\ request.stream /\ ~deployment.native
        /\ Kept(Counted(work)) /\ Fallback(Counted(work))
FinishedOK ==
    stage = "finished" =>
        /\ Did /\ finished /\ Unseen /\ ~request.stream
        /\ charges = IF held = None THEN <<>> ELSE <<Pay(M!Default(usage, fallback))>>
        /\ Kept(Counted(work)) /\ Fallback(Counted(work))
TailOK ==
    stage = "tail" => Did /\ Unsettled /\ Unseen /\ M!streams /\ Kept(Counted(work)) /\ fallback = None
StreamOK == stage = "stream" => M!streams

\* A charge is that of the work, or of nothing.
ChargeOK ==
    \/ charges = <<>> /\ held = None
    \/ held # None /\ charges = <<0>> /\ work = None /\ record.usage = None
    \/ /\ held # None /\ Did
       /\ \/ /\ charges = <<Pay(Counted(work))>>
             /\ record.usage # None => record.cost = Pay(Counted(work))
          \/ charges = <<0>> /\ record.usage = None /\ usage = None /\ M!streams
          \/ charges = <<0>> /\ record.usage = None /\ usage = None /\ M!endpoint = "text"
          \/ charges = <<0>> /\ record.usage = None /\ record.status = "error" /\ M!endpoint = "text"
ShownOK ==
    shown # None =>
        /\ Did
        /\ shown.usage # None /\ M!endpoint = "text" =>
              Counted(work) # None /\ shown.usage = M!Rendered(request.contract, Counted(work))
        /\ shown.image # None => M!imageDelivers(shown.image) \/ (request.stream /\ ~deployment.native)
OverOK == IF stage = "over" THEN ChargeOK /\ ShownOK ELSE shown = None
PhaseOK == stage \in {"body", "spooling", "route", "upstream", "answered", "send", "stream", "tail", "finished", "over"}

MeteringInv ==
    /\ GivenOK /\ HeldOK /\ SpoolOK /\ WaitingOK /\ AnsweredOK /\ SendOK /\ FinishedOK /\ TailOK
    /\ StreamOK /\ OverOK /\ PhaseOK /\ finished \in BOOLEAN

LEMMA InitInv == M!Init => MeteringInv
<1> SUFFICES ASSUME M!Init PROVE MeteringInv
  OBVIOUS
<1>1. PICK m \in Deployments : /\ m.endpoint = request.endpoint
                          /\ deployment = [m EXCEPT !.pricing = IF m.raw = None THEN @ ELSE M!pricingForVercelModel(m.raw)]
  BY DEF M!Init
<1>2. m \in M!AllModels /\ m.wire \in M!Wires[m.endpoint] /\ IsFiniteSet(m.pricing.tiers)
      /\ (m.raw # None => M!Contiguous(m.raw))
  BY RequestsAssumption, MeteringFinite DEF M!WellMeant
<1>3. deployment.endpoint = m.endpoint /\ deployment.wire = m.wire /\ deployment.raw = m.raw
      /\ deployment.pricing = IF m.raw = None THEN m.pricing ELSE M!pricingForVercelModel(m.raw)
  BY <1>1, <1>2 DEF M!AllModels
<1>4. deployment.pricing \in M!PriceLists /\ IsFiniteSet(deployment.pricing.tiers)
  <2>1. CASE m.raw = None
    BY <1>2, <1>3, <2>1 DEF M!AllModels
  <2>2. CASE m.raw # None
    <3>1. m.raw \in M!BracketedLists
      BY <1>2, <2>2 DEF M!AllModels
    <3> QED  BY <1>2, <1>3, <2>2, <3>1, VercelIs
  <2> QED  BY <2>1, <2>2
<1>5. deployment \in M!AllModels
  <2>1. (IF m.raw = None THEN m.pricing ELSE M!pricingForVercelModel(m.raw)) \in M!PriceLists
    BY <1>3, <1>4
  <2> QED  BY <1>1, <1>2, <2>1 DEF M!AllModels
<1>6. GivenOK
  <2>1. request \in M!AllRequests /\ (request.endpoint = "text" => request.contract # None /\ ~request.stream)
    BY RequestsAssumption DEF M!Init, M!WellMeant
  <2> QED  BY <1>1, <1>2, <1>3, <1>4, <1>5, <2>1 DEF GivenOK, ModelOK
<1> QED
  BY <1>6 DEF MeteringInv, M!Init, HeldOK, SpoolOK, WaitingOK, AnsweredOK, SendOK, FinishedOK, TailOK,
     StreamOK, OverOK,
     PhaseOK, Untouched, Unsettled, Unseen

LEMMA Constant == M!Next => UNCHANGED <<request, deployment>>
BY DEF M!Next, M!Spool, M!ReadBody, M!RejectBody, M!Refuse, M!Reserve, M!AttemptFails, M!OpenStream, M!Extend,
   M!ExtensionFails,
   M!Conclude, M!RemovalFails, M!StreamFails, M!Answer, M!Done, M!Send, M!StreamEnds, M!Fail

LEMMA GivenStep ==
    ASSUME GivenOK, UNCHANGED <<request, deployment>>
    PROVE  GivenOK' /\ Estimate' = Estimate /\ M!Priced' = M!Priced /\ M!streams' = M!streams /\ M!endpoint' = M!endpoint
           /\ \A u : (Pay(u))' = Pay(u)
BY DEF GivenOK, ModelOK, Estimate, M!Priced, M!streams, M!endpoint, Pay

\* The wire that works is that of the deployment, so that what it counts is what it has told.
LEMMA CountedHere ==
    ASSUME GivenOK, NEW w \in Works, w.of = deployment.wire
    PROVE  /\ w \in M!AllWorks /\ M!Tellable(w)
           /\ M!mapUsage(deployment.wire, M!Report(deployment.wire, w)) = Counted(w)
           /\ M!endpoint = "text" => Counted(w) # None
<1>1. w \in M!AllWorks /\ M!Tellable(w)
  BY RequestsAssumption DEF M!WellMeant
<1>2. M!endpoint = "text" => w.of \in M!Wires["text"]
  BY DEF GivenOK, ModelOK, M!endpoint
<1> QED  BY <1>1, <1>2, CountedIs DEF Counted

LEMMA EarlyStep ==
    ASSUME MeteringInv, M!Spool \/ M!ReadBody \/ M!RejectBody \/ M!Refuse \/ M!Reserve \/ M!OpenStream
    PROVE  MeteringInv'
<1>1. UNCHANGED <<request, deployment>>
  BY Constant DEF M!Next
<1>2. GivenOK' /\ Estimate' = Estimate /\ M!Priced' = M!Priced /\ M!streams' = M!streams /\ M!endpoint' = M!endpoint
      /\ \A u : (Pay(u))' = Pay(u)
  BY <1>1, GivenStep DEF MeteringInv
<1>3. CASE M!Spool
  BY <1>2, <1>3 DEF MeteringInv, M!Spool, HeldOK, SpoolOK, WaitingOK, AnsweredOK, SendOK, FinishedOK, TailOK,
     StreamOK, OverOK,
     PhaseOK, Untouched, Unsettled, Unseen
<1>4. CASE M!ReadBody
  <2>1. SpoolOK'
    BY <1>2, <1>4 DEF MeteringInv, M!ReadBody, SpoolOK, GivenOK, M!AllRequests
  <2> QED
    BY <1>2, <1>4, <2>1 DEF MeteringInv, M!ReadBody, HeldOK, WaitingOK, AnsweredOK, SendOK, FinishedOK, TailOK,
       StreamOK, OverOK,
     PhaseOK, Untouched, Unsettled, Unseen
<1>5. CASE M!RejectBody
  <2>1. stage \in {"body", "spooling"}
    BY <1>5 DEF M!RejectBody
  <2>2. ChargeOK' /\ ShownOK'
    BY <1>5, <2>1 DEF MeteringInv, M!RejectBody, HeldOK, WaitingOK, Unsettled, Unseen, ChargeOK, ShownOK
  <2> QED
    BY <1>2, <1>5, <2>1, <2>2 DEF MeteringInv, M!RejectBody, HeldOK, SpoolOK, WaitingOK, AnsweredOK, SendOK,
       FinishedOK, TailOK, StreamOK,
     OverOK, PhaseOK, Untouched, Unsettled, Unseen
<1>6. CASE M!Refuse
  <2>2. ChargeOK' /\ ShownOK'
    BY <1>6 DEF MeteringInv, M!Refuse, M!Fail, HeldOK, WaitingOK, Unsettled, Unseen, ChargeOK, ShownOK
  <2> QED
    BY <1>2, <1>6, <2>2 DEF MeteringInv, M!Refuse, M!Fail, HeldOK, SpoolOK, WaitingOK, AnsweredOK, SendOK,
       FinishedOK, TailOK, StreamOK,
     OverOK, PhaseOK, Untouched, Unsettled, Unseen
<1>7. CASE M!Reserve
  <2>1. HeldOK'
    BY <1>2, <1>7 DEF M!Reserve, HeldOK, Estimate
  <2> QED
    BY <1>2, <1>7, <2>1 DEF MeteringInv, M!Reserve, SpoolOK, WaitingOK, AnsweredOK, SendOK, FinishedOK, TailOK,
       StreamOK,
     OverOK, PhaseOK, Untouched, Unsettled, Unseen
<1>8. CASE M!OpenStream
  BY <1>2, <1>8 DEF MeteringInv, M!OpenStream, HeldOK, SpoolOK, WaitingOK, AnsweredOK, SendOK, FinishedOK,
     TailOK, StreamOK,
     OverOK, PhaseOK, Untouched, Unsettled, Unseen
<1> QED  BY <1>3, <1>4, <1>5, <1>6, <1>7, <1>8

\* What a step to the end of a request leaves to be shown.
LEMMA OverStep ==
    ASSUME MeteringInv, UNCHANGED <<request, deployment, held>>, stage # "body", stage # "spooling", stage # "route", stage' = "over",
           spool' = FALSE, finished' \in BOOLEAN, ChargeOK', ShownOK'
    PROVE  MeteringInv'
<1>1. GivenOK' /\ Estimate' = Estimate /\ M!Priced' = M!Priced
  BY GivenStep DEF MeteringInv
<1> QED
  BY <1>1 DEF MeteringInv, HeldOK, SpoolOK, WaitingOK, AnsweredOK, SendOK, FinishedOK, TailOK, StreamOK,
     OverOK, PhaseOK

LEMMA AttemptFailsStep == MeteringInv /\ M!AttemptFails => MeteringInv'
<1> SUFFICES ASSUME MeteringInv, M!AttemptFails PROVE MeteringInv'
  OBVIOUS
<1>1. /\ stage = "upstream" /\ Untouched /\ Unsettled /\ Unseen
      /\ charges' = (IF held = None THEN charges ELSE Append(charges, 0))
      /\ work' = work /\ shown' = shown /\ record'.usage = None /\ held' = held
      /\ finished' = finished
  BY DEF MeteringInv, WaitingOK, M!AttemptFails, M!Fail, M!Logged
<1>2. ChargeOK'
  BY <1>1 DEF ChargeOK, Untouched, Unsettled
<1>3. ShownOK'
  BY <1>1 DEF ShownOK, Unseen
<1>4. UNCHANGED <<request, deployment>> /\ stage' = "over" /\ spool' = FALSE
  BY DEF M!AttemptFails, M!Fail
<1> QED  BY <1>1, <1>2, <1>3, <1>4, OverStep DEF MeteringInv

LEMMA AnswerStep ==
    ASSUME MeteringInv, NEW w \in Works, w.of = deployment.wire, M!Answer(w)
    PROVE  MeteringInv'
<1>1. UNCHANGED <<request, deployment>>
  BY DEF M!Answer
<1>2. GivenOK' /\ Estimate' = Estimate /\ M!Priced' = M!Priced /\ M!streams' = M!streams /\ M!endpoint' = M!endpoint
  BY <1>1, GivenStep DEF MeteringInv
<1>3. /\ w \in M!AllWorks /\ M!Tellable(w) /\ M!mapUsage(deployment.wire, M!Report(deployment.wire, w)) = Counted(w)
  BY CountedHere DEF MeteringInv
<1>4. stage = "upstream" /\ stage' = "answered" /\ ~M!streams /\ work' = w /\ usage' = Counted(w)
      /\ fallback' = (IF M!endpoint = "text" THEN None ELSE Counted(w))
      /\ UNCHANGED <<request, deployment, spool, held, charges, finished, record, shown>>
  BY <1>3 DEF M!Answer
<1>5. (Counted(work))' = Counted(w) /\ (M!Tellable(work))'
  BY <1>3, <1>4 DEF Counted, M!Tellable
<1>6. AnsweredOK'
  BY <1>1, <1>2, <1>3, <1>4, <1>5 DEF AnsweredOK, Did, Fallback, MeteringInv, WaitingOK, Unsettled, Unseen
<1> QED
  BY <1>2, <1>4, <1>6 DEF MeteringInv, HeldOK, SpoolOK, WaitingOK, SendOK, FinishedOK, TailOK, StreamOK,
     OverOK, PhaseOK, Unseen

LEMMA DoneStep ==
    ASSUME MeteringInv, NEW w \in Works, w.of = deployment.wire, M!Done(w)
    PROVE  MeteringInv'
<1>1. UNCHANGED <<request, deployment>>
  BY DEF M!Done
<1>2. GivenOK' /\ Estimate' = Estimate /\ M!Priced' = M!Priced /\ M!streams' = M!streams /\ M!endpoint' = M!endpoint
  BY <1>1, GivenStep DEF MeteringInv
<1>3. /\ w \in M!AllWorks /\ M!Tellable(w) /\ M!mapUsage(deployment.wire, M!Report(deployment.wire, w)) = Counted(w)
  BY CountedHere DEF MeteringInv
<1>4. stage = "stream" /\ stage' = "tail" /\ work' = w
      /\ UNCHANGED <<request, deployment, spool, held, charges, finished, fallback, record, shown>>
      /\ \E i : M!Extended(Counted(w), i)
  BY <1>3 DEF M!Done
<1>5. (Counted(work))' = Counted(w) /\ (M!Tellable(work))' /\ (Kept(Counted(work)))'
  <2>1. usage' \in {Counted(w), None} /\ (image' # None => M!imageDelivers(image'))
    BY <1>4 DEF M!Extended
  <2>2. (Counted(work))' = Counted(w) /\ (M!Tellable(work))'
    BY <1>3, <1>4 DEF Counted, M!Tellable
  <2>3. image' # None => (M!imageDelivers(image))'
    BY <1>1, <2>1 DEF M!imageDelivers
  <2> QED  BY <2>1, <2>2, <2>3 DEF Kept
<1>6. TailOK'
  BY <1>1, <1>2, <1>3, <1>4, <1>5 DEF TailOK, Did, MeteringInv, WaitingOK, StreamOK, Unsettled, Unseen, Untouched
<1> QED
  BY <1>2, <1>4, <1>6 DEF MeteringInv, HeldOK, SpoolOK, WaitingOK, AnsweredOK, SendOK, FinishedOK, StreamOK,
     OverOK, PhaseOK, Unseen

LEMMA Stays ==
    ASSUME UNCHANGED <<request, deployment, work>>
    PROVE  /\ (Counted(work))' = Counted(work) /\ Did' = Did
           /\ \A i : (M!imageDelivers(i))' = M!imageDelivers(i)
           /\ M!streams' = M!streams /\ M!endpoint' = M!endpoint
BY DEF Counted, Did, M!Tellable, M!imageDelivers, M!streams, M!endpoint

LEMMA ExtendStep == MeteringInv /\ M!Extend => MeteringInv'
<1> SUFFICES ASSUME MeteringInv, M!Extend PROVE MeteringInv'
  OBVIOUS
<1>1. UNCHANGED <<request, deployment, spool, work, fallback, record, shown, held>> /\ stage = "answered"
      /\ M!Extended(usage, image)
  BY DEF M!Extend, M!Finish
<1>2. GivenOK' /\ Estimate' = Estimate /\ M!Priced' = M!Priced /\ M!streams' = M!streams /\ M!endpoint' = M!endpoint
      /\ \A u : (Pay(u))' = Pay(u)
  BY <1>1, GivenStep DEF MeteringInv
<1>3. (Counted(work))' = Counted(work) /\ Did' = Did
  BY <1>1, Stays
<1>4. Did /\ Unsettled /\ Unseen /\ ~M!streams /\ usage = Counted(work) /\ Fallback(Counted(work))
  BY <1>1 DEF MeteringInv, AnsweredOK
<1>5. (Kept(Counted(work)))' /\ (Fallback(Counted(work)))'
  <2>1. usage' \in {Counted(work), None} /\ (image' # None => M!imageDelivers(image'))
    BY <1>1, <1>4 DEF M!Extended
  <2>2. image' # None => (M!imageDelivers(image))'
    BY <1>1, <2>1 DEF M!imageDelivers
  <2> QED  BY <1>1, <1>2, <1>3, <1>4, <2>1, <2>2 DEF Kept, Fallback
<1>6. CASE request.stream
  <2>1. stage' = "send" /\ UNCHANGED <<charges, finished>>
    BY <1>6 DEF M!Extend
  <2>2. SendOK'
    BY <1>1, <1>3, <1>4, <1>5, <1>6, <2>1 DEF SendOK, Unsettled, Unseen, M!streams
  <2> QED
    BY <1>1, <1>2, <1>4, <2>1, <2>2 DEF MeteringInv, HeldOK, SpoolOK, WaitingOK, AnsweredOK, FinishedOK,
       TailOK, StreamOK, OverOK,
       PhaseOK, Unseen
<1>7. CASE ~request.stream
  <2>1. stage' = "finished" /\ finished'
        /\ charges' = IF held = None THEN <<>> ELSE <<Pay(M!Default(usage', fallback))>>
    <3>1. stage' = "finished" /\ M!Finish(usage')
      BY <1>7 DEF M!Extend
    <3> QED  BY <1>4, <3>1 DEF M!Finish, Unsettled, Pay
  <2>2. FinishedOK'
    BY <1>1, <1>2, <1>3, <1>4, <1>5, <1>7, <2>1 DEF FinishedOK, Unseen, Pay, M!Default
  <2> QED
    BY <1>1, <1>2, <1>4, <2>1, <2>2 DEF MeteringInv, HeldOK, SpoolOK, WaitingOK, AnsweredOK, SendOK, TailOK,
       StreamOK, OverOK,
       PhaseOK, Unseen
<1> QED  BY <1>6, <1>7

LEMMA ExtensionFailsStep == MeteringInv /\ M!ExtensionFails => MeteringInv'
<1> SUFFICES ASSUME MeteringInv, M!ExtensionFails PROVE MeteringInv'
  OBVIOUS
<1>1. stage = "answered" /\ UNCHANGED <<request, deployment, work, shown, held>> /\ stage' = "over" /\ spool' = FALSE
      /\ finished' = TRUE /\ record'.usage = None /\ record'.status = "error" /\ usage' = usage
  BY DEF M!ExtensionFails, M!Finish, M!Fail, M!Logged
<1>2. Did /\ Unsettled /\ Unseen /\ Fallback(Counted(work))
  BY <1>1 DEF MeteringInv, AnsweredOK
<1>3. charges' = IF held = None THEN <<>> ELSE <<Pay(fallback)>>
  BY <1>2 DEF M!ExtensionFails, M!Finish, Unsettled, Pay, M!Default
<1>4. GivenOK' /\ M!streams' = M!streams /\ M!endpoint' = M!endpoint /\ \A u : (Pay(u))' = Pay(u)
  BY <1>1, GivenStep DEF MeteringInv
<1>5. (Counted(work))' = Counted(work) /\ Did' = Did
  BY <1>1, Stays
<1>6. ChargeOK'
  <2>1. CASE held = None
    BY <1>1, <1>3, <2>1 DEF ChargeOK
  <2>2. CASE held # None /\ M!endpoint = "text"
    <3>1. charges' = <<0>> /\ Pay(None) = 0
      BY <1>2, <1>3, <2>2 DEF Fallback, Pay
    <3> QED  BY <1>1, <1>2, <1>4, <1>5, <2>2, <3>1 DEF ChargeOK
  <2>3. CASE held # None /\ M!endpoint # "text"
    BY <1>1, <1>2, <1>3, <1>4, <1>5, <2>3 DEF ChargeOK, Fallback
  <2> QED  BY <2>1, <2>2, <2>3
<1>7. ShownOK'
  BY <1>1, <1>2 DEF ShownOK, Unseen
<1> QED  BY <1>1, <1>6, <1>7, OverStep

LEMMA ConcludeStep == MeteringInv /\ M!Conclude => MeteringInv'
<1> SUFFICES ASSUME MeteringInv, M!Conclude PROVE MeteringInv'
  OBVIOUS
<1>1. stage = "finished" /\ UNCHANGED <<request, deployment, held, charges, finished, work, fallback, usage, image>>
      /\ stage' = "over" /\ spool' = FALSE
      /\ record'.usage = usage /\ (usage # None => record'.cost = M!computeCost(deployment.pricing, usage))
      /\ shown'.usage = (IF usage = None THEN None ELSE IF M!endpoint = "text" THEN M!Rendered(request.contract, usage) ELSE usage)
      /\ shown'.image = image
  BY DEF M!Conclude, M!Logged, M!Give
<1>2. /\ Did /\ finished /\ ~request.stream
      /\ charges = (IF held = None THEN <<>> ELSE <<Pay(M!Default(usage, fallback))>>)
      /\ Kept(Counted(work)) /\ Fallback(Counted(work))
  BY <1>1 DEF MeteringInv, FinishedOK
<1>4. GivenOK' /\ M!streams' = M!streams /\ M!endpoint' = M!endpoint /\ \A u : (Pay(u))' = Pay(u)
  BY <1>1, GivenStep DEF MeteringInv
<1>5. (Counted(work))' = Counted(work) /\ Did' = Did /\ \A i : (M!imageDelivers(i))' = M!imageDelivers(i)
  BY <1>1, Stays
<1>6. ChargeOK'
  <2>1. CASE held = None
    BY <1>1, <1>2, <2>1 DEF ChargeOK
  <2>2. CASE held # None /\ usage # None
    <3>1. usage = Counted(work) /\ charges = <<Pay(Counted(work))>>
      BY <1>2, <2>2 DEF Kept, M!Default
    <3>2. record'.cost = Pay(Counted(work))
      BY <1>1, <2>2, <3>1 DEF Pay
    <3> QED  BY <1>1, <1>2, <1>4, <1>5, <2>2, <3>1, <3>2 DEF ChargeOK
  <2>3. CASE held # None /\ usage = None /\ M!endpoint = "text"
    <3>1. charges = <<0>>
      BY <1>2, <2>3 DEF Fallback, M!Default, Pay
    <3> QED  BY <1>1, <1>2, <1>4, <1>5, <2>3, <3>1 DEF ChargeOK
  <2>4. CASE held # None /\ usage = None /\ M!endpoint # "text"
    <3>1. charges = <<Pay(Counted(work))>>
      BY <1>2, <2>4 DEF Fallback, M!Default
    <3> QED  BY <1>1, <1>2, <1>4, <1>5, <2>4, <3>1 DEF ChargeOK
  <2> QED  BY <2>1, <2>2, <2>3, <2>4
<1>7. ShownOK'
  <2>1. shown'.usage # None /\ M!endpoint = "text" =>
              Counted(work) # None /\ shown'.usage = M!Rendered(request.contract, Counted(work))
    BY <1>1, <1>2 DEF Kept
  <2>2. shown'.image # None => M!imageDelivers(shown'.image)
    BY <1>1, <1>2 DEF Kept
  <2>3. (shown' # None /\ shown'.image # None => M!imageDelivers(shown'.image)) =>
        (shown' # None /\ shown'.image # None => (M!imageDelivers(shown.image))')
    BY <1>1 DEF M!imageDelivers
  <2>4. (M!Rendered(request.contract, Counted(work)))' = M!Rendered(request.contract, Counted(work))
    BY <1>1, <1>5 DEF Counted
  <2> QED  BY <1>1, <1>2, <1>4, <1>5, <2>1, <2>2, <2>3, <2>4 DEF ShownOK
<1> QED  BY <1>1, <1>6, <1>7, OverStep DEF MeteringInv

LEMMA RemovalFailsStep == MeteringInv /\ M!RemovalFails => MeteringInv'
<1> SUFFICES ASSUME MeteringInv, M!RemovalFails PROVE MeteringInv'
  OBVIOUS
<1>1. stage = "finished" /\ UNCHANGED <<request, deployment, work, shown, held>> /\ stage' = "over" /\ spool' = FALSE
      /\ finished' = TRUE /\ record'.usage = None /\ record'.status = "error" /\ usage' = usage
  BY DEF M!RemovalFails, M!Finish, M!Fail, M!Logged
<1>2. Did /\ finished /\ Unseen /\ Fallback(Counted(work)) /\ Kept(Counted(work))
      /\ charges = (IF held = None THEN <<>> ELSE <<Pay(M!Default(usage, fallback))>>)
  BY <1>1 DEF MeteringInv, FinishedOK
<1>3. charges' = charges
  BY <1>2 DEF M!RemovalFails, M!Finish
<1>4. GivenOK' /\ M!streams' = M!streams /\ M!endpoint' = M!endpoint /\ \A u : (Pay(u))' = Pay(u)
  BY <1>1, GivenStep DEF MeteringInv
<1>5. (Counted(work))' = Counted(work) /\ Did' = Did
  BY <1>1, Stays
<1>6. ChargeOK'
  <2>1. CASE held = None
    BY <1>1, <1>2, <1>3, <2>1 DEF ChargeOK
  <2>2. CASE held # None /\ usage = None /\ M!endpoint = "text"
    <3>1. charges = <<0>>
      BY <1>2, <2>2 DEF Fallback, M!Default, Pay
    <3> QED  BY <1>1, <1>2, <1>3, <1>4, <1>5, <2>2, <3>1 DEF ChargeOK
  <2>3. CASE held # None /\ ~(usage = None /\ M!endpoint = "text")
    <3>1. charges = <<Pay(Counted(work))>>
      BY <1>2, <2>3 DEF Fallback, M!Default, Kept
    <3> QED  BY <1>1, <1>2, <1>3, <1>4, <1>5, <2>3, <3>1 DEF ChargeOK
  <2> QED  BY <2>1, <2>2, <2>3
<1>7. ShownOK'
  BY <1>1, <1>2 DEF ShownOK, Unseen
<1> QED  BY <1>1, <1>6, <1>7, OverStep

LEMMA SendStep ==
    ASSUME MeteringInv, NEW ok \in BOOLEAN, M!Send(ok)
    PROVE  MeteringInv'
<1>1. stage = "send" /\ UNCHANGED <<request, deployment, held, work, fallback, usage, image>>
      /\ stage' = "over" /\ spool' = FALSE /\ finished' = TRUE
      /\ record'.usage = usage /\ (usage # None => record'.cost = M!computeCost(deployment.pricing, usage))
  BY DEF M!Send, M!Finish, M!Logged
<1>2. /\ Did /\ Unsettled /\ Unseen /\ request.stream /\ ~deployment.native
      /\ Kept(Counted(work)) /\ Fallback(Counted(work)) /\ M!endpoint # "text"
  BY <1>1 DEF MeteringInv, SendOK, GivenOK, M!endpoint
<1>3. charges' = IF held = None THEN <<>> ELSE <<Pay(Counted(work))>>
  BY <1>1, <1>2 DEF M!Send, M!Finish, Unsettled, Pay, M!Default, Kept, Fallback
<1>4. GivenOK' /\ M!streams' = M!streams /\ M!endpoint' = M!endpoint /\ \A u : (Pay(u))' = Pay(u)
  BY <1>1, GivenStep DEF MeteringInv
<1>5. (Counted(work))' = Counted(work) /\ Did' = Did
  BY <1>1, Stays
<1>6. ChargeOK'
  <2>1. CASE held = None
    BY <1>1, <1>3, <2>1 DEF ChargeOK
  <2>2. CASE held # None
    <3>1. usage # None => record'.cost = Pay(Counted(work))
      BY <1>1, <1>2 DEF Pay, Kept
    <3> QED  BY <1>1, <1>2, <1>3, <1>4, <1>5, <2>2, <3>1 DEF ChargeOK
  <2> QED  BY <2>1, <2>2
<1>7. ShownOK'
  BY <1>1, <1>2, <1>4, <1>5 DEF ShownOK
<1> QED  BY <1>1, <1>6, <1>7, OverStep

LEMMA StreamFailsStep == MeteringInv /\ M!StreamFails => MeteringInv'
<1> SUFFICES ASSUME MeteringInv, M!StreamFails PROVE MeteringInv'
  OBVIOUS
<1>1. stage = "stream" /\ UNCHANGED <<request, deployment, work, shown, held>> /\ stage' = "over" /\ spool' = FALSE
      /\ finished' = TRUE /\ record'.usage = None
  BY DEF M!StreamFails, M!Finish, M!Logged
<1>2. Untouched /\ Unsettled /\ Unseen
  BY <1>1 DEF MeteringInv, WaitingOK
<1>3. charges' = IF held = None THEN <<>> ELSE <<0>>
  BY <1>2 DEF M!StreamFails, M!Finish, Unsettled, Untouched, M!Default
<1>4. ChargeOK' /\ ShownOK'
  BY <1>1, <1>2, <1>3 DEF ChargeOK, ShownOK, Unseen, Untouched
<1> QED  BY <1>1, <1>4, OverStep

LEMMA StreamEndsStep ==
    ASSUME MeteringInv, NEW ok \in BOOLEAN, M!StreamEnds(ok)
    PROVE  MeteringInv'
<1>1. stage = "tail" /\ UNCHANGED <<request, deployment, held, work, fallback, usage, image>>
      /\ stage' = "over" /\ spool' = FALSE /\ finished' = TRUE
      /\ record'.usage = usage /\ (usage # None => record'.cost = M!computeCost(deployment.pricing, usage))
      /\ (shown' = shown \/ /\ shown'.image = image)
  BY DEF M!StreamEnds, M!Finish, M!Logged, M!Give
<1>2. /\ Did /\ Unsettled /\ Unseen /\ M!streams /\ Kept(Counted(work)) /\ fallback = None /\ M!endpoint # "text"
  BY <1>1 DEF MeteringInv, TailOK, GivenOK, M!endpoint, M!streams
<1>3. charges' = IF held = None THEN <<>> ELSE <<Pay(usage)>>
  BY <1>1, <1>2 DEF M!StreamEnds, M!Finish, Unsettled, Pay, M!Default
<1>4. GivenOK' /\ M!streams' = M!streams /\ M!endpoint' = M!endpoint /\ \A u : (Pay(u))' = Pay(u)
  BY <1>1, GivenStep DEF MeteringInv
<1>5. (Counted(work))' = Counted(work) /\ Did' = Did
  BY <1>1, Stays
<1>6. ChargeOK'
  <2>1. CASE held = None
    BY <1>1, <1>3, <2>1 DEF ChargeOK
  <2>2. CASE held # None /\ usage = None
    <3>1. charges' = <<0>>
      BY <1>3, <2>2 DEF Pay
    <3> QED  BY <1>1, <1>2, <1>4, <1>5, <2>2, <3>1 DEF ChargeOK
  <2>3. CASE held # None /\ usage # None
    <3>1. usage = Counted(work) /\ record'.cost = Pay(Counted(work))
      BY <1>1, <1>2, <2>3 DEF Pay, Kept
    <3> QED  BY <1>1, <1>2, <1>3, <1>4, <1>5, <2>3, <3>1 DEF ChargeOK
  <2> QED  BY <2>1, <2>2, <2>3
<1>7. ShownOK'
  <2>1. shown' # None /\ shown'.image # None => M!imageDelivers(shown'.image)
    BY <1>1, <1>2 DEF Kept, Unseen
  <2>2. shown' # None /\ shown'.image # None => (M!imageDelivers(shown.image))'
    BY <1>1, <2>1 DEF M!imageDelivers
  <2> QED  BY <1>1, <1>2, <1>4, <1>5, <2>2 DEF ShownOK
<1> QED  BY <1>1, <1>6, <1>7, OverStep

LEMMA StepInv == MeteringInv /\ (M!Next \/ UNCHANGED M!vars) => MeteringInv'
<1>1. ASSUME MeteringInv, UNCHANGED M!vars PROVE MeteringInv'
  <2>1. UNCHANGED <<request, deployment, work>>
           /\ UNCHANGED <<stage, spool, held, charges, finished, fallback, usage, image, record, shown>>
    BY <1>1 DEF M!vars
  <2>2. GivenOK' /\ Estimate' = Estimate /\ M!Priced' = M!Priced /\ M!streams' = M!streams /\ M!endpoint' = M!endpoint
        /\ \A u : (Pay(u))' = Pay(u)
    BY <1>1, <2>1, GivenStep DEF MeteringInv
  <2>3. (Counted(work))' = Counted(work) /\ Did' = Did
    BY <2>1, Stays
  <2>4. Untouched' = Untouched /\ Unsettled' = Unsettled /\ Unseen' = Unseen
        /\ (Kept(Counted(work)))' = Kept(Counted(work)) /\ (Fallback(Counted(work)))' = Fallback(Counted(work))
    BY <2>1, <2>2, <2>3 DEF Untouched, Unsettled, Unseen, Kept, Fallback, M!imageDelivers
  <2>5. HeldOK' /\ SpoolOK' /\ WaitingOK' /\ AnsweredOK' /\ SendOK' /\ TailOK' /\ StreamOK' /\ PhaseOK'
           /\ finished' \in BOOLEAN
    BY <1>1, <2>1, <2>2, <2>3, <2>4 DEF MeteringInv, HeldOK, SpoolOK, WaitingOK, AnsweredOK, SendOK, TailOK,
       StreamOK, PhaseOK
  <2>6. FinishedOK'
    BY <1>1, <2>1, <2>2, <2>3, <2>4 DEF MeteringInv, FinishedOK
  <2>7. ChargeOK' = ChargeOK
    BY <2>1, <2>2, <2>3 DEF ChargeOK
  <2>8. ShownOK' = ShownOK
    <3>1. (M!imageDelivers(shown.image))' = M!imageDelivers(shown.image)
      BY <2>1 DEF M!imageDelivers
    <3> QED  BY <2>1, <2>2, <2>3, <3>1 DEF ShownOK
  <2>9. OverOK'
    BY <1>1, <2>1, <2>7, <2>8 DEF MeteringInv, OverOK
  <2> QED  BY <2>2, <2>5, <2>6, <2>9 DEF MeteringInv
<1>2. ASSUME MeteringInv, M!Next PROVE MeteringInv'
  <2>1. ASSUME NEW w \in {v \in Works : v.of = deployment.wire}, M!Answer(w) \/ M!Done(w) PROVE MeteringInv'
    BY <1>2, <2>1, AnswerStep, DoneStep
  <2>2. ASSUME NEW ok \in BOOLEAN, M!Send(ok) \/ M!StreamEnds(ok) PROVE MeteringInv'
    BY <1>2, <2>2, SendStep, StreamEndsStep
  <2> QED
    BY <1>2, <2>1, <2>2, EarlyStep, AttemptFailsStep, ExtendStep, ExtensionFailsStep, ConcludeStep, RemovalFailsStep,
       StreamFailsStep DEF M!Next
<1> QED  BY <1>1, <1>2

-----------------------------------------------------------------------------
(* What is promised of a request that is over.                             *)

\* An estimate is a number, or no price is known; how many tokens it is for does not matter to that.
LEMMA EstimateIs ==
    ASSUME ModelOK, NEW tokens \in Nat, NEW units \in Nat
    PROVE  /\ M!estimateMaximumCostCents(deployment.pricing, tokens, units) \in M!Sums
           /\ M!estimateMaximumCostCents(deployment.pricing, 0, units) # None =>
                M!estimateMaximumCostCents(deployment.pricing, tokens, units) # None
<1> DEFINE p == deployment.pricing
           rates == M!RatesOf(p)
           top == IF rates = {} THEN 0 ELSE M!Greatest(rates)
<1>1. IsFiniteSet(rates) /\ rates \subseteq Nat /\ p.unit \in M!Sums
  BY RatesFinite DEF ModelOK, M!AllModels, M!PriceLists
<1>2. top \in Nat
  <2> HIDE DEF rates
  <2>1. CASE rates = {}
    BY <2>1
  <2>2. CASE rates # {}
    <3>1. PICK x \in rates : \A y \in rates : y <= x
      BY <1>1, <2>2, GreatestNumber
    <3>2. M!Greatest(rates) \in rates
      BY <3>1 DEF M!Greatest
    <3> QED  BY <1>1, <2>2, <3>2
  <2> QED  BY <2>1, <2>2
<1>3. M!Default(p.unit, 0) \in Nat
  BY <1>1 DEF M!Default, M!Sums
<1>4. tokens * top + units * M!Default(p.unit, 0) \in Nat
  <2>1. tokens * top \in Nat /\ units * M!Default(p.unit, 0) \in Nat
    <3> HIDE DEF top, p
    <3> QED  BY <1>2, <1>3
  <2> QED  BY <2>1
<1>5. M!estimateMaximumCostCents(p, tokens, units) =
        IF rates = {} /\ p.unit = None /\ p.second = None THEN None ELSE tokens * top + units * M!Default(p.unit, 0)
  BY DEF M!estimateMaximumCostCents
<1>6. M!estimateMaximumCostCents(p, 0, units) # None => ~(rates = {} /\ p.unit = None /\ p.second = None)
  BY DEF M!estimateMaximumCostCents
<1> HIDE DEF top, p, rates
<1> QED  BY <1>4, <1>5, <1>6, Numbers DEF M!Sums, p

LEMMA HeldNumber == MeteringInv => held \in Nat \cup {None} /\ (request.budget /\ held # None => Estimate # None /\ held = Estimate)
<1> SUFFICES ASSUME MeteringInv PROVE held \in Nat \cup {None} /\ (request.budget /\ held # None => Estimate # None /\ held = Estimate)
  OBVIOUS
<1>1. ModelOK /\ request.tokens \in Nat /\ request.units \in Nat
  BY DEF MeteringInv, GivenOK, M!AllRequests
<1>2. Estimate \in M!Sums
         /\ (M!estimateMaximumCostCents(deployment.pricing, 0, request.units) # None => Estimate # None)
  BY <1>1, EstimateIs DEF Estimate
<1>3. held # None => held = M!Default(Estimate, 0) /\ M!Priced
  BY DEF MeteringInv, HeldOK
<1> QED  BY <1>2, <1>3 DEF M!Default, M!Sums, M!Priced

\* A charge is what the work costs, or nothing.
LEMMA PayIs ==
    ASSUME MeteringInv, Did
    PROVE  /\ Counted(work) # None => Pay(Counted(work)) = M!Due(work) /\ M!Due(work) \in Nat
           /\ Counted(work) = None => Pay(Counted(work)) = 0
           /\ M!Reported <=> Counted(work) # None
<1>1. ModelOK
  BY DEF MeteringInv, GivenOK
<1>2. Counted(work) # None => M!computeCost(deployment.pricing, Counted(work)) = M!Due(work) /\ M!Due(work) \in Nat
  BY <1>1, CostIsDue DEF Did
<1>3. Counted(work) = M!mapUsage(deployment.wire, M!Report(deployment.wire, work))
  BY DEF Counted, Did
<1> QED  BY <1>2, <1>3 DEF Pay, M!Reported

LEMMA PaidHolds == MeteringInv => M!Paid
<1> SUFFICES ASSUME MeteringInv, stage = "over", charges # <<>>, work # None, M!Reported
             PROVE  \/ charges[1] = M!Due(work)
                    \/ charges[1] = 0 /\ usage = None /\ (M!streams \/ M!endpoint = "text")
                    \/ charges[1] = 0 /\ record.status = "error" /\ M!endpoint = "text"
  BY DEF M!Paid
<1>1. ChargeOK
  BY DEF MeteringInv, OverOK
<1>2. CASE Did /\ charges = <<Pay(Counted(work))>>
  BY <1>2, PayIs
<1>3. CASE charges = <<0>> /\ ~ (Did /\ charges = <<Pay(Counted(work))>>)
  BY <1>1, <1>3 DEF ChargeOK
<1> QED  BY <1>1, <1>2, <1>3 DEF ChargeOK

LEMMA CoveredHolds == MeteringInv => M!Covered
<1> SUFFICES ASSUME MeteringInv, stage = "over", charges # <<>>, request.budget,
                    ~(\/ work.seconds > 0
                      \/ M!Input(work) + M!Output(work) > request.tokens \/ M!Default(work.units, 0) > request.units)
             PROVE  charges[1] <= held
  BY DEF M!Covered
<1>1. ChargeOK /\ ModelOK
  BY DEF MeteringInv, OverOK, GivenOK
<1>2. held \in Nat /\ Estimate # None /\ held = Estimate
  BY <1>1, HeldNumber DEF ChargeOK
<1>3. CASE charges = <<0>>
  BY <1>2, <1>3
<1>4. CASE Did /\ charges = <<Pay(Counted(work))>> /\ Counted(work) = None
  <2>1. Pay(Counted(work)) = 0
    BY <1>4 DEF Pay
  <2> QED  BY <1>2, <1>4, <2>1
<1>5. CASE Did /\ charges = <<Pay(Counted(work))>> /\ Counted(work) # None
  <2>1. charges[1] = M!Due(work)
    BY <1>5, PayIs
  <2>2. request.tokens \in Nat /\ request.units \in Nat
    BY DEF MeteringInv, GivenOK, M!AllRequests
  <2>3. work.seconds = 0 /\ M!Input(work) + M!Output(work) <= request.tokens
           /\ M!Default(work.units, 0) <= request.units
    <3>1. work.seconds \in Nat /\ M!Input(work) \in Nat /\ M!Output(work) \in Nat /\ work.units \in M!Sums
      BY <1>5, WorkIs DEF Did
    <3>2. M!Default(work.units, 0) \in Nat
      BY <3>1 DEF M!Default, M!Sums
    <3> QED  BY <2>2, <3>1, <3>2
  <2>4. M!Due(work) <= M!estimateMaximumCostCents(deployment.pricing, request.tokens, request.units)
    <3>1. work \in M!AllWorks /\ M!Tellable(work) /\ work.of = deployment.wire
      BY <1>5 DEF Did
    <3>2. M!estimateMaximumCostCents(deployment.pricing, request.tokens, request.units) # None
      BY <1>2 DEF Estimate
    <3> QED  BY <1>1, <2>2, <2>3, <3>1, <3>2, DueIsCovered
  <2> QED  BY <1>2, <2>1, <2>4 DEF Estimate
<1> QED  BY <1>1, <1>3, <1>4, <1>5 DEF ChargeOK

\* What a contract's usage says of what is counted.
LEMMA RenderedIs ==
    ASSUME NEW c \in {"chat", "responses", "messages"}, NEW u
    PROVE  /\ c = "messages" => M!Rendered(c, u) = M!usageToAnthropic(u)
           /\ c # "messages" => M!Rendered(c, u) = M!toOpenAIUsage(u)
BY DEF M!Rendered, M!toResponsesUsage

LEMMA TextTold ==
    ASSUME NEW w \in M!AllWorks, M!Tellable(w), w.of \in M!Wires["text"], NEW c \in {"chat", "responses", "messages"}
    PROVE  LET view == M!Rendered(c, Counted(w))
               written == M!Default(view.cacheWrite, 0)
           IN  /\ view.output = M!Output(w) /\ view.cacheRead = w.read
               /\ M!Input(w) = view.input + IF c = "messages" THEN view.cacheRead + written ELSE 0
               /\ view.reasoning \in {None, w.thought} \cup IF w.of = "anthropic" THEN {0} ELSE {}
               /\ view.total \in {None, M!Input(w) + M!Output(w)} \cup IF w.omitted THEN {0} ELSE {}
<1> DEFINE u == Counted(w)
           view == M!Rendered(c, u)
           written == M!Default(view.cacheWrite, 0)
           tells == w.of = "anthropic"
<1>1. w.of \in {"anthropic", "chat", "responses", "gemini"} /\ u # None
  BY CountedIs DEF M!Wires
<1>2. /\ u.prompt = M!Input(w) /\ u.completion = M!Output(w) /\ u.cacheRead = w.read
      /\ u.cacheWrite = (IF tells THEN w.write ELSE 0) /\ u.reasoning = (IF tells THEN 0 ELSE w.thought)
      /\ u.total \in {M!Input(w) + M!Output(w)} \cup IF w.omitted THEN {0} ELSE {}
  BY <1>1, CountedIs
<1>3. w.read \in Nat /\ w.write \in Nat /\ w.fresh \in Nat /\ M!Input(w) \in Nat
         /\ M!Input(w) = w.fresh + w.read + w.write
  BY WorkIs DEF M!Input
<1> HIDE DEF u
<1>4. CASE c = "messages"
  <2>1. view = M!usageToAnthropic(u)
    BY <1>4, RenderedIs
  <2>2. /\ view.input = M!Less(u.prompt, u.cacheRead + u.cacheWrite) /\ view.cacheRead = u.cacheRead
        /\ view.cacheWrite = u.cacheWrite /\ view.output = u.completion /\ view.reasoning = None /\ view.total = None
    BY <2>1 DEF M!usageToAnthropic
  <2>3. written = u.cacheWrite
    BY <1>2, <1>3, <2>2, Numbers DEF M!Default
  <2>4. M!Less(u.prompt, u.cacheRead + u.cacheWrite) + (u.cacheRead + u.cacheWrite) = u.prompt
    BY <1>2, <1>3 DEF M!Less
  <2> HIDE DEF view, written
  <2>5. M!Input(w) = view.input + (view.cacheRead + written)
    BY <1>2, <2>2, <2>3, <2>4
  <2> QED  BY <1>2, <1>4, <2>2, <2>5 DEF u, view, written
<1>5. CASE c # "messages"
  <2>1. view = M!toOpenAIUsage(u)
    BY <1>5, RenderedIs
  <2>2. /\ view.input = u.prompt /\ view.cacheRead = u.cacheRead
        /\ view.output = u.completion /\ view.reasoning = u.reasoning /\ view.total = u.total
    BY <2>1 DEF M!toOpenAIUsage
  <2> HIDE DEF view
  <2> QED  BY <1>2, <1>3, <1>5, <2>2 DEF u, view
<1> QED  BY <1>4, <1>5

LEMMA ToldHolds == MeteringInv => M!Told
<1> SUFFICES ASSUME MeteringInv PROVE M!Told
  OBVIOUS
<1>1. ASSUME stage = "over", charges # <<>>, record.usage # None PROVE record.cost = charges[1]
  BY <1>1 DEF MeteringInv, OverOK, ChargeOK
<1>2. ASSUME shown # None, shown.usage # None, M!endpoint = "text"
      PROVE  LET view == shown.usage
                 written == M!Default(view.cacheWrite, 0)
             IN  /\ view.output = M!Output(work) /\ view.cacheRead = work.read
                 /\ M!Input(work) = view.input + IF request.contract = "messages" THEN view.cacheRead + written ELSE 0
                 /\ view.reasoning \in {None, work.thought} \cup IF deployment.wire = "anthropic" THEN {0} ELSE {}
                 /\ view.total \in {None, M!Input(work) + M!Output(work)} \cup IF work.omitted THEN {0} ELSE {}
  <2>1. Did /\ shown.usage = M!Rendered(request.contract, Counted(work))
    BY <1>2 DEF MeteringInv, OverOK, ShownOK
  <2>2. work.of \in M!Wires["text"] /\ request.contract \in {"chat", "responses", "messages"}
    BY <1>2, <2>1 DEF Did, MeteringInv, GivenOK, ModelOK, M!AllRequests, M!endpoint
  <2>3. work \in M!AllWorks /\ M!Tellable(work) /\ work.of = deployment.wire
    BY <2>1 DEF Did
  <2> QED  BY <2>1, <2>2, <2>3, TextTold
<1> QED  BY <1>1, <1>2 DEF M!Told

LEMMA TieredHolds == MeteringInv => M!Tiered
<1> SUFFICES ASSUME MeteringInv, deployment.raw # None, NEW rate \in M!TokenRates, NEW size \in 0 .. 6,
                    ~ \E t \in UNION {deployment.raw.brackets[f] : f \in M!TokenRates} : t.min = size
             PROVE  M!Listed(deployment.raw, rate, size) \in {None, M!effectiveRate(deployment.pricing, rate, size)}
  BY DEF M!Tiered
<1>1. deployment.raw \in M!BracketedLists /\ M!Contiguous(deployment.raw)
         /\ deployment.pricing = M!pricingForVercelModel(deployment.raw)
  BY DEF MeteringInv, GivenOK, ModelOK, M!AllModels
<1> QED  BY <1>1, TiersAgree

LEMMA MeteringPart == Spec => []MeteringInv
<1>1. Init => MeteringInv
  BY InitInv DEF Init
<1>2. ASSUME MeteringInv, [Next]_vars PROVE MeteringInv'
  <2>1. M!Next \/ UNCHANGED M!vars
    BY <1>2 DEF Next, Carrying, Conversing, Thinking, Listing, Charging, vars, bill, M!vars
  <2> QED  BY <1>2, <2>1, StepInv
<1> QED  BY <1>1, <1>2, PTL DEF Spec

\* Work is charged once at its own rates and never above what was reserved, whatever
\* the prices and however the request fails.
THEOREM MeteringStays == Spec => []MeteringKept
<1>1. MeteringInv => MeteringKept
  <2> SUFFICES ASSUME MeteringInv PROVE M!MeteringKept
    BY DEF MeteringKept
  <2>1. M!TypeOK
    BY HeldNumber DEF MeteringInv, PhaseOK, SpoolOK, M!TypeOK
  <2>2. M!TidiedUp
    BY DEF M!TidiedUp, MeteringInv, SpoolOK, OverOK, ChargeOK
  <2>3. M!Delivered
    BY DEF M!Delivered, MeteringInv, OverOK, ShownOK
  <2> QED  BY <2>1, <2>2, <2>3, PaidHolds, CoveredHolds, ToldHolds, TieredHolds DEF M!MeteringKept
<1> QED  BY <1>1, MeteringPart, PTL

-----------------------------------------------------------------------------
(* What sources say of a model.                                            *)

Keys == S!Adapters \X Names

\* What a run may be told.
Models == UNION {[D -> S!AllOffers] : D \in SUBSET Names}
Results == [S!Existence -> [models : Models, complete : BOOLEAN]]

LEMMA CatalogueFinite == \A X : (S!IsFiniteSet(X) <=> IsFiniteSet(X)) /\ S!Cardinality(X) = Cardinality(X)
BY DEF S!IsFiniteSet, IsFiniteSet, S!Cardinality, Cardinality

LEMMA CatalogueIs ==
    /\ IsFiniteSet(Names) /\ Offers \subseteq S!AllOffers /\ {Ratio, MaxRuns, MaxChanges} \subseteq Nat
    /\ Listings \subseteq [S!Existence -> [Names -> S!AllOffers \cup {None}]]
    /\ \A n \in Names : Dev[Tags[n]] \in S!Described \cup {None}
    /\ None \notin Nat /\ None \notin BOOLEAN /\ None \notin S!Reasonings
    /\ None \notin S!AllOffers /\ None \notin S!Described /\ None \notin Keys
BY RequestsAssumption, CatalogueFinite DEF S!WellKept, Keys

LEMMA AnswersAre ==
    ASSUME NEW r \in Results, NEW s \in S!Existence
    PROVE  /\ DOMAIN r[s].models \subseteq Names
           /\ \A n \in DOMAIN r[s].models : r[s].models[n] \in S!AllOffers
           /\ r[s].complete \in BOOLEAN
<1>1. r[s] \in [models : Models, complete : BOOLEAN]
  BY DEF Results
<1>2. PICK D \in SUBSET Names : r[s].models \in [D -> S!AllOffers]
  BY <1>1 DEF Models
<1> QED  BY <1>1, <1>2

LEMMA SaidIs ==
    ASSUME NEW r \in Results, NEW s \in S!Existence, NEW k \in Keys
    PROVE  S!Said(r, s, k) \in S!AllOffers \cup {None}
BY AnswersAre DEF S!Said, Keys

LEMMA SourcesAre ==
    ASSUME NEW r \in Results, NEW k \in Keys
    PROVE  /\ S!Saying(r, k) \subseteq S!Existence
           /\ \A s \in S!Existence : s \in S!Saying(r, k) <=> S!Said(r, s, k) # None
           /\ \A s \in S!Saying(r, k) : S!Said(r, s, k) \in S!AllOffers
BY SaidIs DEF S!Saying

LEMMA MatchesAre ==
    ASSUME NEW r \in Results, NEW k \in S!matchCandidates(r)
    PROVE  k \in Keys /\ S!Saying(r, k) # {}
BY DEF S!matchCandidates, Keys

LEMMA MatchIs ==
    ASSUME NEW r \in Results, NEW k \in Keys
    PROVE  LET dev == S!findModelsDevMatch(r, k)
           IN  dev \in S!Described \cup {None} /\ (dev # None => dev = Dev[Tags[k[2]]])
BY CatalogueIs DEF S!findModelsDevMatch, Keys

-----------------------------------------------------------------------------
(* Figures.                                                                *)

Figured(r, k, f) == S!FieldValues(r, k, S!findModelsDevMatch(r, k), f)
Resolved(r, k, f) == S!resolveNumeric(Figured(r, k, f), S!ToleranceOf(f))

\* What one source gives of a field, by the name it has for the model.
Gives(r, k, s, f) == IF s = "models-dev" THEN Dev[Tags[k[2]]][f] ELSE S!Said(r, s, k)[f]
GivesAny(r, k, s, f) ==
    IF s = "models-dev" THEN Dev[Tags[k[2]]] # None /\ Dev[Tags[k[2]]][f] # None
    ELSE S!Said(r, s, k) # None /\ S!Said(r, s, k)[f] # None

LEMMA FieldsOf ==
    ASSUME NEW f \in S!Fields
    PROVE  /\ \A o \in S!AllOffers : o[f] \in S!Figures
           /\ \A d \in S!Described : d[f] \in S!Figures
           /\ \A e \in S!AllEntries : e[f] \in S!Figures
<1>1. f = "price" \/ f = "context"
  BY DEF S!Fields
<1> QED  BY <1>1 DEF S!AllOffers, S!Described, S!AllEntries

LEMMA FiguresAre ==
    ASSUME NEW r \in Results, NEW k \in Keys, NEW f \in S!Fields
    PROVE  /\ DOMAIN Figured(r, k, f) \subseteq S!Existence \cup {"models-dev"}
           /\ \A s \in DOMAIN Figured(r, k, f) :
                 /\ Figured(r, k, f)[s] \in Nat
                 /\ Figured(r, k, f)[s] = Gives(r, k, s, f)
                 /\ GivesAny(r, k, s, f)
<1> DEFINE dev == S!findModelsDevMatch(r, k)
           sayers == {t \in S!Saying(r, k) : S!Said(r, t, k)[f] # None}
           own == IF dev # None /\ dev[f] # None THEN {"models-dev"} ELSE {}
           v == Figured(r, k, f)
<1>1. v = [s \in sayers \cup own |-> IF s = "models-dev" THEN dev[f] ELSE S!Said(r, s, k)[f]]
  BY DEF Figured, S!FieldValues
<1>2. dev \in S!Described \cup {None} /\ (dev # None => dev = Dev[Tags[k[2]]])
  BY MatchIs
<1>3. sayers \subseteq S!Existence /\ "models-dev" \notin S!Existence
  BY SourcesAre DEF S!Existence
<1>4. DOMAIN v = sayers \cup own
  BY <1>1
<1>5. ASSUME NEW s \in sayers
      PROVE  v[s] \in Nat /\ v[s] = Gives(r, k, s, f) /\ GivesAny(r, k, s, f)
  <2>1. s # "models-dev" /\ s \in DOMAIN v /\ v[s] = S!Said(r, s, k)[f]
    BY <1>1, <1>3
  <2>2. S!Said(r, s, k) \in S!AllOffers /\ S!Said(r, s, k)[f] # None
    BY SourcesAre
  <2>3. S!Said(r, s, k) # None
    BY <2>2, CatalogueIs
  <2> QED  BY <2>1, <2>2, <2>3, FieldsOf DEF Gives, GivesAny, S!Figures
<1>6. ASSUME NEW s \in own
      PROVE  v[s] \in Nat /\ v[s] = Gives(r, k, s, f) /\ GivesAny(r, k, s, f)
  <2>1. s = "models-dev" /\ dev # None /\ dev[f] # None
    OBVIOUS
  <2>2. v[s] = dev[f]
    BY <1>1, <2>1
  <2> QED  BY <1>2, <2>1, <2>2, FieldsOf DEF Gives, GivesAny, S!Figures
<1> QED  BY <1>3, <1>4, <1>5, <1>6

LEMMA WithinIs ==
    ASSUME NEW a \in Nat, NEW b \in Nat, NEW p \in Nat
    PROVE  S!within(a, a, p) /\ (S!within(a, b, p) <=> S!within(b, a, p))
<1>1. p * a \in Nat
  OBVIOUS
<1>2. S!within(a, a, p)
  BY <1>1 DEF S!within, S!Magnitude
<1>3. S!Magnitude(a - b) = S!Magnitude(b - a)
  BY DEF S!Magnitude
<1>4. (IF a > b THEN a ELSE b) = (IF b > a THEN b ELSE a)
  OBVIOUS
<1> QED  BY <1>2, <1>3, <1>4 DEF S!within

LEMMA ToleranceIs == \A f \in S!Fields : S!ToleranceOf(f) \in Nat
BY DEF S!ToleranceOf, S!Fields

LEMMA OneOf ==
    ASSUME NEW X, IsFiniteSet(X), Cardinality(X) = 1
    PROVE  (CHOOSE x \in X : TRUE) \in X
<1>1. X # {}
  BY FS_EmptySet
<1> QED  BY <1>1

LEMMA TwoOf ==
    ASSUME NEW X, IsFiniteSet(X), NEW a \in X, NEW b \in X, a # b
    PROVE  Cardinality(X) >= 2
<1>1. IsFiniteSet({a}) /\ Cardinality({a}) = 1
  BY FS_Singleton
<1>2. Cardinality({a} \cup {b}) = 2
  <2>1. b \notin {a}
    OBVIOUS
  <2> QED  BY <1>1, <2>1, FS_AddElement
<1>3. Cardinality({a} \cup {b}) <= Cardinality(X)
  BY FS_Subset
<1> QED  BY <1>2, <1>3, FS_CardinalityType

LEMMA SourcesFinite == \A X : X \subseteq S!Existence \cup {"models-dev"} => IsFiniteSet(X)
<1>1. S!Existence \cup {"models-dev"} = {"vercel-ai-gateway"} \cup {"openrouter"} \cup {"models-dev"}
  BY DEF S!Existence
<1>2. IsFiniteSet(S!Existence \cup {"models-dev"})
  BY <1>1, FS_AddElement, FS_Singleton
<1> QED  BY <1>2, FS_Subset

\* A figure is the one that was given, or one that another agrees with.
LEMMA ResolvedIs ==
    ASSUME NEW r \in Results, NEW k \in Keys, NEW f \in S!Fields, Resolved(r, k, f) # None
    PROVE  /\ Resolved(r, k, f) \in Nat
           /\ \/ S!Cardinality(DOMAIN Figured(r, k, f)) = 1
              \/ \E s \in DOMAIN Figured(r, k, f) : \E t \in DOMAIN Figured(r, k, f) \ {s} :
                    /\ Resolved(r, k, f) = Figured(r, k, f)[s]
                    /\ S!within(Figured(r, k, f)[s], Figured(r, k, f)[t], S!ToleranceOf(f))
<1> DEFINE v == Figured(r, k, f)
           p == S!ToleranceOf(f)
           Agree(s, t) == {s, t} \subseteq DOMAIN v /\ S!within(v[s], v[t], p)
<1>1. Resolved(r, k, f) =
         IF S!Cardinality(DOMAIN v) = 1 THEN v[CHOOSE s \in DOMAIN v : TRUE]
         ELSE IF Agree("vercel-ai-gateway", "openrouter") \/ Agree("vercel-ai-gateway", "models-dev")
              THEN v["vercel-ai-gateway"]
         ELSE IF Agree("openrouter", "models-dev") THEN v["openrouter"]
         ELSE None
  BY DEF Resolved, S!resolveNumeric
<1>2. \A s \in DOMAIN v : v[s] \in Nat
  BY FiguresAre
<1>3. CASE S!Cardinality(DOMAIN v) = 1
  <2>1. IsFiniteSet(DOMAIN v) /\ Cardinality(DOMAIN v) = 1
    BY <1>3, FiguresAre, SourcesFinite, CatalogueFinite
  <2>2. (CHOOSE s \in DOMAIN v : TRUE) \in DOMAIN v
    BY <2>1, OneOf
  <2> QED  BY <1>1, <1>2, <1>3, <2>2
<1>4. CASE S!Cardinality(DOMAIN v) # 1 /\ (Agree("vercel-ai-gateway", "openrouter") \/ Agree("vercel-ai-gateway", "models-dev"))
  BY <1>1, <1>2, <1>4
<1>5. CASE /\ S!Cardinality(DOMAIN v) # 1
           /\ ~(Agree("vercel-ai-gateway", "openrouter") \/ Agree("vercel-ai-gateway", "models-dev"))
  BY <1>1, <1>2, <1>5
<1> QED  BY <1>3, <1>4, <1>5

-----------------------------------------------------------------------------
(* Entries.                                                                *)

EntryFields == {"operations", "price", "context", "tools", "reasoning", "review", "deprecated"}

LEMMA Excepting ==
    ASSUME NEW x \in S!AllEntries, NEW a, NEW b, NEW c, NEW d
    PROVE  [x EXCEPT !.operations = a, !.price = b, !.context = c, !.tools = d] =
              [operations |-> a, price |-> b, context |-> c, tools |-> d,
               reasoning |-> x.reasoning, review |-> x.review, deprecated |-> x.deprecated]
<1> DEFINE y == [f \in EntryFields |->
                   IF f = "operations" THEN a ELSE IF f = "price" THEN b
                   ELSE IF f = "context" THEN c ELSE IF f = "tools" THEN d ELSE x[f]]
<1>1. [x EXCEPT !.operations = a, !.price = b, !.context = c, !.tools = d] = y
  BY DEF S!AllEntries, EntryFields
<1>2. y = [operations |-> a, price |-> b, context |-> c, tools |-> d,
           reasoning |-> x.reasoning, review |-> x.review, deprecated |-> x.deprecated]
  BY DEF EntryFields
<1> QED  BY <1>1, <1>2

LEMMA Marking ==
    ASSUME NEW x \in S!AllEntries, NEW a, NEW b
    PROVE  [x EXCEPT !.review = a, !.reasoning = b] =
              [operations |-> x.operations, price |-> x.price, context |-> x.context, tools |-> x.tools,
               reasoning |-> b, review |-> a, deprecated |-> x.deprecated]
<1> DEFINE y == [f \in EntryFields |-> IF f = "review" THEN a ELSE IF f = "reasoning" THEN b ELSE x[f]]
<1>1. [x EXCEPT !.review = a, !.reasoning = b] = y
  BY DEF S!AllEntries, EntryFields
<1>2. y = [operations |-> x.operations, price |-> x.price, context |-> x.context, tools |-> x.tools,
           reasoning |-> b, review |-> a, deprecated |-> x.deprecated]
  BY DEF EntryFields
<1> QED  BY <1>1, <1>2

\* What a merge makes of an entry, field by field.
Chosen(x, r, k, f) == IF Resolved(r, k, f) = None THEN x[f] ELSE Resolved(r, k, f)
Context(x, r, k) == IF "text" \in S!ensureOperations(x, r, k) THEN Chosen(x, r, k, "context") ELSE x.context
Offering(r, k) == \E s \in S!Saying(r, k) : S!Said(r, s, k).tools
Tools(x, r, k) ==
    IF "text" \in S!ensureOperations(x, r, k) /\ x.tools = None /\ Offering(r, k) THEN TRUE ELSE x.tools
Merged(x, r, k) ==
    [operations |-> S!ensureOperations(x, r, k), price |-> Chosen(x, r, k, "price"), context |-> Context(x, r, k),
     tools |-> Tools(x, r, k), reasoning |-> x.reasoning, review |-> x.review, deprecated |-> x.deprecated]

LEMMA MergeIs ==
    ASSUME NEW x \in S!AllEntries, NEW r, NEW k
    PROVE  S!mergeCatalogEntry(x, r, k, S!findModelsDevMatch(r, k)) = Merged(x, r, k)
<1>1. S!mergeCatalogEntry(x, r, k, S!findModelsDevMatch(r, k)) =
         [x EXCEPT !.operations = S!ensureOperations(x, r, k), !.price = Chosen(x, r, k, "price"),
                   !.context = Context(x, r, k), !.tools = Tools(x, r, k)]
  BY DEF S!mergeCatalogEntry, Chosen, Context, Tools, Offering, Resolved, Figured
<1> QED  BY <1>1, Excepting DEF Merged

LEMMA OperationsAre ==
    ASSUME NEW x \in S!AllEntries, NEW r, NEW k
    PROVE  /\ S!ensureOperations(x, r, k) \in SUBSET S!Operations
           /\ x.operations # {} => S!ensureOperations(x, r, k) = x.operations
<1>1. x.operations \in SUBSET S!Operations
  BY DEF S!AllEntries
<1> QED  BY <1>1 DEF S!ensureOperations, S!Operations

LEMMA ChosenIs ==
    ASSUME NEW x \in S!AllEntries, NEW r \in Results, NEW k \in Keys, NEW f \in S!Fields
    PROVE  Chosen(x, r, k, f) \in S!Figures
BY FieldsOf, ResolvedIs DEF Chosen, S!Figures

LEMMA MergedTyped ==
    ASSUME NEW x \in S!AllEntries, NEW r \in Results, NEW k \in S!matchCandidates(r)
    PROVE  Merged(x, r, k) \in S!AllEntries
<1>1. k \in Keys /\ "price" \in S!Fields /\ "context" \in S!Fields
  BY MatchesAre DEF S!Fields
<1>2. Chosen(x, r, k, "price") \in S!Figures /\ Chosen(x, r, k, "context") \in S!Figures
  BY <1>1, ChosenIs
<1>3. Context(x, r, k) \in S!Figures
  BY <1>2 DEF Context, S!AllEntries
<1>4. Tools(x, r, k) \in BOOLEAN \cup {None}
  BY DEF Tools, S!AllEntries
<1>5. x.reasoning \in S!Reasonings \cup {None} /\ x.review \in BOOLEAN /\ x.deprecated \in BOOLEAN
  BY DEF S!AllEntries
<1>6. S!ensureOperations(x, r, k) \in SUBSET S!Operations
  BY OperationsAre
<1> QED  BY <1>2, <1>3, <1>4, <1>5, <1>6 DEF Merged, S!AllEntries

\* What models.dev's word on reasoning makes of an entry.
Doubtful(e, r, k) ==
    LET dev == S!findModelsDevMatch(r, k)
    IN  /\ dev # None /\ "text" \in e.operations /\ dev.reasons
        /\ ~(e.reasoning \in {"drafted", "verified"} /\ ~e.review)
Draft(e, k) == IF k[1] \in SafeKind THEN "drafted" ELSE e.reasoning
Marked(e, k) ==
    [operations |-> e.operations, price |-> e.price, context |-> e.context, tools |-> e.tools,
     reasoning |-> Draft(e, k), review |-> TRUE, deprecated |-> e.deprecated]

LEMMA EnrichIs ==
    ASSUME NEW e \in S!AllEntries, NEW r \in Results, NEW k \in Keys
    PROVE  S!enrichCatalogEntry(e, k, S!findModelsDevMatch(r, k)) = IF Doubtful(e, r, k) THEN Marked(e, k) ELSE e
<1> DEFINE dev == S!findModelsDevMatch(r, k)
<1>1. [e EXCEPT !.review = TRUE, !.reasoning = Draft(e, k)] = Marked(e, k)
  BY Marking DEF Marked
<1>2. S!enrichCatalogEntry(e, k, dev) =
         IF dev = None \/ "text" \notin e.operations THEN e
         ELSE IF ~dev.reasons \/ (e.reasoning \in {"drafted", "verified"} /\ ~e.review) THEN e
         ELSE [e EXCEPT !.review = TRUE, !.reasoning = Draft(e, k)]
  BY DEF S!enrichCatalogEntry, Draft
<1> QED  BY <1>1, <1>2 DEF Doubtful

\* An entry that is kept as it should be.
Fit(e) == e \in S!AllEntries /\ (e.reasoning = "drafted" => e.review)
Made(x, r, k) == IF Doubtful(Merged(x, r, k), r, k) THEN Marked(Merged(x, r, k), k) ELSE Merged(x, r, k)

LEMMA MadeIs ==
    ASSUME NEW x \in S!AllEntries, NEW r \in Results, NEW k \in S!matchCandidates(r)
    PROVE  LET dev == S!findModelsDevMatch(r, k)
           IN  S!enrichCatalogEntry(S!mergeCatalogEntry(x, r, k, dev), k, dev) = Made(x, r, k)
BY MergeIs, MergedTyped, EnrichIs, MatchesAre DEF Made

LEMMA MadeFits ==
    ASSUME NEW x, Fit(x), NEW r \in Results, NEW k \in S!matchCandidates(r)
    PROVE  Fit(Made(x, r, k))
<1>1. x \in S!AllEntries /\ Merged(x, r, k) \in S!AllEntries
  BY MergedTyped DEF Fit
<1>2. Merged(x, r, k).reasoning = x.reasoning /\ Merged(x, r, k).review = x.review
  BY DEF Merged
<1>3. Fit(Merged(x, r, k))
  BY <1>1, <1>2 DEF Fit
<1>4. ASSUME NEW e \in S!AllEntries
      PROVE  Fit(Marked(e, k))
  <2>1. Draft(e, k) \in S!Reasonings \cup {None}
    BY DEF Draft, S!AllEntries, S!Reasonings
  <2> QED  BY <2>1 DEF Fit, Marked, S!AllEntries
<1> QED  BY <1>1, <1>3, <1>4 DEF Made

\* What has been applied leaves the same sources nothing to say.
LEMMA MadeIsQuiet ==
    ASSUME NEW x, Fit(x), NEW r \in Results, NEW k \in S!matchCandidates(r)
    PROVE  Made(Made(x, r, k), r, k) = Made(x, r, k)
<1> DEFINE m == Merged(x, r, k)
           e == Made(x, r, k)
<1>1. x \in S!AllEntries /\ m \in S!AllEntries /\ e \in S!AllEntries
  BY MadeFits, MergedTyped DEF Fit
<1>2. /\ e.operations = m.operations /\ e.price = m.price /\ e.context = m.context /\ e.tools = m.tools
      /\ e.deprecated = m.deprecated
  BY DEF Made, Marked
<1>3. S!ensureOperations(e, r, k) = m.operations
  <2>1. m.operations = S!ensureOperations(x, r, k)
    BY DEF Merged
  <2> QED  BY <1>2, <2>1 DEF S!ensureOperations
<1>4. Chosen(e, r, k, "price") = m.price
  BY <1>2 DEF Chosen, Merged
<1>5. Context(e, r, k) = m.context
  <2>1. m.operations = S!ensureOperations(x, r, k) /\ m.context = Context(x, r, k)
    BY DEF Merged
  <2> QED  BY <1>2, <1>3, <2>1 DEF Chosen, Context
<1>6. Tools(e, r, k) = m.tools
  <2>1. m.operations = S!ensureOperations(x, r, k) /\ m.tools = Tools(x, r, k)
    BY DEF Merged
  <2> QED  BY <1>2, <1>3, <2>1 DEF Tools
<1>7. Merged(e, r, k) = e
  <2>1. Merged(e, r, k) =
           [operations |-> e.operations, price |-> e.price, context |-> e.context, tools |-> e.tools,
            reasoning |-> e.reasoning, review |-> e.review, deprecated |-> e.deprecated]
    BY <1>2, <1>3, <1>4, <1>5, <1>6 DEF Merged
  <2> QED  BY <1>1, <2>1 DEF S!AllEntries
<1>8. CASE Doubtful(m, r, k)
  <2>1. e = Marked(m, k)
    BY <1>8 DEF Made
  <2>2. Marked(e, k) = e
    BY <2>1 DEF Marked, Draft
  <2> QED  BY <1>7, <2>2 DEF Made
<1>9. CASE ~Doubtful(m, r, k)
  <2>1. e = m
    BY <1>9 DEF Made
  <2> QED  BY <1>7, <1>9, <2>1 DEF Made
<1> QED  BY <1>8, <1>9

\* A figure that changed is one that was resolved.
LEMMA MadeFigures ==
    ASSUME NEW x \in S!AllEntries, NEW r \in Results, NEW k \in S!matchCandidates(r), NEW f \in S!Fields,
           Made(x, r, k)[f] # x[f]
    PROVE  Resolved(r, k, f) # None /\ Made(x, r, k)[f] = Resolved(r, k, f)
<1>1. Made(x, r, k)[f] = Merged(x, r, k)[f]
  BY DEF Made, Marked, S!Fields
<1>2. f = "price" \/ f = "context"
  BY DEF S!Fields
<1>3. Merged(x, r, k).price = Chosen(x, r, k, "price") /\ Merged(x, r, k).context = Context(x, r, k)
  BY DEF Merged
<1> QED  BY <1>1, <1>2, <1>3 DEF Chosen, Context

\* What a human has settled stays.
LEMMA MadeSettles ==
    ASSUME NEW x \in S!AllEntries, NEW r \in Results, NEW k \in S!matchCandidates(r)
    PROVE  LET e == Made(x, r, k)
           IN  /\ x.operations # {} => e.operations = x.operations
               /\ x.tools # None => e.tools = x.tools
               /\ (x.reasoning = "verified" /\ ~x.review) => e.reasoning = "verified" /\ ~e.review
               /\ e.deprecated = x.deprecated
<1> DEFINE m == Merged(x, r, k)
           e == Made(x, r, k)
<1>1. e.operations = m.operations /\ e.tools = m.tools /\ e.deprecated = m.deprecated
  BY DEF Made, Marked
<1>2. m.operations = S!ensureOperations(x, r, k) /\ m.tools = Tools(x, r, k) /\ m.deprecated = x.deprecated
      /\ m.reasoning = x.reasoning /\ m.review = x.review
  BY DEF Merged
<1>3. (x.reasoning = "verified" /\ ~x.review) => e = m
  BY <1>2 DEF Made, Doubtful
<1> QED  BY <1>1, <1>2, <1>3, OperationsAre DEF Tools

-----------------------------------------------------------------------------
(* The history.                                                            *)

LEMMA TwoSources == S!Existence = {"vercel-ai-gateway", "openrouter"} /\ "vercel-ai-gateway" # "openrouter"
BY DEF S!Existence

\* The last n runs of a sequence saw a model at one source alone.
Alone(q, n, k, s) == n \in 1 .. Len(q) /\ \A i \in Len(q) - n + 1 .. Len(q) : S!Saying(q[i], k) = {s}

Met(q) == {c \in Keys : \E i \in DOMAIN q : S!Confirmed(q[i], c)}
Singles(q) == {k \in Keys : \E s \in S!Existence : q # <<>> /\ S!Saying(q[Len(q)], k) = {s}}

\* What a history h remembers of the runs q.
Remembers(h, q) ==
    /\ h.confirmed = {S!confirmedKey(k) : k \in Met(q)}
    /\ DOMAIN h.single = Singles(q)
    /\ \A k \in DOMAIN h.single :
          /\ h.single[k].source \in S!Existence
          /\ h.single[k].streak \in Nat /\ Alone(q, h.single[k].streak, k, h.single[k].source)
          /\ \A n \in Nat : Alone(q, n, k, h.single[k].source) => n <= h.single[k].streak

LEMMA RememberedIsTrue == sightings \in Seq(Results) /\ Remembers(seen, sightings) => S!HistoryTrue
<1> SUFFICES ASSUME sightings \in Seq(Results), Remembers(seen, sightings) PROVE S!HistoryTrue
  OBVIOUS
<1>1. seen.confirmed =
         {S!confirmedKey(k) : k \in {c \in S!Adapters \X Names : \E i \in DOMAIN sightings : S!Confirmed(sightings[i], c)}}
  BY DEF Remembers, Met, Keys
<1>2. ASSUME NEW k \in S!Adapters \X Names, NEW s \in S!Existence, k \in DOMAIN seen.single, seen.single[k].source = s
      PROVE  LET streaks == {n \in 1 .. Len(sightings) :
                               \A i \in Len(sightings) - n + 1 .. Len(sightings) : S!OneSource(i, k, s)}
             IN  seen.single[k].streak \in streaks /\ \A n \in streaks : n <= seen.single[k].streak
  <2> DEFINE streaks == {n \in 1 .. Len(sightings) :
                           \A i \in Len(sightings) - n + 1 .. Len(sightings) : S!OneSource(i, k, s)}
  <2>1. \A n : n \in streaks <=> Alone(sightings, n, k, s)
    BY DEF Alone, S!OneSource
  <2>2. \A n \in streaks : n \in Nat
    OBVIOUS
  <2> HIDE DEF streaks
  <2>3. seen.single[k].streak \in streaks /\ \A n \in streaks : n <= seen.single[k].streak
    BY <1>2, <2>1, <2>2 DEF Remembers
  <2> QED  BY <2>3 DEF streaks
<1>3. DOMAIN seen.single =
         {k \in S!Adapters \X Names : \E s \in S!Existence : sightings # <<>> /\ S!OneSource(Len(sightings), k, s)}
  BY DEF Remembers, Singles, Keys, S!OneSource
<1> QED  BY <1>1, <1>2, <1>3 DEF S!HistoryTrue

\* A run adds one to each streak that goes on, and begins the others.
LEMMA StreakGrows ==
    ASSUME NEW q \in Seq(Results), NEW r \in Results, NEW n \in Nat, NEW k, NEW s
    PROVE  Alone(Append(q, r), n, k, s) <=> n > 0 /\ S!Saying(r, k) = {s} /\ (n = 1 \/ Alone(q, n - 1, k, s))
<1> DEFINE L == Len(q)
           a == Append(q, r)
<1>1. L \in Nat /\ Len(a) = L + 1 /\ a[L + 1] = r /\ \A i \in 1 .. L : a[i] = q[i]
  OBVIOUS
<1>2. Alone(q, n - 1, k, s) <=> n - 1 \in 1 .. L /\ \A i \in L - (n - 1) + 1 .. L : S!Saying(q[i], k) = {s}
  BY DEF Alone
<1>0. SUFFICES Alone(a, n, k, s) <=> n > 0 /\ S!Saying(r, k) = {s} /\ (n = 1 \/ Alone(q, n - 1, k, s))
  OBVIOUS
<1> HIDE DEF L, a
<1>3. Alone(a, n, k, s) <=> n \in 1 .. L + 1 /\ \A i \in L + 1 - n + 1 .. L + 1 : S!Saying(a[i], k) = {s}
  BY <1>1 DEF Alone
<1>4. CASE n = 0
  BY <1>1, <1>3, <1>4
<1>5. CASE n = 1
  <2>1. \A i : i \in L + 1 - n + 1 .. L + 1 <=> i = L + 1
    BY <1>1, <1>5
  <2> QED  BY <1>1, <1>3, <1>5, <2>1
<1>6. CASE n > 1
  <2>1. n \in 1 .. L + 1 <=> n - 1 \in 1 .. L
    BY <1>1, <1>6
  <2>2. CASE n > L + 1
    BY <1>1, <1>2, <1>3, <1>6, <2>2
  <2>3. CASE n <= L + 1
    <3>1. \A i : i \in L + 1 - n + 1 .. L + 1 <=> i = L + 1 \/ i \in L - (n - 1) + 1 .. L
      BY <1>1, <1>6, <2>3
    <3>2. \A i \in L - (n - 1) + 1 .. L : a[i] = q[i]
      BY <1>1, <1>6, <2>3
    <3>3. ASSUME \A i \in L + 1 - n + 1 .. L + 1 : S!Saying(a[i], k) = {s}
          PROVE  S!Saying(r, k) = {s} /\ \A i \in L - (n - 1) + 1 .. L : S!Saying(q[i], k) = {s}
      BY <1>1, <3>1, <3>2, <3>3
    <3>4. ASSUME S!Saying(r, k) = {s}, \A i \in L - (n - 1) + 1 .. L : S!Saying(q[i], k) = {s}
          PROVE  \A i \in L + 1 - n + 1 .. L + 1 : S!Saying(a[i], k) = {s}
      BY <1>1, <3>1, <3>2, <3>4
    <3> DEFINE After == \A i \in L + 1 - n + 1 .. L + 1 : S!Saying(a[i], k) = {s}
               Before == \A i \in L - (n - 1) + 1 .. L : S!Saying(q[i], k) = {s}
    <3>5. After <=> S!Saying(r, k) = {s} /\ Before
      BY <3>3, <3>4
    <3>6. (Alone(a, n, k, s) <=> n \in 1 .. L + 1 /\ After) /\ (Alone(q, n - 1, k, s) <=> n - 1 \in 1 .. L /\ Before)
      BY <1>2, <1>3
    <3> HIDE DEF After, Before
    <3> QED  BY <1>1, <1>6, <2>1, <2>3, <3>5, <3>6
  <2> QED  BY <1>1, <2>2, <2>3
<1> QED  BY <1>4, <1>5, <1>6

LEMMA AloneLast ==
    ASSUME NEW q \in Seq(Results), NEW n, NEW k, NEW s, Alone(q, n, k, s)
    PROVE  n \in Nat /\ n >= 1 /\ n <= Len(q) /\ S!Saying(q[Len(q)], k) = {s}
<1>1. Len(q) \in Nat /\ n \in 1 .. Len(q)
  BY DEF Alone
<1>2. Len(q) \in Len(q) - n + 1 .. Len(q)
  BY <1>1
<1>3. \A i \in Len(q) - n + 1 .. Len(q) : S!Saying(q[i], k) = {s}
  BY DEF Alone
<1>4. S!Saying(q[Len(q)], k) = {s}
  BY <1>2, <1>3
<1> QED  BY <1>1, <1>4

\* A model that one source alone names is one that is not confirmed.
LEMMA SingleIs ==
    ASSUME NEW r \in Results, NEW k
    PROVE  /\ k \in S!matchCandidates(r) /\ ~S!Confirmed(r, k) <=> k \in Keys /\ \E s \in S!Existence : S!Saying(r, k) = {s}
           /\ k \in S!matchCandidates(r) /\ S!Confirmed(r, k) <=> k \in Keys /\ S!Confirmed(r, k)
<1>1. k \in S!matchCandidates(r) <=> k \in Keys /\ S!Saying(r, k) # {}
  BY DEF S!matchCandidates, Keys
<1>2. k \in Keys => S!Saying(r, k) \subseteq S!Existence
  BY SourcesAre
<1> QED  BY <1>1, <1>2, TwoSources DEF S!Confirmed

LEMMA HistoryGrows ==
    ASSUME NEW q \in Seq(Results), NEW h, Remembers(h, q), NEW r \in Results
    PROVE  Remembers(S!updateHistory(h, r), Append(q, r))
<1> DEFINE single == {k \in S!matchCandidates(r) : ~S!Confirmed(r, k)}
           Source(k) == CHOOSE s \in S!Saying(r, k) : TRUE
           Streak(k) == IF k \in DOMAIN h.single /\ h.single[k].source = Source(k) THEN h.single[k].streak + 1 ELSE 1
           now == S!updateHistory(h, r)
           a == Append(q, r)
<1>1. now = [single |-> [k \in single |-> [source |-> Source(k), streak |-> Streak(k)]],
             confirmed |-> h.confirmed \cup {S!confirmedKey(k) : k \in {c \in S!matchCandidates(r) : S!Confirmed(r, c)}}]
  BY DEF S!updateHistory
<1>2. a # <<>> /\ Len(a) = Len(q) + 1 /\ a[Len(a)] = r /\ Len(q) \in Nat /\ DOMAIN q = 1 .. Len(q) /\ DOMAIN a = 1 .. Len(q) + 1
      /\ \A i \in DOMAIN q : a[i] = q[i]
  OBVIOUS
<1>3. \A k : k \in single <=> k \in Keys /\ \E s \in S!Existence : S!Saying(r, k) = {s}
  BY SingleIs
<1>4. \A k \in single : Source(k) \in S!Existence /\ S!Saying(r, k) = {Source(k)}
  BY <1>3
<1> HIDE DEF single, Source, a
<1>5. now.single = [k \in single |-> [source |-> Source(k), streak |-> Streak(k)]]
  BY <1>1
<1>6. now.confirmed = {S!confirmedKey(k) : k \in Met(a)}
  <2>1. \A c \in Keys : c \in Met(a) <=> c \in Met(q) \/ S!Confirmed(r, c)
    BY <1>2 DEF Met
  <2>2. Met(a) = Met(q) \cup {c \in S!matchCandidates(r) : S!Confirmed(r, c)}
    BY <2>1, SingleIs DEF Met
  <2>3. h.confirmed = {S!confirmedKey(k) : k \in Met(q)}
    BY DEF Remembers
  <2> QED  BY <1>1, <2>2, <2>3
<1>7. DOMAIN now.single = Singles(a)
  <2>1. DOMAIN now.single = single
    BY <1>5
  <2> QED  BY <1>2, <1>3, <2>1 DEF Singles
<1>8. ASSUME NEW k \in single
      PROVE  /\ Streak(k) \in Nat /\ Alone(a, Streak(k), k, Source(k))
             /\ \A n \in Nat : Alone(a, n, k, Source(k)) => n <= Streak(k)
  <2>1. \A n \in Nat : Alone(a, n, k, Source(k)) <=> n > 0 /\ (n = 1 \/ Alone(q, n - 1, k, Source(k)))
    BY <1>4, StreakGrows DEF a
  <2>2. CASE k \in DOMAIN h.single /\ h.single[k].source = Source(k)
    <3> DEFINE m == h.single[k].streak
    <3>1. m \in Nat /\ Alone(q, m, k, Source(k)) /\ \A n \in Nat : Alone(q, n, k, Source(k)) => n <= m
      BY <2>2 DEF Remembers
    <3>2. Streak(k) = m + 1
      BY <2>2
    <3> HIDE DEF m, Streak
    <3>3. m + 1 \in Nat /\ (m + 1) - 1 = m /\ m + 1 > 0
      BY <3>1
    <3>4. Alone(a, m + 1, k, Source(k))
      BY <2>1, <3>1, <3>3
    <3>5. ASSUME NEW n \in Nat, Alone(a, n, k, Source(k)) PROVE n <= m + 1
      <4>1. n = 1 \/ (n > 1 /\ n - 1 \in Nat /\ Alone(q, n - 1, k, Source(k)))
        BY <2>1, <3>5
      <4>2. n = 1 \/ (n > 1 /\ n - 1 <= m)
        BY <3>1, <4>1
      <4> QED  BY <3>1, <4>2
    <3> QED  BY <3>2, <3>3, <3>4, <3>5
  <2>3. CASE ~(k \in DOMAIN h.single /\ h.single[k].source = Source(k))
    <3>1. Streak(k) = 1
      BY <2>3
    <3>2. ASSUME NEW n \in Nat, Alone(q, n, k, Source(k)) PROVE FALSE
      <4>1. Len(q) \in Nat /\ n >= 1 /\ n <= Len(q) /\ S!Saying(q[Len(q)], k) = {Source(k)}
        BY <1>2, <3>2, AloneLast
      <4>2. q # <<>>
        BY <4>1
      <4>3. k \in Singles(q)
        BY <1>3, <1>4, <4>1, <4>2 DEF Singles
      <4>4. k \in DOMAIN h.single /\ h.single[k].streak \in Nat /\ Alone(q, h.single[k].streak, k, h.single[k].source)
        BY <4>3 DEF Remembers
      <4>5. S!Saying(q[Len(q)], k) = {h.single[k].source}
        BY <4>4, AloneLast
      <4> QED  BY <2>3, <4>1, <4>4, <4>5
    <3> HIDE DEF Streak
    <3>3. Alone(a, 1, k, Source(k)) /\ \A n \in Nat : Alone(a, n, k, Source(k)) => n = 1
      BY <2>1, <3>2
    <3> QED  BY <3>1, <3>3
  <2> QED  BY <2>2, <2>3
<1>9. \A k \in DOMAIN now.single :
          /\ now.single[k].source = Source(k) /\ now.single[k].streak = Streak(k) /\ k \in single
  BY <1>5
<1> HIDE DEF Streak, now
<1>10. \A k \in DOMAIN now.single :
          /\ now.single[k].source \in S!Existence
          /\ now.single[k].streak \in Nat /\ Alone(a, now.single[k].streak, k, now.single[k].source)
          /\ \A n \in Nat : Alone(a, n, k, now.single[k].source) => n <= now.single[k].streak
  BY <1>4, <1>8, <1>9
<1>11. Remembers(now, a)
  BY <1>6, <1>7, <1>10 DEF Remembers
<1> QED  BY <1>11 DEF now, a

-----------------------------------------------------------------------------
(* Fetching and matching.                                                  *)

OffersOK == offers \in [S!Existence -> [Names -> S!AllOffers \cup {None}]]

LEMMA FetchedIs ==
    ASSUME OffersOK, NEW s \in S!Existence, NEW a \in S!Fetched(s)
    PROVE  /\ a \in [models : Models, complete : BOOLEAN]
           /\ DOMAIN a.models \subseteq S!Listed(s)
           /\ \A n \in DOMAIN a.models : a.models[n] = offers[s][n]
           /\ a.complete => S!Cardinality(S!Listed(s) \ DOMAIN a.models) * Ratio <= S!Cardinality(S!Listed(s))
<1> DEFINE listed == S!Listed(s)
           Failed(h) == S!isFetchComplete(S!Cardinality(listed), S!Cardinality(listed \ h))
<1>1. listed \subseteq Names /\ \A n \in listed : offers[s][n] \in S!AllOffers
  BY DEF S!Listed, OffersOK
<1>2. IsFiniteSet(listed)
  BY <1>1, CatalogueIs, FS_Subset
<1>3. PICK heard \in SUBSET listed, c \in BOOLEAN : a = S!Answer(s, heard, c) /\ (c => Failed(heard))
  <2>1. CASE a = S!Answer(s, {}, FALSE)
    BY <2>1
  <2>2. ASSUME NEW m \in SUBSET listed, a = S!Answer(s, listed \ m, FALSE)
        PROVE  \E heard \in SUBSET listed, c \in BOOLEAN : a = S!Answer(s, heard, c) /\ (c => Failed(heard))
    BY <2>2
  <2>3. ASSUME NEW m \in SUBSET listed,
               a = S!Answer(s, listed \ m, S!isFetchComplete(S!Cardinality(listed), S!Cardinality(m)))
        PROVE  \E heard \in SUBSET listed, c \in BOOLEAN : a = S!Answer(s, heard, c) /\ (c => Failed(heard))
    <3>1. listed \ (listed \ m) = m
      OBVIOUS
    <3>2. Failed(listed \ m) = S!isFetchComplete(S!Cardinality(listed), S!Cardinality(m))
      BY <3>1
    <3>3. S!isFetchComplete(S!Cardinality(listed), S!Cardinality(m)) \in BOOLEAN
      BY DEF S!isFetchComplete
    <3> QED  BY <2>3, <3>2, <3>3
  <2> QED  BY <2>1, <2>2, <2>3 DEF S!Fetched
<1>4. a.models = [n \in heard |-> offers[s][n]] /\ a.complete = c /\ a = [models |-> a.models, complete |-> a.complete]
  BY <1>3 DEF S!Answer
<1>5. a.models \in [heard -> S!AllOffers] /\ heard \in SUBSET Names
  BY <1>1, <1>4
<1>6. a \in [models : Models, complete : BOOLEAN]
  BY <1>4, <1>5 DEF Models
<1>7. ASSUME a.complete
      PROVE  S!Cardinality(listed \ heard) * Ratio <= S!Cardinality(listed)
  <2>1. Failed(heard)
    BY <1>3, <1>4, <1>7
  <2>2. Cardinality(listed) \in Nat /\ Ratio \in Nat /\ Cardinality(listed \ heard) \in Nat
    BY <1>2, CatalogueIs, FS_CardinalityType, FS_Subset
  <2>3. CASE Cardinality(listed) = 0
    <3>1. listed = {}
      BY <1>2, <2>3, FS_EmptySet
    <3>2. listed \ heard = {} /\ Cardinality(listed \ heard) = 0
      BY <3>1, FS_EmptySet
    <3> QED  BY <2>2, <2>3, <3>2, CatalogueFinite
  <2>4. CASE Cardinality(listed) # 0
    BY <2>1, <2>4, CatalogueFinite DEF S!isFetchComplete
  <2> QED  BY <2>3, <2>4
<1> QED  BY <1>1, <1>4, <1>5, <1>6, <1>7

LEMMA ExistingIs ==
    ASSUME NEW c, DOMAIN c \subseteq Keys, NEW k \in Keys
    PROVE  /\ S!findExistingKey(c, k) = None => \A o \in DOMAIN c : S!confirmedKey(o) # S!confirmedKey(k)
           /\ S!findExistingKey(c, k) # None => S!findExistingKey(c, k) \in DOMAIN c
<1> DEFINE alike == {o \in DOMAIN c : S!confirmedKey(o) = S!confirmedKey(k)}
<1>1. \A o \in DOMAIN c : o # None
  BY CatalogueIs
<1>2. alike # {} => (CHOOSE o \in alike : TRUE) \in alike
  OBVIOUS
<1>3. S!findExistingKey(c, k) =
         IF k \in DOMAIN c THEN k ELSE IF alike = {} THEN None ELSE CHOOSE o \in alike : TRUE
  BY DEF S!findExistingKey
<1>4. CASE k \in DOMAIN c
  BY <1>1, <1>3, <1>4
<1>5. CASE k \notin DOMAIN c /\ alike = {}
  BY <1>3, <1>5
<1>6. CASE k \notin DOMAIN c /\ alike # {}
  BY <1>1, <1>2, <1>3, <1>6
<1> QED  BY <1>4, <1>5, <1>6

CatalogFits(c) == DOMAIN c \subseteq Keys /\ c = [k \in DOMAIN c |-> c[k]] /\ \A k \in DOMAIN c : Fit(c[k])

LEMMA StubFits == Fit(S!Stub) /\ S!Stub.operations = {}
<1>1. None # "drafted"
  BY CatalogueIs DEF S!Reasonings
<1> QED  BY <1>1 DEF Fit, S!Stub, S!AllEntries, S!Figures

-----------------------------------------------------------------------------
(* Runs, and the human who applies what they report.                       *)

\* An item was made from an entry that was kept as it should be, by what the run heard.
ItemOK(item, r) ==
    /\ item.from \in S!matchCandidates(r) /\ item.key \in Keys
    /\ Fit(item.was) /\ item.entry = Made(item.was, r, item.from)
ItemsOK ==
    report # None =>
        /\ report.results \in Results
        /\ \A item \in report.new \cup report.updated : ItemOK(item, report.results)
        /\ \A item \in report.new : S!Confirmed(report.results, item.from) /\ item.key = item.from
        /\ \A item \in report.updated \cup report.deprecations : item.key \in DOMAIN catalog
        /\ \A item \in report.deprecations : item.key \in Keys /\ Fit(item.entry)
NoneAlike ==
    report # None => \A item \in report.new : \A k \in DOMAIN catalog :
        S!confirmedKey(k) = S!confirmedKey(item.key) => \E other \in report.new : other.key = k
RunsOK == sightings \in Seq(Results) /\ runs \in Nat /\ Len(sightings) = runs /\ runs <= MaxRuns /\ changes \in 0 .. MaxChanges

CatalogueInv ==
    OffersOK /\ CatalogFits(catalog) /\ RunsOK /\ Remembers(seen, sightings) /\ ItemsOK /\ S!GoneOnly /\ NoneAlike

LEMMA InitCatalogue == S!Init => CatalogueInv
<1> SUFFICES ASSUME S!Init PROVE CatalogueInv
  OBVIOUS
<1>1. OffersOK
  BY CatalogueIs DEF S!Init, OffersOK
<1>2. CatalogFits(catalog)
  BY RequestsAssumption DEF S!Init, S!WellKept, CatalogFits, Keys, Fit
<1>3. RunsOK
  BY CatalogueIs DEF S!Init, RunsOK
<1>4. Remembers(seen, sightings)
  BY DEF S!Init, Remembers, Met, Singles
<1> QED  BY <1>1, <1>2, <1>3, <1>4 DEF S!Init, CatalogueInv, ItemsOK, S!GoneOnly, NoneAlike

LEMMA ChangeStep ==
    ASSUME CatalogueInv, NEW s \in S!Existence, NEW n \in Names, NEW o \in Offers \cup {None}, S!Change(s, n, o)
    PROVE  CatalogueInv'
<1>1. UNCHANGED <<catalog, seen, report, sightings, runs>>
  BY DEF S!Change
<1>2. OffersOK'
  BY CatalogueIs DEF S!Change, OffersOK, CatalogueInv
<1>3. RunsOK'
  BY <1>1, CatalogueIs DEF S!Change, CatalogueInv, RunsOK
<1>4. CatalogFits(catalog)' /\ Remembers(seen, sightings)'
  BY <1>1 DEF CatalogueInv
<1>5. ItemsOK' /\ NoneAlike'
  BY <1>1 DEF CatalogueInv, ItemsOK, NoneAlike
<1>6. S!GoneOnly'
  BY <1>1 DEF CatalogueInv, S!GoneOnly, S!StillListed
<1> QED  BY <1>2, <1>3, <1>4, <1>5, <1>6 DEF CatalogueInv

\* The catalogue may gain the model of a new item, and nothing else.
LEMMA CatalogueKeeps ==
    ASSUME CatalogueInv, UNCHANGED <<offers, seen, report, sightings, runs, changes>>,
           CatalogFits(catalog'), DOMAIN catalog \subseteq DOMAIN catalog',
           \A k \in DOMAIN catalog' : k \in DOMAIN catalog \/ (report # None /\ \E other \in report.new : other.key = k)
    PROVE  CatalogueInv'
<1>1. OffersOK' /\ RunsOK' /\ Remembers(seen, sightings)'
  BY DEF CatalogueInv, OffersOK, RunsOK
<1>2. ItemsOK'
  BY DEF CatalogueInv, ItemsOK
<1>3. NoneAlike'
  BY DEF CatalogueInv, NoneAlike
<1>4. S!GoneOnly'
  BY DEF CatalogueInv, S!GoneOnly, S!StillListed
<1> QED  BY <1>1, <1>2, <1>3, <1>4 DEF CatalogueInv

LEMMA ApplyStep ==
    ASSUME CatalogueInv, report # None, NEW item \in report.new \cup report.updated \cup report.deprecations, S!Apply(item)
    PROVE  CatalogueInv'
<1>1. item.key \in Keys /\ Fit(item.entry)
  <2>1. CASE item \in report.new \cup report.updated
    BY <2>1, MadeFits DEF CatalogueInv, ItemsOK, ItemOK
  <2>2. CASE item \in report.deprecations
    BY <2>2 DEF CatalogueInv, ItemsOK
  <2> QED  BY <2>1, <2>2
<1>2. UNCHANGED <<offers, seen, report, sightings, runs, changes>>
  BY DEF S!Apply
<1>3. catalog' = [k \in DOMAIN catalog \cup {item.key} |-> IF k = item.key THEN item.entry ELSE catalog[k]]
  BY DEF S!Apply
<1>4. CatalogFits(catalog')
  BY <1>1, <1>3 DEF CatalogueInv, CatalogFits
<1>5. item.key \in DOMAIN catalog \/ item \in report.new
  BY DEF CatalogueInv, ItemsOK
<1> QED  BY <1>2, <1>3, <1>4, <1>5, CatalogueKeeps

LEMMA ReviewStep ==
    ASSUME CatalogueInv, NEW key \in DOMAIN catalog, NEW verdict \in {"verified", "denied"}, S!Review(key, verdict)
    PROVE  CatalogueInv'
<1>1. UNCHANGED <<offers, seen, report, sightings, runs, changes>>
  BY DEF S!Review
<1> DEFINE entry == [operations |-> catalog[key].operations, price |-> catalog[key].price, context |-> catalog[key].context,
                     tools |-> catalog[key].tools, reasoning |-> verdict, review |-> FALSE,
                     deprecated |-> catalog[key].deprecated]
<1>2. catalog[key] \in S!AllEntries /\ catalog = [k \in DOMAIN catalog |-> catalog[k]]
  BY DEF CatalogueInv, CatalogFits, Fit
<1>3. catalog' = [catalog EXCEPT ![key] = [catalog[key] EXCEPT !.review = FALSE, !.reasoning = verdict]]
  BY <1>2 DEF S!Review
<1>4. [catalog[key] EXCEPT !.review = FALSE, !.reasoning = verdict] = entry
  BY <1>2, Marking
<1>5. Fit(entry)
  BY <1>2 DEF Fit, S!AllEntries, S!Reasonings
<1> HIDE DEF entry
<1>6. DOMAIN catalog' = DOMAIN catalog /\ \A k \in DOMAIN catalog : catalog'[k] = IF k = key THEN entry ELSE catalog[k]
  BY <1>2, <1>3, <1>4
<1>7. catalog' = [k \in DOMAIN catalog' |-> catalog'[k]]
  BY <1>2, <1>3, <1>4
<1>8. CatalogFits(catalog')
  BY <1>5, <1>6, <1>7 DEF CatalogueInv, CatalogFits
<1> QED  BY <1>1, <1>6, <1>8, CatalogueKeeps

\* What a run heard, with what its sources listed.
Heard(r) ==
    /\ r \in Results
    /\ \A s \in S!Existence :
          /\ \A n \in DOMAIN r[s].models : r[s].models[n] = offers[s][n]
          /\ r[s].complete => S!Cardinality(S!Listed(s) \ DOMAIN r[s].models) * Ratio <= S!Cardinality(S!Listed(s))

LEMMA HeardIs ==
    ASSUME OffersOK, NEW vercel \in S!Fetched("vercel-ai-gateway"), NEW openrouter \in S!Fetched("openrouter")
    PROVE  Heard([s \in S!Existence |-> IF s = "openrouter" THEN openrouter ELSE vercel])
<1> DEFINE r == [s \in S!Existence |-> IF s = "openrouter" THEN openrouter ELSE vercel]
<1>1. \A s \in S!Existence : r[s] \in S!Fetched(s)
  BY TwoSources
<1>2. DOMAIN r = S!Existence /\ r = [s \in S!Existence |-> r[s]]
  OBVIOUS
<1> HIDE DEF r
<1>3. \A s \in S!Existence :
         /\ r[s] \in [models : Models, complete : BOOLEAN]
         /\ \A n \in DOMAIN r[s].models : r[s].models[n] = offers[s][n]
         /\ r[s].complete => S!Cardinality(S!Listed(s) \ DOMAIN r[s].models) * Ratio <= S!Cardinality(S!Listed(s))
  BY <1>1, FetchedIs
<1>4. r \in Results
  BY <1>2, <1>3 DEF Results
<1>5. Heard(r)
  BY <1>3, <1>4 DEF Heard
<1> QED  BY <1>5 DEF r

LEMMA MadeOf ==
    ASSUME CatalogFits(catalog), NEW r \in Results, NEW k \in S!matchCandidates(r)
    PROVE  LET existing == S!findExistingKey(catalog, k)
               was == IF existing = None THEN S!Stub ELSE catalog[existing]
           IN  Fit(was) /\ S!Entry(r, k) = Made(was, r, k)
<1> DEFINE existing == S!findExistingKey(catalog, k)
           was == IF existing = None THEN S!Stub ELSE catalog[existing]
<1>1. k \in Keys
  BY MatchesAre
<1>2. existing # None => existing \in DOMAIN catalog
  BY <1>1, ExistingIs DEF CatalogFits
<1>3. Fit(was)
  BY <1>2, StubFits DEF CatalogFits
<1>4. S!Entry(r, k) =
         S!enrichCatalogEntry(S!mergeCatalogEntry(was, r, k, S!findModelsDevMatch(r, k)), k, S!findModelsDevMatch(r, k))
  BY DEF S!Entry
<1>5. was \in S!AllEntries
  BY <1>3 DEF Fit
<1> HIDE DEF was
<1>6. S!Entry(r, k) = Made(was, r, k)
  BY <1>4, <1>5, MadeIs
<1> QED  BY <1>3, <1>6 DEF was

LEMMA DeprecationFits ==
    ASSUME NEW x, Fit(x)
    PROVE  Fit([x EXCEPT !.deprecated = TRUE])
BY DEF Fit, S!AllEntries

\* A model is called gone when both sources answered and neither named it.
LEMMA GoneIs ==
    ASSUME OffersOK, CatalogFits(catalog), NEW r, Heard(r), NEW q \in Seq(Results), NEW h, Remembers(h, q),
           NEW k \in S!findDeprecations(r, h.confirmed)
    PROVE  /\ k \in DOMAIN catalog
           /\ \E i \in DOMAIN q, n \in Names : Tags[n] = Tags[k[2]] /\ S!Confirmed(q[i], <<k[1], n>>)
           /\ \A s \in S!Existence :
                 LET listed == {n \in Names : offers[s][n] # None}
                     failed == listed \ DOMAIN r[s].models
                 IN  /\ S!Cardinality(failed) * Ratio <= S!Cardinality(listed)
                     /\ \A n \in Names : (offers[s][n] # None /\ Tags[n] = Tags[k[2]]
                                          /\ k[1] \in S!candidateAdapters(offers[s][n])) => n \in failed
<1>1. /\ \A s \in S!Existence : r[s].complete
      /\ k \in DOMAIN catalog /\ S!confirmedKey(k) \in h.confirmed
      /\ \A c \in S!matchCandidates(r) : S!confirmedKey(c) # S!confirmedKey(k)
  BY DEF S!findDeprecations
<1>2. r \in Results /\ k \in Keys
  BY <1>1 DEF Heard, CatalogFits
<1>3. \E i \in DOMAIN q, n \in Names : Tags[n] = Tags[k[2]] /\ S!Confirmed(q[i], <<k[1], n>>)
  <2>1. PICK c \in Met(q) : S!confirmedKey(k) = S!confirmedKey(c)
    BY <1>1 DEF Remembers
  <2>2. c \in Keys /\ \E i \in DOMAIN q : S!Confirmed(q[i], c)
    BY <2>1 DEF Met
  <2>3. c = <<k[1], c[2]>> /\ Tags[c[2]] = Tags[k[2]] /\ c[2] \in Names
    BY <2>1, <2>2 DEF S!confirmedKey, Keys
  <2> QED  BY <2>2, <2>3
<1>4. ASSUME NEW s \in S!Existence, NEW n \in Names, n \in DOMAIN r[s].models, Tags[n] = Tags[k[2]],
             k[1] \in S!candidateAdapters(offers[s][n])
      PROVE  FALSE
  <2> DEFINE c == <<k[1], n>>
  <2>1. c \in Keys /\ S!confirmedKey(c) = S!confirmedKey(k)
    BY <1>2, <1>4 DEF S!confirmedKey, Keys
  <2>2. r[s].models[n] = offers[s][n] /\ r[s].models[n] # None
    BY <1>2, <1>4, AnswersAre, CatalogueIs DEF Heard
  <2>3. S!Said(r, s, c) # None
    BY <1>4, <2>2 DEF S!Said
  <2>4. c \in S!matchCandidates(r)
    BY <2>1, <2>3 DEF S!matchCandidates, S!Saying, Keys
  <2> QED  BY <1>1, <2>1, <2>4
<1>5. ASSUME NEW s \in S!Existence
      PROVE  LET listed == {n \in Names : offers[s][n] # None}
                 failed == listed \ DOMAIN r[s].models
             IN  /\ S!Cardinality(failed) * Ratio <= S!Cardinality(listed)
                 /\ \A n \in Names : (offers[s][n] # None /\ Tags[n] = Tags[k[2]]
                                      /\ k[1] \in S!candidateAdapters(offers[s][n])) => n \in failed
  <2>1. S!Listed(s) = {n \in Names : offers[s][n] # None}
    BY DEF S!Listed
  <2> QED  BY <1>1, <1>4, <2>1 DEF Heard
<1> QED  BY <1>1, <1>3, <1>5

LEMMA RunStep ==
    ASSUME CatalogueInv, NEW r, Heard(r), NEW mode, S!Run(r, mode)
    PROVE  CatalogueInv'
<1> DEFINE now == S!updateHistory(seen, r)
           known == {k \in S!matchCandidates(r) : S!findExistingKey(catalog, k) # None}
           confirmed == {c \in S!matchCandidates(r) \ known : S!Confirmed(r, c)}
           New(k) == [key |-> k, was |-> S!Stub, entry |-> S!Entry(r, k), from |-> k]
           Update(k) == [key |-> S!findExistingKey(catalog, k), was |-> catalog[S!findExistingKey(catalog, k)],
                         entry |-> S!Entry(r, k), from |-> k]
           Gone(k) == [key |-> k, was |-> catalog[k], entry |-> [catalog[k] EXCEPT !.deprecated = TRUE]]
<1>1. UNCHANGED <<offers, catalog, changes>> /\ runs < MaxRuns
  BY DEF S!Run
<1>2. OffersOK' /\ CatalogFits(catalog)'
  BY <1>1 DEF CatalogueInv, OffersOK
<1>3. CASE mode = "verify"
  <2>1. UNCHANGED <<seen, report, sightings, runs>>
    BY <1>3 DEF S!Run
  <2> QED  BY <1>1, <2>1, CatalogueKeeps DEF CatalogueInv
<1>4. CASE mode # "verify"
  <2>1. seen' = now /\ report' = S!Report(r, now) /\ sightings' = Append(sightings, r) /\ runs' = runs + 1
    BY <1>4 DEF S!Run
  <2>2. r \in Results /\ sightings \in Seq(Results) /\ Remembers(seen, sightings)
    BY DEF Heard, CatalogueInv, RunsOK
  <2>3. Remembers(seen, sightings)'
    BY <2>1, <2>2, HistoryGrows
  <2>4. RunsOK'
    <3>1. runs \in Nat /\ Len(sightings) = runs /\ MaxRuns \in Nat /\ changes \in 0 .. MaxChanges
      BY CatalogueIs DEF CatalogueInv, RunsOK
    <3>2. sightings' \in Seq(Results) /\ Len(sightings') = Len(sightings) + 1
      BY <2>1, <2>2
    <3> QED  BY <1>1, <2>1, <3>1, <3>2 DEF RunsOK
  <2>5. /\ report'.results = r /\ report'.offers = offers
        /\ report'.new = {New(k) : k \in confirmed}
        /\ report'.updated = {u \in {Update(k) : k \in known} : u.entry # u.was}
        /\ report'.deprecations = {Gone(k) : k \in S!findDeprecations(r, now.confirmed)}
    BY <2>1 DEF S!Report
  <2>6. /\ \A k \in confirmed :
              /\ k \in S!matchCandidates(r) /\ k \in Keys /\ S!Confirmed(r, k) /\ ItemOK(New(k), r)
              /\ \A o \in DOMAIN catalog : S!confirmedKey(o) # S!confirmedKey(k)
    <3> SUFFICES ASSUME NEW k \in confirmed
                 PROVE  /\ k \in S!matchCandidates(r) /\ k \in Keys /\ S!Confirmed(r, k) /\ ItemOK(New(k), r)
                        /\ \A o \in DOMAIN catalog : S!confirmedKey(o) # S!confirmedKey(k)
      OBVIOUS
    <3>1. k \in S!matchCandidates(r) /\ k \in Keys /\ S!Confirmed(r, k) /\ S!findExistingKey(catalog, k) = None
      BY <2>2, MatchesAre
    <3>2. Fit(S!Stub) /\ S!Entry(r, k) = Made(S!Stub, r, k)
      BY <2>2, <3>1, MadeOf DEF CatalogueInv
    <3> QED  BY <3>1, <3>2, ExistingIs DEF ItemOK, CatalogueInv, CatalogFits
  <2>7. \A k \in known : ItemOK(Update(k), r) /\ Update(k).key \in DOMAIN catalog
    <3> SUFFICES ASSUME NEW k \in known PROVE ItemOK(Update(k), r) /\ Update(k).key \in DOMAIN catalog
      OBVIOUS
    <3>1. k \in S!matchCandidates(r) /\ k \in Keys /\ S!findExistingKey(catalog, k) # None
      BY <2>2, MatchesAre
    <3>2. S!findExistingKey(catalog, k) \in DOMAIN catalog /\ DOMAIN catalog \subseteq Keys
      BY <3>1, ExistingIs DEF CatalogueInv, CatalogFits
    <3>3. Fit(Update(k).was) /\ S!Entry(r, k) = Made(Update(k).was, r, k)
      BY <2>2, <3>1, MadeOf DEF CatalogueInv
    <3> QED  BY <3>1, <3>2, <3>3 DEF ItemOK
  <2>8. \A k \in S!findDeprecations(r, now.confirmed) : k \in DOMAIN catalog /\ k \in Keys /\ Fit(Gone(k).entry)
    BY DeprecationFits DEF S!findDeprecations, CatalogueInv, CatalogFits
  <2>9. ItemsOK'
    <3> HIDE DEF New, Update, Gone, known, confirmed, now
    <3>1. \A item \in report'.new : ItemOK(item, r) /\ S!Confirmed(r, item.from) /\ item.key = item.from
      BY <2>5, <2>6 DEF New
    <3>2. \A item \in report'.updated : ItemOK(item, r) /\ item.key \in DOMAIN catalog
      BY <2>5, <2>7
    <3>3. \A item \in report'.deprecations : item.key \in DOMAIN catalog /\ item.key \in Keys /\ Fit(item.entry)
      BY <2>5, <2>8 DEF Gone
    <3>4. report'.results \in Results /\ report'.results = r /\ catalog' = catalog
      BY <1>1, <2>2, <2>5
    <3> QED  BY <3>1, <3>2, <3>3, <3>4 DEF ItemsOK
  <2>10. NoneAlike'
    <3>1. \A item \in report'.new : \A o \in DOMAIN catalog : S!confirmedKey(o) # S!confirmedKey(item.key)
      BY <2>5, <2>6
    <3> QED  BY <1>1, <3>1 DEF NoneAlike
  <2>11. S!GoneOnly'
    <3> SUFFICES ASSUME NEW d \in report'.deprecations
                 PROVE  /\ \E i \in DOMAIN sightings', n \in Names :
                              Tags[n] = Tags[d.key[2]] /\ S!Confirmed(sightings'[i], <<d.key[1], n>>)
                        /\ \A s \in S!Existence :
                              LET listed == {n \in Names : report'.offers[s][n] # None}
                                  failed == listed \ DOMAIN report'.results[s].models
                              IN  /\ S!Cardinality(failed) * Ratio <= S!Cardinality(listed)
                                  /\ {n \in Names : /\ report'.offers[s][n] # None /\ Tags[n] = Tags[d.key[2]]
                                                    /\ d.key[1] \in S!candidateAdapters(report'.offers[s][n])} \subseteq failed
      BY DEF S!GoneOnly, S!StillListed
    <3>1. PICK k \in S!findDeprecations(r, now.confirmed) : d.key = k
      BY <2>5
    <3>2. Append(sightings, r) \in Seq(Results) /\ Remembers(now, Append(sightings, r))
      BY <2>2, HistoryGrows
    <3> HIDE DEF now
    <3>3. /\ \E i \in DOMAIN sightings', n \in Names : Tags[n] = Tags[k[2]] /\ S!Confirmed(sightings'[i], <<k[1], n>>)
          /\ \A s \in S!Existence :
                LET listed == {n \in Names : offers[s][n] # None}
                    failed == listed \ DOMAIN r[s].models
                IN  /\ S!Cardinality(failed) * Ratio <= S!Cardinality(listed)
                    /\ \A n \in Names : (offers[s][n] # None /\ Tags[n] = Tags[k[2]]
                                         /\ k[1] \in S!candidateAdapters(offers[s][n])) => n \in failed
      BY <2>1, <3>2, GoneIs DEF CatalogueInv
    <3>4. report'.offers = offers /\ report'.results = r
      BY <2>5
    <3>5. ASSUME NEW s \in S!Existence
          PROVE  LET listed == {n \in Names : offers[s][n] # None}
                     failed == listed \ DOMAIN r[s].models
                 IN  /\ S!Cardinality(failed) * Ratio <= S!Cardinality(listed)
                     /\ {n \in Names : /\ offers[s][n] # None /\ Tags[n] = Tags[k[2]]
                                       /\ k[1] \in S!candidateAdapters(offers[s][n])} \subseteq failed
      BY <3>3
    <3> QED  BY <3>1, <3>3, <3>4, <3>5
  <2> QED  BY <1>2, <2>3, <2>4, <2>9, <2>10, <2>11 DEF CatalogueInv
<1> QED  BY <1>3, <1>4

LEMMA CatalogueStep == CatalogueInv /\ (S!Next \/ UNCHANGED S!vars) => CatalogueInv'
<1> SUFFICES ASSUME CatalogueInv, S!Next \/ UNCHANGED S!vars PROVE CatalogueInv'
  OBVIOUS
<1>1. CASE \E s \in S!Existence, n \in Names, o \in Offers \cup {None} : S!Change(s, n, o)
  BY <1>1, ChangeStep
<1>2. CASE \E vercel \in S!Fetched("vercel-ai-gateway"), openrouter \in S!Fetched("openrouter"), mode \in {"report", "verify"} :
              S!Run([s \in S!Existence |-> IF s = "openrouter" THEN openrouter ELSE vercel], mode)
  BY <1>2, HeardIs, RunStep DEF CatalogueInv
<1>3. CASE report # None /\ \E item \in report.new \cup report.updated \cup report.deprecations : S!Apply(item)
  BY <1>3, ApplyStep
<1>4. CASE \E k \in DOMAIN catalog : \E verdict \in {"verified", "denied"} : S!Review(k, verdict)
  BY <1>4, ReviewStep
<1>5. CASE UNCHANGED S!vars
  <2>1. UNCHANGED <<offers, catalog, seen, report, sightings, runs, changes>>
    BY <1>5 DEF S!vars
  <2> QED  BY <2>1, CatalogueKeeps DEF CatalogueInv
<1> QED  BY <1>1, <1>2, <1>3, <1>4, <1>5 DEF S!Next

-----------------------------------------------------------------------------
(* What is promised of a report.                                           *)

LEMMA BackedHolds == CatalogueInv => S!Backed
<1> SUFFICES ASSUME CatalogueInv, report # None,
                    NEW item \in report.new \cup report.updated, NEW f \in S!Fields, item.entry[f] # item.was[f]
             PROVE  \/ S!Cardinality({s \in S!Existence \cup {"models-dev"} : S!Given(item, f, s)}) >= 2
                    \/ S!Cardinality(DOMAIN Figured(report.results, item.from, f)) = 1
  BY DEF S!Backed, Figured
<1> DEFINE r == report.results
           k == item.from
           v == Figured(r, k, f)
           p == S!ToleranceOf(f)
           backers == {s \in S!Existence \cup {"models-dev"} : S!Given(item, f, s)}
<1>1. r \in Results /\ ItemOK(item, r) /\ k \in S!matchCandidates(r) /\ k \in Keys /\ item.was \in S!AllEntries
  BY MatchesAre DEF CatalogueInv, ItemsOK, ItemOK, Fit
<1>2. Resolved(r, k, f) # None /\ item.entry[f] = Resolved(r, k, f)
  BY <1>1, MadeFigures DEF ItemOK
<1>3. CASE S!Cardinality(DOMAIN v) = 1
  BY <1>3
<1>4. ASSUME NEW s \in DOMAIN v, NEW t \in DOMAIN v \ {s}, Resolved(r, k, f) = v[s], S!within(v[s], v[t], p)
      PROVE  S!Cardinality(backers) >= 2
  <2>1. \A x \in {s, t} : /\ x \in S!Existence \cup {"models-dev"} /\ v[x] \in Nat
                          /\ v[x] = Gives(r, k, x, f) /\ GivesAny(r, k, x, f)
    BY <1>1, FiguresAre
  <2>2. p \in Nat
    BY ToleranceIs
  <2>3. S!within(v[s], v[s], p) /\ S!within(v[t], v[s], p)
    BY <1>4, <2>1, <2>2, WithinIs
  <2>4. \A x \in {s, t} : S!within(Gives(r, k, x, f), item.entry[f], p)
    BY <1>2, <1>4, <2>1, <2>3
  <2>5. \A x \in {s, t} : S!Given(item, f, x)
    BY <2>1, <2>4 DEF S!Given, Gives, GivesAny
  <2>6. s \in backers /\ t \in backers /\ s # t
    BY <2>1, <2>5
  <2>7. IsFiniteSet(backers)
    BY SourcesFinite
  <2> HIDE DEF backers
  <2> QED  BY <2>6, <2>7, TwoOf, CatalogueFinite
<1> QED  BY <1>1, <1>2, <1>3, <1>4, ResolvedIs

LEMMA SettledHolds == CatalogueInv => S!Settled
<1> SUFFICES ASSUME CatalogueInv, report # None, NEW item \in report.updated
             PROVE  /\ item.was.operations # {} => item.entry.operations = item.was.operations
                    /\ item.was.tools # None => item.entry.tools = item.was.tools
                    /\ (item.was.reasoning = "verified" /\ ~item.was.review)
                          => item.entry.reasoning = "verified" /\ ~item.entry.review
                    /\ item.entry.deprecated = item.was.deprecated
  BY DEF S!Settled
<1>1. ItemOK(item, report.results) /\ report.results \in Results
  BY DEF CatalogueInv, ItemsOK
<1> QED  BY <1>1, MadeSettles DEF ItemOK, Fit

LEMMA NewOnlyHolds == CatalogueInv => S!NewOnly
BY DEF CatalogueInv, ItemsOK, NoneAlike, S!NewOnly, S!Confirmed

LEMMA ReviewedHolds == CatalogueInv => S!Reviewed
BY DEF CatalogueInv, CatalogFits, Fit, S!Reviewed, S!pendingReviewEntries

LEMMA QuietHolds == CatalogueInv => S!Quiet
<1> SUFFICES ASSUME CatalogueInv, report # None, NEW item \in report.new \cup report.updated
             PROVE  LET dev == S!findModelsDevMatch(report.results, item.from)
                    IN  S!enrichCatalogEntry(S!mergeCatalogEntry(item.entry, report.results, item.from, dev), item.from, dev)
                           = item.entry
  BY DEF S!Quiet
<1>1. ItemOK(item, report.results) /\ report.results \in Results
  BY DEF CatalogueInv, ItemsOK
<1>2. item.from \in S!matchCandidates(report.results) /\ Fit(item.was) /\ item.entry = Made(item.was, report.results, item.from)
  BY <1>1 DEF ItemOK
<1>3. item.entry \in S!AllEntries
  BY <1>1, <1>2, MadeFits DEF Fit
<1> QED  BY <1>1, <1>2, <1>3, MadeIs, MadeIsQuiet

LEMMA CataloguePart == Spec => []CatalogueInv
<1>1. Init => CatalogueInv
  BY InitCatalogue DEF Init
<1>2. ASSUME CatalogueInv, [Next]_vars PROVE CatalogueInv'
  <2>1. S!Next \/ UNCHANGED S!vars
    BY <1>2 DEF Next, Carrying, Conversing, Thinking, Listing, Charging, vars, catalogue, S!vars
  <2> QED  BY <1>2, <2>1, CatalogueStep
<1> QED  BY <1>1, <1>2, PTL DEF Spec

\* No report calls a model gone, new or repriced without the sources that say so, or
\* undoes what a human has settled, whatever the sources answer in however many runs.
THEOREM CatalogueStays == Spec => []CatalogueKept
<1>1. CatalogueInv => CatalogueKept
  <2> SUFFICES ASSUME CatalogueInv PROVE S!CatalogueKept
    BY DEF CatalogueKept
  <2>1. S!TypeOK
    BY DEF CatalogueInv, CatalogFits, RunsOK, Keys, S!TypeOK
  <2>2. S!HistoryTrue
    BY RememberedIsTrue DEF CatalogueInv, RunsOK
  <2> QED  BY <2>1, <2>2, BackedHolds, SettledHolds, NewOnlyHolds, ReviewedHolds, QuietHolds DEF S!CatalogueKept, CatalogueInv
<1> QED  BY <1>1, CataloguePart, PTL

-----------------------------------------------------------------------------
(* The ladder of efforts.                                                  *)

LEMMA RungsAre ==
    /\ E!Efforts = {"none", "minimal", "low", "medium", "high", "xhigh", "max"}
    /\ E!Rung("none") = 1 /\ E!Rung("minimal") = 2 /\ E!Rung("low") = 3 /\ E!Rung("medium") = 4
    /\ E!Rung("high") = 5 /\ E!Rung("xhigh") = 6 /\ E!Rung("max") = 7
<1>1. DOMAIN E!EFFORT_ORDER = 1 .. 7
  BY DEF E!EFFORT_ORDER
<1>2. /\ E!EFFORT_ORDER[1] = "none" /\ E!EFFORT_ORDER[2] = "minimal" /\ E!EFFORT_ORDER[3] = "low"
      /\ E!EFFORT_ORDER[4] = "medium" /\ E!EFFORT_ORDER[5] = "high" /\ E!EFFORT_ORDER[6] = "xhigh"
      /\ E!EFFORT_ORDER[7] = "max"
  BY DEF E!EFFORT_ORDER
<1>3. \A i \in 1 .. 7 : i = 1 \/ i = 2 \/ i = 3 \/ i = 4 \/ i = 5 \/ i = 6 \/ i = 7
  OBVIOUS
<1>4. E!Efforts = {"none", "minimal", "low", "medium", "high", "xhigh", "max"}
  BY <1>1, <1>2, <1>3 DEF E!Efforts
<1>5. \A i \in 1 .. 7 : E!Rung(E!EFFORT_ORDER[i]) = i
  <2> SUFFICES ASSUME NEW i \in 1 .. 7
               PROVE  E!Rung(E!EFFORT_ORDER[i]) = i
    OBVIOUS
  <2>1. \A j \in 1 .. 7 : E!EFFORT_ORDER[j] = E!EFFORT_ORDER[i] => j = i
    BY <1>2, <1>3
  <2> QED  BY <1>1, <2>1 DEF E!Rung
<1> QED  BY <1>2, <1>4, <1>5

LEMMA LevelsBelow ==
    ASSUME NEW X \in SUBSET E!Efforts, X # {}
    PROVE  /\ E!Lowest(X) \in X /\ \A k \in X : E!Rung(E!Lowest(X)) <= E!Rung(k)
           /\ E!Highest(X) \in X /\ \A k \in X : E!Rung(k) <= E!Rung(E!Highest(X))
<1>1. \A k \in X : E!Rung(k) \in 1 .. 7
  BY RungsAre
<1>2. \A k, l \in X : E!Rung(k) = E!Rung(l) => k = l
  BY RungsAre
<1>3. \E l \in X : \A k \in X : E!Rung(l) <= E!Rung(k)
  <2>1. CASE "none" \in X
    BY <2>1, <1>1, RungsAre
  <2>2. CASE "none" \notin X /\ "minimal" \in X
    BY <2>2, RungsAre
  <2>3. CASE X \cap {"none", "minimal"} = {} /\ "low" \in X
    BY <2>3, RungsAre
  <2>4. CASE X \cap {"none", "minimal", "low"} = {} /\ "medium" \in X
    BY <2>4, RungsAre
  <2>5. CASE X \cap {"none", "minimal", "low", "medium"} = {} /\ "high" \in X
    BY <2>5, RungsAre
  <2>6. CASE X \cap {"none", "minimal", "low", "medium", "high"} = {} /\ "xhigh" \in X
    BY <2>6, RungsAre
  <2>7. CASE X \cap {"none", "minimal", "low", "medium", "high", "xhigh"} = {}
    <3>1. X = {"max"}
      BY <2>7, RungsAre
    <3> QED  BY <3>1, RungsAre
  <2> QED  BY <2>1, <2>2, <2>3, <2>4, <2>5, <2>6, <2>7
<1>4. \E l \in X : \A k \in X : E!Rung(k) <= E!Rung(l)
  <2>1. CASE "max" \in X
    BY <2>1, <1>1, RungsAre
  <2>2. CASE "max" \notin X /\ "xhigh" \in X
    BY <2>2, RungsAre
  <2>3. CASE X \cap {"max", "xhigh"} = {} /\ "high" \in X
    BY <2>3, RungsAre
  <2>4. CASE X \cap {"max", "xhigh", "high"} = {} /\ "medium" \in X
    BY <2>4, RungsAre
  <2>5. CASE X \cap {"max", "xhigh", "high", "medium"} = {} /\ "low" \in X
    BY <2>5, RungsAre
  <2>6. CASE X \cap {"max", "xhigh", "high", "medium", "low"} = {} /\ "minimal" \in X
    BY <2>6, RungsAre
  <2>7. CASE X \cap {"max", "xhigh", "high", "medium", "low", "minimal"} = {}
    <3>1. X = {"none"}
      BY <2>7, RungsAre
    <3> QED  BY <3>1, RungsAre
  <2> QED  BY <2>1, <2>2, <2>3, <2>4, <2>5, <2>6, <2>7
<1>5. E!Lowest(X) \in X /\ \A k \in X : E!Rung(E!Lowest(X)) <= E!Rung(k)
  BY <1>3 DEF E!Lowest
<1>6. E!Highest(X) \in X /\ \A k \in X : E!Rung(k) <= E!Rung(E!Highest(X))
  BY <1>4 DEF E!Highest
<1> QED  BY <1>5, <1>6

LEMMA SnapServes ==
    ASSUME NEW levels \in SUBSET E!Efforts, levels # {}, NEW wish \in E!Efforts
    PROVE  LET e == E!snapEffort(wish, levels) IN e \in levels /\ E!Serves(e, wish, levels)
<1> DEFINE P == E!Positive(levels)
           below == {l \in P : E!Rung(l) <= E!Rung(wish)}
           e == E!snapEffort(wish, levels)
<1>1. P = levels \ {"none"}
  BY DEF E!Positive
<1>2. \A k \in levels : E!Rung(k) \in 1 .. 7 /\ (E!Rung(k) = 1 <=> k = "none")
  BY RungsAre
<1>3. E!Rung(wish) \in 1 .. 7 /\ (E!Rung(wish) = 1 <=> wish = "none") /\ E!Rung("none") = 1
  BY RungsAre
<1>4. CASE (wish = "none" /\ "none" \in levels) \/ P = {}
  <2>1. e = "none" /\ "none" \in levels
    BY <1>1, <1>4 DEF E!snapEffort
  <2> QED  BY <1>1, <1>2, <1>3, <1>4, <2>1 DEF E!Serves
<1>5. CASE ~((wish = "none" /\ "none" \in levels) \/ P = {}) /\ below = {}
  <2>1. e = E!Lowest(P)
    BY <1>5 DEF E!snapEffort
  <2>2. e \in P /\ \A k \in P : E!Rung(e) <= E!Rung(k)
    BY <2>1, <1>1, <1>5, LevelsBelow
  <2>3. wish = "none" => P = levels
    BY <1>1, <1>5
  <2>4. \A k \in P : ~(E!Rung(k) <= E!Rung(wish))
    BY <1>5
  <2>5. \A k \in levels : ~(E!Rung(e) < E!Rung(k) /\ E!Rung(k) <= E!Rung(wish))
    BY <1>1, <1>2, <1>3, <2>2, <2>4
  <2> QED  BY <1>1, <2>1, <2>2, <2>3, <2>5 DEF E!Serves
<1>6. CASE ~((wish = "none" /\ "none" \in levels) \/ P = {}) /\ below # {}
  <2>1. e = E!Highest(below)
    BY <1>6 DEF E!snapEffort
  <2>2. e \in below /\ \A k \in below : E!Rung(k) <= E!Rung(e)
    BY <2>1, <1>1, <1>6, LevelsBelow
  <2>3. wish # "none"
    BY <1>1, <1>2, <1>3, <2>2
  <2>4. \A k \in levels : ~(E!Rung(e) < E!Rung(k) /\ E!Rung(k) <= E!Rung(wish))
    BY <1>1, <1>2, <1>3, <2>2
  <2> QED  BY <1>1, <1>2, <1>3, <2>2, <2>3, <2>4 DEF E!Serves
<1> QED  BY <1>4, <1>5, <1>6
-----------------------------------------------------------------------------
(* What the client asked for, in the canonical form.                       *)

LEMMA EffortIs ==
    /\ MaxAttempts \in Nat /\ Asked \subseteq E!AllAsked
    /\ \A m \in Declared : m.adapter \in E!AdapterNames /\ m.default \in E!supportedTransports(m)
    /\ \A m \in Declared : m.spec # None => \E B, N \in SUBSET E!Efforts : m.spec \in E!Specs(B, N)
    /\ \A B, N \in SUBSET E!Efforts : None \notin E!Specs(B, N)
    /\ None \notin E!Efforts /\ None \notin E!Summaries /\ None \notin E!Displays /\ None \notin Nat
    /\ None \notin E!Canonicals /\ None \notin E!LogEntries
BY RequestsAssumption DEF E!WellPosed

\* What a canonical request wants, and whether it hides or shows the thoughts.
Wanted(r) == IF r = None \/ r.effort = None THEN "none" ELSE r.effort
Hidden(r) == r # None /\ r.summary = "none" /\ r.display # "summarized"
Readable(r) == r # None /\ r.summary # "none" /\ r.display # "omitted"

LEMMA BudgetMeans ==
    ASSUME NEW n \in Nat
    PROVE  /\ E!effortFromBudgetTokens(n) \in E!Efforts
           /\ (n = 0 => E!effortFromBudgetTokens(n) = "none")
           /\ (n # 0 => E!effortFromBudgetTokens(n) \in {"minimal", "low", "medium", "high", "xhigh"})
BY RungsAre DEF E!effortFromBudgetTokens

Meant(r) ==
    /\ r \in E!Canonicals \cup {None}
    /\ Wanted(r) \in E!Wish
    /\ r # None /\ r.effort # None => r.effort \in E!Wish
    /\ E!AsksToThink(r) => E!Wish # {"none"}
    /\ E!Hides => Hidden(r)
    /\ E!Reads => Readable(r)

LEMMA CanonicalMeans ==
    ASSUME NEW e \in E!Efforts \cup {None}, NEW s \in E!Summaries \cup {None}, NEW d \in E!Displays \cup {None}
    PROVE  LET r == E!Canonical(e, s, d)
           IN  /\ r \in E!Canonicals \cup {None}
               /\ (r = None <=> e = None /\ s = None /\ d = None)
               /\ (r # None => r.effort = e /\ r.summary = s /\ r.display = d)
               /\ Wanted(r) = (IF e = None THEN "none" ELSE e)
               /\ (E!AsksToThink(r) <=> e \notin {None, "none"})
BY EffortIs DEF E!Canonical, E!Canonicals, E!Maybe, Wanted, E!AsksToThink

LEMMA SummaryMeans ==
    ASSUME NEW e \in E!Efforts \cup {None}, NEW s \in E!Summaries \cup {None}
    PROVE  /\ E!summaryForEffort(e, s) \in E!Summaries \cup {None}
           /\ (s # None => E!summaryForEffort(e, s) = s)
           /\ (s = None => E!summaryForEffort(e, s) \in {"auto", None})
BY EffortIs DEF E!summaryForEffort, E!Summaries

LEMMA ChatMeans ==
    ASSUME ask \in Asked, ask.wire = "chat_completions", E!ToCanonical(ask) # E!Rejected
    PROVE  Meant(E!ToCanonical(ask))
<1> DEFINE e == IF ask.effort # None THEN ask.effort ELSE ask.reasoning_effort
           s == E!summaryForEffort(e, ask.summary)
           r == E!Canonical(e, s, None)
<1>1. /\ ask.effort \in E!Efforts \cup {None} /\ ask.reasoning_effort \in E!Efforts \cup {None}
      /\ ask.summary \in E!Summaries \cup {None} /\ ask.thinking = None
  BY EffortIs DEF E!AllAsked, E!Asks, E!Maybe
<1>2. E!ToCanonical(ask) = r
  BY DEF E!ToCanonical, E!ChatReasoning
<1>3. /\ e \in E!Efforts \cup {None} /\ s \in E!Summaries \cup {None}
      /\ (ask.summary # None => s = ask.summary) /\ (ask.summary = None => s \in {"auto", None})
  BY <1>1, SummaryMeans
<1>4. /\ r \in E!Canonicals \cup {None}
      /\ (r = None <=> e = None /\ s = None)
      /\ (r # None => r.effort = e /\ r.summary = s /\ r.display = None)
      /\ Wanted(r) = (IF e = None THEN "none" ELSE e)
      /\ (E!AsksToThink(r) <=> e \notin {None, "none"})
  BY <1>3, CanonicalMeans
<1>5. E!Wish = IF e # None THEN {e} ELSE {"none"}
  BY <1>1 DEF E!Wish
<1>6. /\ (E!Hides <=> ask.summary = "none") /\ (E!Reads <=> ask.summary \notin {None, "none"})
  BY <1>1 DEF E!Hides, E!Reads
<1>7. None \notin E!Displays /\ None # "none" /\ None # "omitted" /\ None # "summarized"
  BY EffortIs DEF E!Displays, E!Summaries
<1>8. (E!Hides => Hidden(r)) /\ (E!Reads => Readable(r))
  BY <1>1, <1>3, <1>4, <1>6, <1>7 DEF Hidden, Readable
<1> QED  BY <1>2, <1>4, <1>5, <1>8 DEF Meant

LEMMA ResponsesMeans ==
    ASSUME ask \in Asked, ask.wire = "responses"
    PROVE  Meant(E!ToCanonical(ask))
<1> DEFINE e == ask.effort
           s == E!summaryForEffort(e, ask.summary)
           r == E!Canonical(e, s, None)
<1>1. /\ e \in E!Efforts \cup {None} /\ ask.reasoning_effort = None
      /\ ask.summary \in E!Summaries \cup {None} /\ ask.thinking = None
  BY EffortIs DEF E!AllAsked, E!Asks, E!Maybe
<1>2. E!ToCanonical(ask) = r
  BY DEF E!ToCanonical, E!ResponsesReasoning
<1>3. /\ s \in E!Summaries \cup {None}
      /\ (ask.summary # None => s = ask.summary) /\ (ask.summary = None => s \in {"auto", None})
  BY <1>1, SummaryMeans
<1>4. /\ r \in E!Canonicals \cup {None}
      /\ (r = None <=> e = None /\ s = None)
      /\ (r # None => r.effort = e /\ r.summary = s /\ r.display = None)
      /\ Wanted(r) = (IF e = None THEN "none" ELSE e)
      /\ (E!AsksToThink(r) <=> e \notin {None, "none"})
  BY <1>1, <1>3, CanonicalMeans
<1>5. E!Wish = IF e # None THEN {e} ELSE {"none"}
  BY <1>1 DEF E!Wish
<1>6. /\ (E!Hides <=> ask.summary = "none") /\ (E!Reads <=> ask.summary \notin {None, "none"})
  BY <1>1 DEF E!Hides, E!Reads
<1>7. None # "none" /\ None # "omitted" /\ None # "summarized"
  BY EffortIs DEF E!Displays, E!Summaries
<1>8. (E!Hides => Hidden(r)) /\ (E!Reads => Readable(r))
  BY <1>1, <1>3, <1>4, <1>6, <1>7 DEF Hidden, Readable
<1> QED  BY <1>2, <1>4, <1>5, <1>8 DEF Meant

LEMMA MessagesMeans ==
    ASSUME ask \in Asked, ask.wire = "messages"
    PROVE  Meant(E!ToCanonical(ask))
<1> DEFINE e == E!reasoningEffortFromMessages(ask)
           d == IF ask.thinking = None THEN None ELSE ask.thinking.display
           s == IF d = "omitted" THEN "none" ELSE E!summaryForEffort(e, None)
           r == E!Canonical(e, s, d)
<1>1. /\ ask.effort \in E!Efforts \cup {None} /\ ask.reasoning_effort = None
      /\ ask.summary = None /\ ask.thinking \in E!Thoughts \cup {None}
  BY EffortIs DEF E!AllAsked, E!Asks, E!Maybe
<1>2. ask.thinking # None => /\ ask.thinking.type \in {"enabled", "adaptive", "disabled"}
                             /\ ask.thinking.budget \in Nat \cup {None}
                             /\ ask.thinking.display \in E!Displays \cup {None}
  BY <1>1 DEF E!Thoughts, E!Maybe
<1>3. None # "none" /\ None # "omitted" /\ None # "summarized" /\ "none" \in E!Summaries /\ None \notin E!Efforts /\ None \notin Nat
  BY EffortIs DEF E!Displays, E!Summaries
<1>4. d \in E!Displays \cup {None}
  BY <1>2
<1>5. /\ e \in E!Efforts \cup {None}
      /\ (e = None => E!Wish = {"none"} /\ ask.thinking = None)
      /\ (e # None => e \in E!Wish)
      /\ (e \notin {None, "none"} => E!Wish # {"none"})
  <2>1. CASE ask.effort # None
    BY <1>1, <1>3, <2>1 DEF E!Wish, E!reasoningEffortFromMessages
  <2>2. CASE ask.effort = None /\ (ask.thinking = None \/ ask.thinking.type = "disabled")
    BY <1>1, <1>3, <2>2, RungsAre DEF E!Wish, E!reasoningEffortFromMessages
  <2>3. CASE ask.effort = None /\ ~(ask.thinking = None \/ ask.thinking.type = "disabled") /\ ask.thinking.budget = None
    <3>1. e = "high" /\ E!Wish = {"minimal", "low", "medium", "high", "xhigh"}
      BY <1>1, <1>3, <2>3 DEF E!Wish, E!reasoningEffortFromMessages
    <3> QED  BY <2>3, <3>1, <1>3, RungsAre
  <2>4. CASE ask.effort = None /\ ~(ask.thinking = None \/ ask.thinking.type = "disabled") /\ ask.thinking.budget # None
    <3>1. ask.thinking.budget \in Nat /\ e = E!effortFromBudgetTokens(ask.thinking.budget)
      BY <1>1, <1>2, <2>4 DEF E!reasoningEffortFromMessages
    <3>2. E!Wish = IF ask.thinking.budget = 0 THEN {"none"} ELSE {"minimal", "low", "medium", "high", "xhigh"}
      BY <1>1, <2>4 DEF E!Wish
    <3> HIDE DEF e
    <3>3. /\ e \in E!Efforts
          /\ (ask.thinking.budget = 0 => e = "none")
          /\ (ask.thinking.budget # 0 => e \in {"minimal", "low", "medium", "high", "xhigh"})
      BY <3>1, BudgetMeans
    <3> QED  BY <3>2, <3>3, <2>4, <1>3
  <2> QED  BY <2>1, <2>2, <2>3, <2>4
<1>6. s \in E!Summaries \cup {None} /\ (d = "omitted" => s = "none") /\ (d # "omitted" => s \in {"auto", None})
  BY <1>3, <1>5, SummaryMeans
<1> HIDE DEF e, s
<1>7. /\ r \in E!Canonicals \cup {None}
      /\ (r = None <=> e = None /\ s = None /\ d = None)
      /\ (r # None => r.effort = e /\ r.summary = s /\ r.display = d)
      /\ Wanted(r) = (IF e = None THEN "none" ELSE e)
      /\ (E!AsksToThink(r) <=> e \notin {None, "none"})
  BY <1>4, <1>5, <1>6, CanonicalMeans
<1>8. E!ToCanonical(ask) = r
  <2>1. E!ToCanonical(ask) = E!MessagesReasoning(ask)
    BY DEF E!ToCanonical
  <2>2. E!MessagesReasoning(ask) = IF e = None /\ d = None THEN None ELSE r
    BY DEF E!MessagesReasoning, e, s
  <2>3. e = None /\ d = None => s = None
    BY <1>3 DEF s, E!summaryForEffort
  <2> QED  BY <2>1, <2>2, <2>3, <1>7
<1>9. /\ (E!Hides <=> d = "omitted") /\ (E!Reads <=> d = "summarized")
  BY <1>1, <1>3 DEF E!Hides, E!Reads
<1>10. (E!Hides => Hidden(r)) /\ (E!Reads => Readable(r))
  BY <1>3, <1>6, <1>7, <1>9 DEF Hidden, Readable
<1>11. Wanted(r) \in E!Wish
  BY <1>5, <1>7
<1> QED  BY <1>5, <1>7, <1>8, <1>10, <1>11 DEF Meant

LEMMA AskMeans ==
    ASSUME ask \in Asked, E!ToCanonical(ask) # E!Rejected
    PROVE  Meant(E!ToCanonical(ask))
<1>1. ask.wire \in {"chat_completions", "responses", "messages"}
  BY EffortIs DEF E!AllAsked, E!Asks
<1> QED  BY <1>1, ChatMeans, ResponsesMeans, MessagesMeans
-----------------------------------------------------------------------------
(* What a model that reasons is told.                                      *)

\* The level an attempt applies.
Level(r, spec) == E!snapEffort(Wanted(r), spec.levels)
NeighboursOf(m) ==
    /\ m.adapter = "google" /\ m.spec.kind = "gemini_level"
    /\ \E l \in m.spec.levels : l = "none" \/ E!toUpstreamReasoningEffort(l, m.spec) = "xhigh"
UnbudgetedBy(m) ==
    /\ m.adapter = "vercel" /\ m.spec.kind \in {"anthropic_budget", "gemini_budget"}
    /\ E!Positive(m.spec.levels) \ DOMAIN m.spec.budgets # {}
Untold(m, transport) ==
    m.adapter \in {"openai", "compatible"} /\ m.spec.kind # "openai_effort" /\ transport = "responses"

Fitting(m, r, transport, t) ==
    /\ t.state \in {"sent", "refused", "failed"}
    /\ t.state = "sent" => NeighboursOf(m) \/ Level(r, m.spec) \in E!Understood(t, m)
    /\ t.state = "sent" /\ Hidden(r) => t.show # "shown"
    /\ t.state = "sent" /\ Readable(r) /\ t.think = "on" /\ ~NeighboursOf(m) => t.show # "hidden"
    /\ t.state = "refused" => Untold(m, transport)
    /\ t.state = "failed" => UnbudgetedBy(m)

LEMMA SpecIs ==
    ASSUME NEW m \in E!Models, m.spec # None
    PROVE  /\ m.spec.levels \in SUBSET E!Efforts /\ m.spec.levels # {}
           /\ m.spec.kind \in E!reasoningKinds(m.adapter)
           /\ {m.spec.body, m.spec.flag, m.spec.field, m.spec.off} \subseteq BOOLEAN
           /\ (m.spec.kind \in {"anthropic_budget", "gemini_budget"} /\ "max" \in m.spec.levels)
                 => "max" \in DOMAIN m.spec.budgets
           /\ \E B, N \in SUBSET E!Efforts : m.spec \in E!Specs(B, N)
<1>1. m \in Declared /\ E!validateProvider(m) /\ E!validateReasoning(m.spec)
  BY DEF E!Models
<1>2. PICK B, N \in SUBSET E!Efforts : m.spec \in E!Specs(B, N)
  BY <1>1, EffortIs
<1>3. m.spec.levels \in SUBSET E!Efforts /\ {m.spec.body, m.spec.flag, m.spec.field, m.spec.off} \subseteq BOOLEAN
  BY <1>2 DEF E!Specs
<1> QED  BY <1>1, <1>2, <1>3 DEF E!validateProvider, E!validateReasoning

LEMMA EffortResolved ==
    ASSUME NEW r \in E!Canonicals \cup {None}, NEW spec, spec.levels \in SUBSET E!Efforts, spec.levels # {}
    PROVE  LET v == E!resolveReasoning(r, spec)
               e == Level(r, spec)
           IN  /\ v.effort = e /\ e \in spec.levels /\ e \in E!Efforts
               /\ E!Serves(e, Wanted(r), spec.levels)
               /\ Hidden(r) => ~E!summaryVisible(v.summary) /\ E!reasoningDisplay(r, v.summary) # "summarized"
               /\ Readable(r) /\ e # "none" =>
                     E!summaryVisible(v.summary) /\ E!reasoningDisplay(r, v.summary) = "summarized"
<1> DEFINE e == Level(r, spec)
           v == E!resolveReasoning(r, spec)
<1>1. r # None => /\ r.effort \in E!Efforts \cup {None} /\ r.summary \in E!Summaries \cup {None}
                  /\ r.display \in E!Displays \cup {None}
  BY DEF E!Canonicals, E!Maybe
<1>2. Wanted(r) \in E!Efforts
  BY <1>1, RungsAre DEF Wanted
<1>3. e \in spec.levels /\ E!Serves(e, Wanted(r), spec.levels)
  BY <1>2, SnapServes DEF Level
<1>4. /\ v.effort = e
      /\ v.summary = IF e = "none" THEN None ELSE E!summaryForEffort(e, IF r = None THEN None ELSE r.summary)
  BY DEF E!resolveReasoning, Level, Wanted
<1>5. e \in E!Efforts
  BY <1>3
<1> HIDE DEF e, v
<1>6. None # "none" /\ None # "auto" /\ None # "omitted" /\ None # "summarized" /\ None \notin E!Efforts
  BY EffortIs DEF E!Displays, E!Summaries
<1>7. Hidden(r) => v.summary \in {None, "none"}
  BY <1>1, <1>4, <1>6 DEF Hidden, E!summaryForEffort
<1>8. Readable(r) /\ e # "none" => v.summary \notin {None, "none"}
  BY <1>1, <1>4, <1>5, <1>6 DEF Readable, E!summaryForEffort
<1>9. Hidden(r) => E!reasoningDisplay(r, v.summary) # "summarized"
  BY <1>7 DEF E!reasoningDisplay, Hidden, E!summaryVisible
<1>10. Readable(r) /\ e # "none" => E!reasoningDisplay(r, v.summary) = "summarized"
  BY <1>1, <1>8 DEF E!reasoningDisplay, Readable, E!summaryVisible, E!Displays
<1> QED  BY <1>3, <1>4, <1>5, <1>7, <1>8, <1>9, <1>10 DEF E!summaryVisible, e, v

LEMMA ToldIs ==
    ASSUME NEW think, NEW label, NEW budget, NEW show
    PROVE  LET t == E!Told(think, label, budget, show)
           IN  t.state = "sent" /\ t.think = think /\ t.label = label /\ t.budget = budget /\ t.show = show
BY DEF E!Told

LEMMA SilentIs ==
    /\ E!Silent = E!Told("unsaid", None, None, "unsaid")
    /\ E!Refused.state = "refused" /\ E!Failed.state = "failed"
    /\ [E!Silent EXCEPT !.think = "off"] = E!Told("off", None, None, "unsaid")
    /\ E!Shown(TRUE) = "shown" /\ E!Shown(FALSE) = "hidden"
BY DEF E!Silent, E!Refused, E!Failed, E!Told, E!Shown

\* The words of a level are understood as that level.
LEMMA LabelUnderstood ==
    ASSUME NEW m, NEW e \in m.spec.levels, NEW show, NEW t,
           m.spec.kind # "fixed", ~(m.adapter = "vercel" /\ m.spec.kind \in E!OpenAIKinds),
           t = E!Labelled(e, m.spec, show)
    PROVE  e \in E!Understood(t, m) /\ t.state = "sent" /\ t.show = show /\ (t.think = "on" <=> e # "none")
<1>1. /\ t.state = "sent" /\ t.think = (IF e = "none" THEN "off" ELSE "on")
      /\ t.label = E!toUpstreamReasoningEffort(e, m.spec) /\ t.budget = None /\ t.show = show
  BY ToldIs DEF E!Labelled
<1> QED  BY <1>1 DEF E!Understood

LEMMA BudgetUnderstood ==
    ASSUME NEW m, NEW e \in m.spec.levels, e # "none", NEW show, NEW t, NEW defaults,
           m.spec.kind # "fixed",
           e \in DOMAIN defaults => e \in DOMAIN (IF m.adapter = "google" THEN E!DEFAULT_GEMINI_BUDGETS
                                                  ELSE E!DEFAULT_ANTHROPIC_BUDGETS),
           e \in DOMAIN defaults => defaults[e] = (IF m.adapter = "google" THEN E!DEFAULT_GEMINI_BUDGETS[e]
                                                   ELSE E!DEFAULT_ANTHROPIC_BUDGETS[e]),
           t = E!Budgeted(e, m.spec.budgets, defaults, show)
    PROVE  \/ t = E!Failed /\ e \notin DOMAIN m.spec.budgets /\ e \notin DOMAIN defaults
           \/ e \in E!Understood(t, m) /\ t.state = "sent" /\ t.show = show /\ t.think = "on"
<1>1. CASE e \in DOMAIN m.spec.budgets
  <2>1. t = E!Told("on", None, m.spec.budgets[e], show)
    BY <1>1 DEF E!Budgeted
  <2>2. t.state = "sent" /\ t.think = "on" /\ t.label = None /\ t.budget = m.spec.budgets[e] /\ t.show = show
    BY <2>1, ToldIs
  <2> QED  BY <1>1, <2>2 DEF E!Understood
<1>2. CASE e \notin DOMAIN m.spec.budgets /\ e \in DOMAIN defaults
  <2>1. t = E!Told("on", None, defaults[e], show)
    BY <1>2 DEF E!Budgeted
  <2>2. t.state = "sent" /\ t.think = "on" /\ t.label = None /\ t.budget = defaults[e] /\ t.show = show
    BY <2>1, ToldIs
  <2> QED  BY <1>2, <2>2 DEF E!Understood
<1>3. CASE e \notin DOMAIN m.spec.budgets /\ e \notin DOMAIN defaults
  BY <1>3 DEF E!Budgeted
<1> QED  BY <1>1, <1>2, <1>3

LEMMA DefaultBudgets ==
    ASSUME NEW e \in E!Efforts, e \notin {"none", "max"}
    PROVE  e \in DOMAIN E!DEFAULT_GEMINI_BUDGETS /\ e \in DOMAIN E!DEFAULT_ANTHROPIC_BUDGETS
BY RungsAre DEF E!DEFAULT_GEMINI_BUDGETS, E!DEFAULT_ANTHROPIC_BUDGETS

LEMMA OffUnderstood ==
    ASSUME NEW m, "none" \in m.spec.levels, m.spec.kind # "fixed", NEW b, NEW show, NEW t,
           t = E!Told("off", None, b, show)
    PROVE  "none" \in E!Understood(t, m) /\ t.state = "sent" /\ t.show = show /\ t.think = "off"
<1>1. t.state = "sent" /\ t.think = "off" /\ t.label = None /\ t.budget = b /\ t.show = show
  BY ToldIs
<1> QED  BY <1>1 DEF E!Understood

LEMMA AnthropicFits ==
    ASSUME NEW m \in E!Models, m.spec # None, m.adapter = "anthropic", NEW r \in E!Canonicals \cup {None}, NEW transport
    PROVE  Fitting(m, r, transport, E!applyReasoning(m.spec, r))
<1> DEFINE e == Level(r, m.spec)
           v == E!resolveReasoning(r, m.spec)
           show == E!Shown(E!summaryVisible(v.summary))
           t == E!applyReasoning(m.spec, r)
<1>1. m.spec.kind \in E!reasoningKinds("anthropic") /\ m.spec.kind \in {"anthropic_adaptive", "anthropic_budget"}
  BY SpecIs DEF E!reasoningKinds
<1>2. /\ v.effort = e /\ e \in m.spec.levels /\ e \in E!Efforts
      /\ (Hidden(r) => show = "hidden") /\ (Readable(r) /\ e # "none" => show = "shown")
  BY SpecIs, EffortResolved DEF E!Shown
<1>3. t = IF v.effort = "none" THEN [E!Silent EXCEPT !.think = "off"]
          ELSE IF m.spec.kind = "anthropic_adaptive" THEN E!Labelled(v.effort, m.spec, show)
          ELSE E!Budgeted(v.effort, m.spec.budgets, E!DEFAULT_ANTHROPIC_BUDGETS, show)
  BY <1>1 DEF E!applyReasoning, E!resolveAdapterReasoning
<1> HIDE DEF e, v, show, t
<1>4. CASE e = "none"
  <2>1. t = E!Told("off", None, None, "unsaid")
    BY <1>2, <1>3, <1>4, SilentIs
  <2>2. "none" \in E!Understood(t, m) /\ t.state = "sent" /\ t.show = "unsaid" /\ t.think = "off"
    BY <1>1, <1>2, <1>4, <2>1, OffUnderstood
  <2> QED  BY <1>4, <2>2 DEF Fitting, e, t
<1>5. CASE e # "none" /\ m.spec.kind = "anthropic_adaptive"
  <2>1. t = E!Labelled(e, m.spec, show)
    BY <1>2, <1>3, <1>5
  <2>2. e \in E!Understood(t, m) /\ t.state = "sent" /\ t.show = show
    BY <1>1, <1>2, <2>1, LabelUnderstood
  <2> QED  BY <1>2, <1>5, <2>2 DEF Fitting, e, t
<1>6. CASE e # "none" /\ m.spec.kind = "anthropic_budget"
  <2>1. t = E!Budgeted(e, m.spec.budgets, E!DEFAULT_ANTHROPIC_BUDGETS, show)
    BY <1>2, <1>3, <1>6
  <2>2. e = "max" => e \in DOMAIN m.spec.budgets
    BY <1>2, <1>6, SpecIs
  <2>3. e \in DOMAIN m.spec.budgets \/ e \in DOMAIN E!DEFAULT_ANTHROPIC_BUDGETS
    BY <1>2, <1>6, <2>2, DefaultBudgets
  <2>4. e \in E!Understood(t, m) /\ t.state = "sent" /\ t.show = show
    BY <1>1, <1>2, <1>6, <2>1, <2>3, BudgetUnderstood
  <2> QED  BY <1>2, <1>6, <2>4 DEF Fitting, e, t
<1> QED  BY <1>1, <1>4, <1>5, <1>6
LEMMA GoogleFits ==
    ASSUME NEW m \in E!Models, m.spec # None, m.adapter = "google", NEW r \in E!Canonicals \cup {None}, NEW transport
    PROVE  Fitting(m, r, transport, E!geminiThinkingConfig(m.spec, r))
<1> DEFINE e == Level(r, m.spec)
           v == E!resolveReasoning(r, m.spec)
           show == E!Shown(E!summaryVisible(v.summary))
           t == E!geminiThinkingConfig(m.spec, r)
<1>1. m.spec.kind \in E!reasoningKinds("google") /\ m.spec.kind \in {"gemini_level", "gemini_budget"}
  BY SpecIs DEF E!reasoningKinds
<1>2. /\ v.effort = e /\ e \in m.spec.levels /\ e \in E!Efforts
      /\ (Hidden(r) => show = "hidden") /\ (Readable(r) /\ e # "none" => show = "shown")
  BY SpecIs, EffortResolved DEF E!Shown
<1>3. t = IF m.spec.kind = "gemini_level" THEN E!Told("on", E!geminiLevel(v.effort, m.spec), None, show)
          ELSE IF v.effort = "none" THEN E!Told("off", None, 0, "hidden")
          ELSE E!Budgeted(v.effort, m.spec.budgets, E!DEFAULT_GEMINI_BUDGETS, show)
  BY <1>1 DEF E!geminiThinkingConfig, E!resolveAdapterReasoning
<1> HIDE DEF e, v, show, t
<1>4. CASE m.spec.kind = "gemini_level"
  <2>1. /\ t.state = "sent" /\ t.think = "on" /\ t.label = E!geminiLevel(e, m.spec)
        /\ t.budget = None /\ t.show = show
    BY <1>2, <1>3, <1>4, ToldIs
  <2>2. ~NeighboursOf(m) => e # "none" /\ t.label = E!toUpstreamReasoningEffort(e, m.spec)
    BY <1>2, <1>4, <2>1 DEF NeighboursOf, E!geminiLevel
  <2>3. ~NeighboursOf(m) => e \in E!Understood(t, m)
    BY <1>2, <1>4, <2>1, <2>2 DEF E!Understood, E!OpenAIKinds
  <2> QED  BY <1>2, <2>1, <2>2, <2>3 DEF Fitting, e, t
<1>5. CASE m.spec.kind = "gemini_budget" /\ e = "none"
  <2>1. t = E!Told("off", None, 0, "hidden")
    BY <1>2, <1>3, <1>5
  <2>2. "none" \in E!Understood(t, m) /\ t.state = "sent" /\ t.show = "hidden" /\ t.think = "off"
    BY <1>2, <1>5, <2>1, OffUnderstood
  <2> QED  BY <1>5, <2>2 DEF Fitting, e, t
<1>6. CASE m.spec.kind = "gemini_budget" /\ e # "none"
  <2>1. t = E!Budgeted(e, m.spec.budgets, E!DEFAULT_GEMINI_BUDGETS, show)
    BY <1>2, <1>3, <1>6
  <2>2. e = "max" => e \in DOMAIN m.spec.budgets
    BY <1>2, <1>6, SpecIs
  <2>3. e \in DOMAIN m.spec.budgets \/ e \in DOMAIN E!DEFAULT_GEMINI_BUDGETS
    BY <1>2, <1>6, <2>2, DefaultBudgets
  <2>4. e \in E!Understood(t, m) /\ t.state = "sent" /\ t.show = show
    BY <1>2, <1>6, <2>1, <2>3, BudgetUnderstood
  <2> QED  BY <1>2, <1>6, <2>4 DEF Fitting, e, t
<1> QED  BY <1>1, <1>4, <1>5, <1>6

LEMMA ToggledFits ==
    ASSUME NEW m, m.spec.kind \in {"openai_body", "chat_template_flag"}, m.adapter # "vercel", m.adapter # "google",
           NEW r \in E!Canonicals \cup {None}, m.spec.levels \in SUBSET E!Efforts, m.spec.levels # {},
           m.spec.field \in BOOLEAN, m.spec.off \in BOOLEAN, NEW transport
    PROVE  Fitting(m, r, transport, E!Toggled(Level(r, m.spec), m.spec))
<1> DEFINE e == Level(r, m.spec)
           t == E!Toggled(e, m.spec)
<1>1. e \in m.spec.levels
  BY EffortResolved
<1> HIDE DEF e
<1>2. CASE e = "none"
  <2>1. t = [E!Silent EXCEPT !.think = IF m.spec.off THEN "off" ELSE "unsaid"]
    BY <1>2 DEF E!Toggled
  <2>2. /\ t.state = "sent" /\ t.think = (IF m.spec.off THEN "off" ELSE "unsaid")
        /\ t.label = None /\ t.budget = None /\ t.show = "unsaid"
    BY <2>1 DEF E!Silent, E!Told
  <2> HIDE DEF t
  <2>3. e \in E!Understood(t, m)
    BY <1>1, <1>2, <2>2 DEF E!Understood
  <2> QED  BY <2>2, <2>3 DEF Fitting, e, t
<1>3. CASE e # "none"
  <2>1. t = E!Told("on", IF m.spec.field THEN E!toUpstreamReasoningEffort(e, m.spec) ELSE None, None, "unsaid")
    BY <1>3 DEF E!Toggled
  <2>2. /\ t.state = "sent" /\ t.think = "on" /\ t.budget = None /\ t.show = "unsaid"
        /\ t.label = (IF m.spec.field THEN E!toUpstreamReasoningEffort(e, m.spec) ELSE None)
    BY <2>1, ToldIs
  <2> HIDE DEF t
  <2>3. e \in E!Understood(t, m)
    BY <1>1, <1>3, <2>2 DEF E!Understood
  <2> QED  BY <2>2, <2>3 DEF Fitting, e, t
<1> QED  BY <1>2, <1>3

LEMMA ChatFits ==
    ASSUME NEW m \in E!Models, m.spec # None, m.adapter \in {"openai", "compatible", "azurefoundry"},
           NEW r \in E!Canonicals \cup {None}, NEW transport
    PROVE  Fitting(m, r, transport, E!ChatBody(m.spec, r))
<1> DEFINE e == Level(r, m.spec)
           t == E!ChatBody(m.spec, r)
<1>1. m.spec.kind \in {"openai_effort", "openai_body", "fixed", "chat_template_flag"}
  BY SpecIs DEF E!reasoningKinds, E!OpenAIKinds
<1>2. /\ E!resolveReasoning(r, m.spec).effort = e /\ e \in m.spec.levels
  BY SpecIs, EffortResolved
<1>3. t = IF m.spec.kind = "openai_effort" THEN E!Labelled(e, m.spec, "unsaid")
          ELSE IF m.spec.kind = "fixed" THEN E!Silent
          ELSE E!Toggled(e, m.spec)
  BY <1>1, <1>2 DEF E!ChatBody
<1> HIDE DEF e, t
<1>4. CASE m.spec.kind = "openai_effort"
  <2>1. e \in E!Understood(t, m) /\ t.state = "sent" /\ t.show = "unsaid"
    BY <1>2, <1>3, <1>4, LabelUnderstood
  <2> QED  BY <2>1 DEF Fitting, e, t
<1>5. CASE m.spec.kind = "fixed"
  <2>1. t = E!Silent /\ t.state = "sent" /\ t.think = "unsaid" /\ t.label = None /\ t.budget = None /\ t.show = "unsaid"
    BY <1>3, <1>5, SilentIs, ToldIs
  <2>2. e \in E!Understood(t, m)
    BY <1>2, <1>5, <2>1 DEF E!Understood
  <2> QED  BY <2>1, <2>2 DEF Fitting, e, t
<1>6. CASE m.spec.kind \in {"openai_body", "chat_template_flag"}
  <2>1. t = E!Toggled(Level(r, m.spec), m.spec)
    BY <1>3, <1>6 DEF e
  <2>2. m.adapter # "vercel" /\ m.adapter # "google"
    OBVIOUS
  <2> QED  BY <1>6, <2>1, <2>2, SpecIs, ToggledFits DEF t
<1> QED  BY <1>1, <1>4, <1>5, <1>6

LEMMA ResponsesFits ==
    ASSUME NEW m \in E!Models, m.spec # None, m.adapter \in {"openai", "compatible"},
           NEW r \in E!Canonicals \cup {None}
    PROVE  Fitting(m, r, "responses", E!ResponsesBody(m.spec, r))
<1> DEFINE e == Level(r, m.spec)
           v == E!resolveReasoning(r, m.spec)
           show == E!Shown(E!summaryVisible(v.summary))
           t == E!ResponsesBody(m.spec, r)
<1>1. /\ v.effort = e /\ e \in m.spec.levels
      /\ (Hidden(r) => show = "hidden") /\ (Readable(r) /\ e # "none" => show = "shown")
  BY SpecIs, EffortResolved DEF E!Shown
<1>2. CASE m.spec.kind = "openai_effort"
  <2>1. t = E!Labelled(e, m.spec, show)
    BY <1>1, <1>2 DEF E!ResponsesBody
  <2>2. m.adapter # "vercel" /\ m.spec.kind # "fixed"
    BY <1>2
  <2>3. e \in m.spec.levels /\ ~(m.adapter = "vercel" /\ m.spec.kind \in E!OpenAIKinds)
    BY <1>1, <2>2
  <2> HIDE DEF e, v, show, t
  <2>4. e \in E!Understood(t, m) /\ t.state = "sent" /\ t.show = show /\ (t.think = "on" <=> e # "none")
    BY <2>1, <2>2, <2>3, LabelUnderstood
  <2> QED  BY <1>1, <2>4 DEF Fitting, e, t
<1>3. CASE m.spec.kind # "openai_effort"
  <2>1. t = E!Refused /\ t.state = "refused"
    BY <1>3, SilentIs DEF E!ResponsesBody
  <2> QED  BY <1>3, <2>1 DEF Fitting, Untold
<1> QED  BY <1>2, <1>3
LEMMA RestIs ==
    ASSUME NEW m \in E!Models, m.spec # None
    PROVE  LET rest == E!vercelRestReasoningSpec(m.spec)
           IN  /\ rest # None /\ rest.kind = "openai_effort" /\ rest.levels = m.spec.levels
               /\ \A e : E!toUpstreamReasoningEffort(e, rest) = e
<1> DEFINE rest == E!vercelRestReasoningSpec(m.spec)
<1>1. PICK B, N \in SUBSET E!Efforts : m.spec \in E!Specs(B, N)
  BY SpecIs
<1>2. rest = [m.spec EXCEPT !.kind = "openai_effort", !.names = <<>>]
  BY DEF E!vercelRestReasoningSpec
<1>3. rest.kind = "openai_effort" /\ rest.levels = m.spec.levels /\ rest.names = <<>>
  BY <1>1, <1>2 DEF E!Specs
<1>4. "openai_effort" \in UNION {E!reasoningKinds(a) : a \in E!AdapterNames}
  BY DEF E!reasoningKinds, E!AdapterNames, E!OpenAIKinds
<1>5. <<>> \in [{} -> STRING] /\ DOMAIN <<>> = {}
  OBVIOUS
<1>6. rest \in E!Specs(B, {})
  BY <1>1, <1>2, <1>4, <1>5 DEF E!Specs
<1>7. rest # None
  BY <1>6, EffortIs
<1>8. DOMAIN rest.names = {}
  BY <1>3, <1>5
<1> HIDE DEF rest
<1>9. \A e : E!toUpstreamReasoningEffort(e, rest) = e
  BY <1>8 DEF E!toUpstreamReasoningEffort
<1> QED  BY <1>3, <1>7, <1>9 DEF rest

\* What Vercel's own fields say, before the provider's are added.
LEMMA RestBody ==
    ASSUME NEW m \in E!Models, m.spec # None, NEW r \in E!Canonicals \cup {None}, NEW transport
    PROVE  LET rest == E!vercelRestReasoningSpec(m.spec)
               own == IF transport = "responses" THEN E!ResponsesBody(rest, r)
                       ELSE E!useVercelChatReasoning(E!ChatBody(rest, r), r)
               e == Level(r, m.spec)
           IN  /\ own.state = "sent" /\ own.label = e /\ own.budget = None
               /\ own.think = (IF e = "none" THEN "off" ELSE "on")
               /\ Hidden(r) => own.show # "shown"
               /\ Readable(r) /\ e # "none" => own.show # "hidden"
<1> DEFINE rest == E!vercelRestReasoningSpec(m.spec)
           e == Level(r, m.spec)
           v == E!resolveReasoning(r, rest)
           show == E!Shown(E!summaryVisible(v.summary))
           chat == E!ChatBody(rest, r)
           own == IF transport = "responses" THEN E!ResponsesBody(rest, r)
                   ELSE E!useVercelChatReasoning(chat, r)
<1>1. /\ rest # None /\ rest.kind = "openai_effort" /\ rest.levels = m.spec.levels
      /\ E!toUpstreamReasoningEffort(e, rest) = e
  BY RestIs
<1>2. m.spec.levels \in SUBSET E!Efforts /\ m.spec.levels # {}
  BY SpecIs
<1> HIDE DEF rest
<1>3. e = Level(r, rest)
  BY <1>1 DEF Level
<1>4. /\ v.effort = e /\ e \in E!Efforts
      /\ (Hidden(r) => show = "hidden") /\ (Readable(r) /\ e # "none" => show = "shown")
  BY <1>1, <1>2, <1>3, EffortResolved DEF E!Shown
<1>5. CASE transport = "responses"
  <2>1. own = E!Labelled(v.effort, rest, show)
    BY <1>1, <1>5 DEF E!ResponsesBody
  <2>2. own = E!Told(IF e = "none" THEN "off" ELSE "on", e, None, show)
    BY <1>1, <1>4, <2>1 DEF E!Labelled
  <2> HIDE DEF own, e, show, v
  <2>3. /\ own.state = "sent" /\ own.label = e /\ own.budget = None /\ own.show = show
        /\ own.think = (IF e = "none" THEN "off" ELSE "on")
    BY <2>2, ToldIs
  <2> QED  BY <1>4, <2>3 DEF e, own, rest
<1>6. CASE transport # "responses"
  <2>1. chat = E!Labelled(v.effort, rest, "unsaid")
    BY <1>1 DEF E!ChatBody
  <2>2. chat = E!Told(IF e = "none" THEN "off" ELSE "on", e, None, "unsaid")
    BY <1>1, <1>4, <2>1 DEF E!Labelled
  <2>3. e # None
    BY <1>4, EffortIs
  <2> DEFINE hid == IF r # None /\ (r.display = "omitted" \/ r.summary = "none") THEN "hidden" ELSE "unsaid"
  <2>4. own = E!useVercelChatReasoning(chat, r)
    BY <1>6
  <2> HIDE DEF own, e, v, chat
  <2>5. chat.label = e
    BY <2>2, ToldIs
  <2>6. own = [chat EXCEPT !.show = hid]
    BY <2>3, <2>4, <2>5 DEF E!useVercelChatReasoning
  <2>7. /\ own.state = "sent" /\ own.label = e /\ own.budget = None /\ own.show = hid
        /\ own.think = (IF e = "none" THEN "off" ELSE "on")
    BY <2>2, <2>6 DEF E!Told
  <2>8. hid # "shown" /\ (Readable(r) => hid # "hidden")
    BY DEF Readable
  <2> HIDE DEF hid
  <2> QED  BY <2>7, <2>8 DEF e, own, chat, rest
<1> QED  BY <1>5, <1>6

LEMMA VercelFits ==
    ASSUME NEW m \in E!Models, m.spec # None, m.adapter = "vercel", NEW r \in E!Canonicals \cup {None}, NEW transport
    PROVE  Fitting(m, r, transport, E!VercelBody(m.spec, r, transport))
<1> DEFINE rest == E!vercelRestReasoningSpec(m.spec)
           own == IF transport = "responses" THEN E!ResponsesBody(rest, r)
                   ELSE E!useVercelChatReasoning(E!ChatBody(rest, r), r)
           e == Level(r, m.spec)
           v == E!resolveReasoning(r, m.spec)
           show == E!Shown(E!reasoningDisplay(r, v.summary) = "summarized")
           t == E!VercelBody(m.spec, r, transport)
           knob == m.spec.kind
<1>1. knob \in {"openai_effort", "openai_body", "fixed", "chat_template_flag", "anthropic_adaptive",
                "anthropic_budget", "gemini_level", "gemini_budget"}
  BY SpecIs DEF E!reasoningKinds, E!OpenAIKinds
<1>2. /\ v.effort = e /\ e \in m.spec.levels /\ e \in E!Efforts
      /\ (Hidden(r) => show = "hidden") /\ (Readable(r) /\ e # "none" => show = "shown")
  BY SpecIs, EffortResolved DEF E!Shown
<1>3. /\ own.state = "sent" /\ own.label = e /\ own.budget = None
      /\ own.think = (IF e = "none" THEN "off" ELSE "on")
      /\ Hidden(r) => own.show # "shown"
      /\ Readable(r) /\ e # "none" => own.show # "hidden"
  BY RestBody
<1>4. t = E!applyVercelNativeReasoning(own, m.spec, r)
  BY <1>3 DEF E!VercelBody
<1> HIDE DEF own
<1>5. t = IF knob \in {"openai_effort", "openai_body", "chat_template_flag"} THEN own
          ELSE IF knob = "fixed" THEN E!Silent
          ELSE IF knob \in {"anthropic_adaptive", "anthropic_budget"} /\ e = "none" THEN [E!Silent EXCEPT !.think = "off"]
          ELSE IF knob \in {"anthropic_adaptive", "gemini_level"} THEN E!Labelled(e, m.spec, show)
          ELSE IF knob = "gemini_budget" /\ e = "none" THEN E!Told("off", None, 0, show)
          ELSE E!Budgeted(e, m.spec.budgets, <<>>, IF knob = "gemini_budget" THEN show ELSE "unsaid")
  BY <1>1, <1>2, <1>4 DEF E!applyVercelNativeReasoning
<1> HIDE DEF e, v, show, t
<1>6. CASE knob \in {"openai_effort", "openai_body", "chat_template_flag"}
  <2>1. t = own
    BY <1>5, <1>6
  <2>2. e \in E!Understood(t, m)
    BY <1>2, <1>3, <1>6, <2>1 DEF E!Understood, E!OpenAIKinds
  <2> QED  BY <1>3, <2>1, <2>2 DEF Fitting, e, t
<1>7. CASE knob = "fixed"
  <2>1. t = E!Silent /\ t.state = "sent" /\ t.think = "unsaid" /\ t.label = None /\ t.budget = None /\ t.show = "unsaid"
    BY <1>5, <1>7, SilentIs, ToldIs
  <2>2. e \in E!Understood(t, m)
    BY <1>2, <1>7, <2>1 DEF E!Understood
  <2> QED  BY <2>1, <2>2 DEF Fitting, e, t
<1>8. CASE knob \in {"anthropic_adaptive", "anthropic_budget", "gemini_budget"} /\ e = "none"
  <2> DEFINE b == IF knob = "gemini_budget" THEN 0 ELSE None
             s == IF knob = "gemini_budget" THEN show ELSE "unsaid"
  <2>1. t = E!Told("off", None, b, s)
    BY <1>5, <1>8, SilentIs
  <2> HIDE DEF b, s
  <2>2. "none" \in E!Understood(t, m) /\ t.state = "sent" /\ t.show = s /\ t.think = "off"
    BY <1>2, <1>8, <2>1, OffUnderstood
  <2>3. Hidden(r) => s # "shown"
    BY <1>2 DEF s
  <2> QED  BY <1>8, <2>2, <2>3 DEF Fitting, e, t
<1>9. CASE knob = "gemini_level" \/ (knob = "anthropic_adaptive" /\ e # "none")
  <2>1. t = E!Labelled(e, m.spec, show)
    BY <1>5, <1>9
  <2>2. m.spec.kind \notin E!OpenAIKinds /\ m.spec.kind # "fixed"
    BY <1>9 DEF E!OpenAIKinds
  <2>3. e \in E!Understood(t, m) /\ t.state = "sent" /\ t.show = show /\ (t.think = "on" <=> e # "none")
    BY <1>2, <2>1, <2>2, LabelUnderstood
  <2> QED  BY <1>2, <2>3 DEF Fitting, e, t
<1>10. CASE knob \in {"anthropic_budget", "gemini_budget"} /\ e # "none"
  <2> DEFINE s == IF knob = "gemini_budget" THEN show ELSE "unsaid"
  <2>1. t = E!Budgeted(e, m.spec.budgets, <<>>, s)
    BY <1>5, <1>10
  <2>2. e \notin DOMAIN <<>>
    OBVIOUS
  <2> HIDE DEF s
  <2>3. \/ t = E!Failed /\ e \notin DOMAIN m.spec.budgets
        \/ e \in E!Understood(t, m) /\ t.state = "sent" /\ t.show = s /\ t.think = "on"
    <3>1. CASE e \notin DOMAIN m.spec.budgets
      BY <2>1, <2>2, <3>1 DEF E!Budgeted
    <3>2. CASE e \in DOMAIN m.spec.budgets
      <4>1. t = E!Told("on", None, m.spec.budgets[e], s)
        BY <2>1, <3>2 DEF E!Budgeted
      <4>2. t.state = "sent" /\ t.think = "on" /\ t.label = None /\ t.budget = m.spec.budgets[e] /\ t.show = s
        BY <4>1, ToldIs
      <4> QED  BY <1>2, <1>10, <3>2, <4>2 DEF E!Understood
    <3> QED  BY <3>1, <3>2
  <2>4. (Hidden(r) => s # "shown") /\ (Readable(r) => s # "hidden")
    BY <1>2, <1>10 DEF s
  <2>5. CASE t = E!Failed /\ e \notin DOMAIN m.spec.budgets
    BY <1>2, <1>10, <2>5, SilentIs DEF Fitting, UnbudgetedBy, E!Positive, t
  <2>6. CASE e \in E!Understood(t, m) /\ t.state = "sent" /\ t.show = s /\ t.think = "on"
    BY <2>4, <2>6 DEF Fitting, e, t
  <2> QED  BY <2>3, <2>5, <2>6
<1> QED  BY <1>1, <1>6, <1>7, <1>8, <1>9, <1>10
LEMMA RequestFits ==
    ASSUME NEW m \in E!Models, m.spec # None, NEW r \in E!Canonicals \cup {None}, NEW w
    PROVE  LET transport == E!resolveTransport(m, w)
           IN  Fitting(m, r, transport, E!buildRequest(m, m.spec, r, transport))
<1> DEFINE transport == E!resolveTransport(m, w)
<1>1. m \in Declared
  BY DEF E!Models
<1>2. m.adapter \in {"openai", "compatible", "azurefoundry", "anthropic", "google", "vercel"}
  BY <1>1, EffortIs DEF E!AdapterNames
<1>3. m.adapter = "azurefoundry" => transport = "chat_completions"
  BY <1>1, EffortIs DEF E!resolveTransport, E!supportedTransports
<1> HIDE DEF transport
<1>4. CASE m.adapter = "anthropic"
  BY <1>4, AnthropicFits DEF E!buildRequest, transport
<1>5. CASE m.adapter = "google"
  BY <1>5, GoogleFits DEF E!buildRequest, transport
<1>6. CASE m.adapter = "vercel"
  BY <1>6, VercelFits DEF E!buildRequest, transport
<1>7. CASE m.adapter \in {"openai", "compatible", "azurefoundry"} /\ transport # "responses"
  BY <1>7, ChatFits DEF E!buildRequest, transport
<1>8. CASE m.adapter \in {"openai", "compatible"} /\ transport = "responses"
  <2>1. E!buildRequest(m, m.spec, r, transport) = E!ResponsesBody(m.spec, r)
    BY <1>8 DEF E!buildRequest
  <2>2. Fitting(m, r, "responses", E!ResponsesBody(m.spec, r))
    BY <1>8, ResponsesFits
  <2> QED  BY <1>8, <2>1, <2>2 DEF transport
<1> QED  BY <1>2, <1>3, <1>4, <1>5, <1>6, <1>7, <1>8

\* A model that does not think is told nothing, or refuses to.
LEMMA NothingToSay ==
    ASSUME NEW m \in E!Models, NEW r, NEW transport, ~E!AsksToThink(r)
    PROVE  E!buildRequest(m, None, r, transport) = E!Silent
<1>1. m.adapter \in {"openai", "compatible", "azurefoundry", "anthropic", "google", "vercel"}
  BY EffortIs DEF E!AdapterNames, E!Models
<1>2. E!ChatBody(None, r) = E!Silent /\ E!ResponsesBody(None, r) = E!Silent
  BY DEF E!ChatBody, E!ResponsesBody
<1>3. E!Silent.label = None
  BY DEF E!Silent, E!Told
<1>4. E!useVercelChatReasoning(E!Silent, r) = E!Silent
  BY <1>3 DEF E!useVercelChatReasoning
<1>5. E!VercelBody(None, r, transport) = E!Silent
  BY <1>2, <1>4 DEF E!VercelBody, E!vercelRestReasoningSpec
<1>6. E!applyReasoning(None, r) = E!Silent /\ E!geminiThinkingConfig(None, r) = E!Silent
  BY DEF E!applyReasoning, E!geminiThinkingConfig, E!resolveAdapterReasoning
<1> QED  BY <1>1, <1>2, <1>5, <1>6 DEF E!buildRequest

-----------------------------------------------------------------------------
(* Every attempt is made from the original request.                        *)

\* What the attempt on a model tells its provider, and logs.
TellsOf(m) ==
    LET spec == E!resolveModelMetadata(m)
        r == E!applyUnsupportedParameterPolicy(m)
    IN  IF spec = None /\ E!AsksToThink(r) THEN E!Refused
        ELSE E!buildRequest(m, spec, r, E!resolveTransport(m, ask.wire))

EffortInv ==
    /\ ask \in Asked /\ attempts \in 0 .. MaxAttempts
    /\ \/ told = None /\ model = E!Nothing /\ attempts = 0
       \/ told \in {E!Refused, E!Silent} /\ reasoning = E!ToCanonical(ask) /\ model = E!Nothing
          /\ (reasoning = E!Rejected => told = E!Refused)
       \/ /\ attempts > 0 /\ model \in E!Models
          /\ reasoning = E!ToCanonical(ask) /\ reasoning # E!Rejected
          /\ told = TellsOf(model)
          /\ log = E!reasoningLogInfo(reasoning, E!resolveModelMetadata(model))

LEMMA InitEffort == E!Init => EffortInv
BY EffortIs DEF E!Init, EffortInv

LEMMA EffortStep == EffortInv /\ (E!Next \/ UNCHANGED E!vars) => EffortInv'
<1> SUFFICES ASSUME EffortInv, E!Next \/ UNCHANGED E!vars PROVE EffortInv'
  OBVIOUS
<1>1. CASE E!Receive
  BY <1>1 DEF E!Receive, EffortInv
<1>2. CASE \E m \in E!Models : E!Attempt(m)
  <2>1. PICK m \in E!Models : E!Attempt(m)
    BY <1>2
  <2>2. reasoning = E!ToCanonical(ask) /\ reasoning # E!Rejected
    BY <2>1 DEF E!Attempt, EffortInv
  <2>3. /\ ask' = ask /\ reasoning' = reasoning /\ model' = m /\ attempts' = attempts + 1
        /\ attempts < MaxAttempts
        /\ log' = E!reasoningLogInfo(reasoning, E!resolveModelMetadata(m))
        /\ told' = TellsOf(m)
    BY <2>1 DEF E!Attempt, TellsOf
  <2>4. ask \in Asked /\ attempts \in 0 .. MaxAttempts /\ MaxAttempts \in Nat
    BY EffortIs DEF EffortInv
  <2>5. TellsOf(m)' = TellsOf(m)
    BY <2>3 DEF TellsOf, E!applyUnsupportedParameterPolicy
  <2>6. TellsOf(model)' = TellsOf(m)
    BY <2>3, <2>5 DEF TellsOf, E!applyUnsupportedParameterPolicy
  <2> QED  BY <2>2, <2>3, <2>4, <2>6 DEF EffortInv
<1>3. CASE UNCHANGED E!vars
  BY <1>3 DEF E!vars, EffortInv, TellsOf, E!applyUnsupportedParameterPolicy
<1> QED  BY <1>1, <1>2, <1>3 DEF E!Next

\* What EffortInv says once an attempt was made.
Attempted ==
    /\ ask \in Asked /\ attempts \in 0 .. MaxAttempts /\ model \in E!Models
    /\ reasoning = E!ToCanonical(ask) /\ reasoning # E!Rejected
    /\ told = TellsOf(model)
    /\ log = E!reasoningLogInfo(reasoning, E!resolveModelMetadata(model))

LEMMA AttemptMeans ==
    ASSUME Attempted
    PROVE  /\ Meant(reasoning)
           /\ E!applyUnsupportedParameterPolicy(model) \in E!Canonicals \cup {None}
           /\ (~model.drops => E!applyUnsupportedParameterPolicy(model) = reasoning)
           /\ (model.drops => E!applyUnsupportedParameterPolicy(model) = None)
BY AskMeans DEF Attempted, Meant, E!applyUnsupportedParameterPolicy

\* A model that reasons is told what fits it.
LEMMA ReasonerTold ==
    ASSUME Attempted, E!Reasons
    PROVE  LET r == E!applyUnsupportedParameterPolicy(model)
           IN  /\ Fitting(model, r, E!resolveTransport(model, ask.wire), told)
               /\ Level(r, model.spec) \in model.spec.levels
               /\ E!Serves(Level(r, model.spec), Wanted(r), model.spec.levels)
<1> DEFINE r == E!applyUnsupportedParameterPolicy(model)
<1>1. model \in E!Models /\ model.spec # None /\ E!resolveModelMetadata(model) = model.spec
  BY DEF Attempted, E!Reasons, E!resolveModelMetadata
<1>2. r \in E!Canonicals \cup {None}
  BY AttemptMeans
<1>3. told = E!buildRequest(model, model.spec, r, E!resolveTransport(model, ask.wire))
  BY <1>1 DEF Attempted, TellsOf
<1> HIDE DEF r
<1>4. Fitting(model, r, E!resolveTransport(model, ask.wire), told)
  BY <1>1, <1>2, <1>3, RequestFits
<1>5. Level(r, model.spec) \in model.spec.levels /\ E!Serves(Level(r, model.spec), Wanted(r), model.spec.levels)
  BY <1>1, <1>2, SpecIs, EffortResolved
<1> QED  BY <1>4, <1>5 DEF r

LEMMA OtherTold ==
    ASSUME Attempted, ~E!Reasons
    PROVE  \/ told = E!Silent
           \/ told = E!Refused /\ E!Wish # {"none"}
<1> DEFINE r == E!applyUnsupportedParameterPolicy(model)
<1>1. E!resolveModelMetadata(model) = None
  BY DEF E!Reasons, E!resolveModelMetadata
<1>2. CASE E!AsksToThink(r)
  <2>1. told = E!Refused
    BY <1>1, <1>2 DEF Attempted, TellsOf
  <2>2. r = reasoning
    BY <1>2, AttemptMeans DEF E!AsksToThink
  <2>3. E!Wish # {"none"}
    BY <1>2, <2>2, AttemptMeans DEF Meant
  <2> QED  BY <2>1, <2>3
<1>3. CASE ~E!AsksToThink(r)
  <2>1. told = E!buildRequest(model, None, r, E!resolveTransport(model, ask.wire))
    BY <1>1, <1>3 DEF Attempted, TellsOf
  <2>2. model \in E!Models
    BY DEF Attempted
  <2> HIDE DEF r
  <2> QED  BY <1>3, <2>1, <2>2, NothingToSay
<1> QED  BY <1>2, <1>3
LEMMA NeighboursIs == E!Neighbours <=> NeighboursOf(model)
BY DEF E!Neighbours, NeighboursOf

LEMMA SilentFields ==
    /\ E!Silent.state = "sent" /\ E!Silent.show = "unsaid" /\ E!Silent.think = "unsaid"
    /\ E!Refused.state = "refused"
BY SilentIs, ToldIs

LEMMA HeededHolds == Attempted => E!Heeded
<1> SUFFICES ASSUME Attempted, E!Sent
             PROVE  IF ~E!Reasons THEN told = E!Silent
                    ELSE E!Neighbours \/ \E wish \in IF model.drops THEN {"none"} ELSE E!Wish :
                            \E level \in E!Understood(told, model) : E!Serves(level, wish, model.spec.levels)
  BY DEF E!Heeded
<1>1. told.state = "sent"
  BY DEF E!Sent
<1>2. CASE ~E!Reasons
  BY <1>1, <1>2, OtherTold, SilentFields
<1>3. CASE E!Reasons /\ ~E!Neighbours
  <2> DEFINE r == E!applyUnsupportedParameterPolicy(model)
  <2>1. Level(r, model.spec) \in E!Understood(told, model) /\ E!Serves(Level(r, model.spec), Wanted(r), model.spec.levels)
    BY <1>1, <1>3, ReasonerTold, NeighboursIs DEF Fitting
  <2>2. Wanted(r) \in IF model.drops THEN {"none"} ELSE E!Wish
    BY AttemptMeans DEF Meant, Wanted
  <2> QED  BY <1>3, <2>1, <2>2
<1> QED  BY <1>2, <1>3

LEMMA DiscreetHolds == Attempted => E!Discreet
<1> SUFFICES ASSUME Attempted, E!Sent, ~model.drops
             PROVE  /\ E!Hides => told.show # "shown"
                    /\ E!Reads /\ told.think = "on" /\ ~E!Neighbours => told.show # "hidden"
  BY DEF E!Discreet
<1>1. told.state = "sent"
  BY DEF E!Sent
<1>2. (E!Hides => Hidden(reasoning)) /\ (E!Reads => Readable(reasoning))
  BY AttemptMeans DEF Meant
<1>3. CASE ~E!Reasons
  BY <1>1, <1>3, OtherTold, SilentFields
<1>4. CASE E!Reasons
  <2>1. Fitting(model, reasoning, E!resolveTransport(model, ask.wire), told)
    BY <1>4, ReasonerTold, AttemptMeans
  <2> QED  BY <1>1, <1>2, <2>1, NeighboursIs DEF Fitting
<1> QED  BY <1>3, <1>4

LEMMA NotRefusedHolds == Attempted => E!NotRefused
<1> SUFFICES ASSUME Attempted
             PROVE  /\ told.state = "refused" => E!OverResponses \/ (~E!Reasons /\ E!Wish # {"none"})
                    /\ told.state = "failed" => E!Unbudgeted
  BY DEF E!NotRefused
<1>1. CASE ~E!Reasons
  BY <1>1, OtherTold, SilentFields
<1>2. CASE E!Reasons
  <2> DEFINE r == E!applyUnsupportedParameterPolicy(model)
  <2>1. Fitting(model, r, E!resolveTransport(model, ask.wire), told)
    BY <1>2, ReasonerTold
  <2> QED  BY <1>2, <2>1 DEF Fitting, Untold, UnbudgetedBy, E!OverResponses, E!Unbudgeted
<1> QED  BY <1>1, <1>2

LEMMA LoggedHolds == Attempted => E!Logged
<1> SUFFICES ASSUME Attempted
             PROVE  /\ (log = None) <=> ~E!Reasons
                    /\ log # None =>
                          /\ log.clamped <=> log.requested \notin {None, log.effective}
                          /\ (log.source = "model_floor") <=> (log.requested = None)
                          /\ log.requested # None => log.requested \in E!Wish
                          /\ E!Sent /\ ~model.drops /\ ~E!Neighbours => log.effective \in E!Understood(told, model)
  BY DEF E!Logged
<1>1. CASE ~E!Reasons
  BY <1>1 DEF Attempted, E!Reasons, E!resolveModelMetadata, E!reasoningLogInfo
<1>2. CASE E!Reasons
  <2> DEFINE requested == IF reasoning = None THEN None ELSE reasoning.effort
             effective == E!resolveReasoning(reasoning, model.spec).effort
             clamped == requested \notin {None, effective}
             source == IF requested = None THEN "model_floor" ELSE IF clamped THEN "clamped" ELSE "client"
  <2>1. model \in E!Models /\ model.spec # None /\ E!resolveModelMetadata(model) = model.spec
    BY <1>2 DEF Attempted, E!Reasons, E!resolveModelMetadata
  <2>2. log = [requested |-> requested, effective |-> effective, clamped |-> clamped, source |-> source]
    BY <2>1 DEF Attempted, E!reasoningLogInfo
  <2>3. reasoning \in E!Canonicals \cup {None} /\ (reasoning # None /\ reasoning.effort # None => reasoning.effort \in E!Wish)
    BY AttemptMeans DEF Meant
  <2>4. requested \in E!Efforts \cup {None} /\ (requested # None => requested \in E!Wish)
    BY <2>3 DEF E!Canonicals, E!Maybe
  <2>5. effective = Level(reasoning, model.spec) /\ effective \in E!Efforts
    BY <2>1, <2>3, SpecIs, EffortResolved
  <2>6. clamped \in BOOLEAN /\ source \in {"model_floor", "clamped", "client"} /\ (source = "model_floor" <=> requested = None)
    OBVIOUS
  <2>7. clamped <=> requested \notin {None, effective}
    OBVIOUS
  <2> HIDE DEF requested, effective, clamped, source
  <2>8. log \in E!LogEntries
    BY <2>2, <2>4, <2>5, <2>6 DEF E!LogEntries, E!Maybe
  <2>9. log # None
    BY <2>8, EffortIs
  <2>10. log.requested = requested /\ log.effective = effective /\ log.clamped = clamped /\ log.source = source
    BY <2>2
  <2>11. E!Sent /\ ~model.drops /\ ~E!Neighbours => effective \in E!Understood(told, model)
    BY <1>2, <2>5, ReasonerTold, AttemptMeans, NeighboursIs DEF Fitting, E!Sent
  <2> QED  BY <1>2, <2>4, <2>6, <2>7, <2>9, <2>10, <2>11
<1> QED  BY <1>1, <1>2

LEMMA EffortHolds == EffortInv => E!EffortKept
<1> SUFFICES ASSUME EffortInv PROVE E!EffortKept
  OBVIOUS
<1>1. CASE Attempted
  <2>1. told.state \in {"sent", "refused", "failed"}
    BY <1>1, ReasonerTold, OtherTold, SilentFields DEF Fitting
  <2>2. E!TypeOK
    BY <1>1, <2>1 DEF Attempted, E!TypeOK
  <2> QED  BY <1>1, <2>2, HeededHolds, DiscreetHolds, NotRefusedHolds, LoggedHolds DEF E!EffortKept
<1>2. CASE ~Attempted
  <2>1. model = E!Nothing /\ (told = None \/ told \in {E!Refused, E!Silent}) /\ ask \in Asked /\ attempts \in 0 .. MaxAttempts
    BY <1>2 DEF EffortInv, Attempted
  <2>2. E!TypeOK
    BY <2>1, SilentFields DEF E!TypeOK
  <2>3. E!Heeded /\ E!Discreet /\ E!NotRefused /\ E!Logged
    BY <2>1 DEF E!Heeded, E!Discreet, E!NotRefused, E!Logged, E!Sent
  <2> QED  BY <2>2, <2>3 DEF E!EffortKept
<1> QED  BY <1>1, <1>2

LEMMA EffortPart == Spec => []EffortInv
<1>1. Init => EffortInv
  BY InitEffort DEF Init
<1>2. EffortInv /\ [Next]_vars => EffortInv'
  <2> SUFFICES ASSUME EffortInv, [Next]_vars PROVE EffortInv'
    OBVIOUS
  <2>1. E!Next \/ UNCHANGED E!vars
    BY DEF Next, Carrying, Conversing, Thinking, Listing, Charging, vars, thought, E!vars
  <2> QED  BY <2>1, EffortStep
<1> QED  BY <1>1, <1>2, PTL DEF Spec

\* Whatever the client asks and whichever models are tried, each provider is told the
\* level that serves the request best, hides what the client hides, and the log agrees.
THEOREM EffortStays == Spec => []EffortKept
<1>1. EffortInv => EffortKept
  BY EffortHolds DEF EffortKept
<1> QED  BY <1>1, EffortPart, PTL
=============================================================================
