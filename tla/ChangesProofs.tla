--------------------------- MODULE ChangesProofs ---------------------------
(***************************************************************************)
(* What is seen of the outside and what is noticed to have changed: the    *)
(* inventory and the drift services, for any number of steps, hosts,       *)
(* plugins and outputs, of checks, requests, changes and failures.         *)
(*                                                                         *)
(* Inventory has two invariants.  RowsFit holds however the steps          *)
(* interleave: every row, and every copy of a row a step holds, has the    *)
(* confidence of its best source, so that a row overwritten by a stale     *)
(* copy has it too.  InTurn says what a step knows when nobody else is     *)
(* under way: what it looked up is still so when it writes.                *)
(*                                                                         *)
(* Drift has two as well.  DriftInv says what the snapshots held by the    *)
(* process and by its checks were taken of, and that an entry of the log   *)
(* tells what the comparison of its facts tells; with the lemmas on what   *)
(* the comparisons tell it gives the theorems on reports.  ChainInv says,  *)
(* for a worker, which entry the next comparison will follow and that the  *)
(* snapshot it will start from, the one held or the one to come, is where  *)
(* that entry ended.                                                       *)
(***************************************************************************)
EXTENDS Inventory, Drift, FiniteSetTheorems, TLAPS

\* What the normalizers give for confidence, and none.
Ratings == {0, 50, 60, 75, 80, 85, 90}

Marks == [confidence: Ratings, seen: Steps \cup {None}]
Rated(x) == x.confidence = Max({x.sources[p].confidence : p \in Plugins})
Row == {x \in [type: AssetTypes, value: Hosts, sources: [Plugins -> Marks],
               confidence: Ratings] : Rated(x)}

NonEmpty(S) == Seq(S) \ {<<>>}

Port(s) == <<step[s].id, Entered(s).port>>

\* Where a step is, against what it has to do and what it has read.
StepFits(s) ==
    LET r == step[s]
    IN  /\ DOMAIN r = {"pc", "todo", "id", "read"}
        /\ r.pc \in PCs
        /\ r.pc \in {"asset", "write", "log"} => r.todo \in NonEmpty(Reported)
        /\ r.pc \in {"host", "port"} => r.todo \in NonEmpty(OpenPort)
        /\ r.pc \in {"address", "attach", "note"} => r.todo \in NonEmpty(Detected)
        /\ r.pc = "log" \/ (r.pc = "write" /\ r.id # 0) =>
              /\ r.id \in AssetIds
              /\ r.read \in Row
              /\ SameFingerprint(r.read, assets[r.id])
        /\ r.pc = "attach" => r.read \in Service \cup {NoService}
        /\ r.pc = "note" \/ (r.pc = "attach" /\ r.read # NoService) =>
              Port(s) \in DOMAIN services

RowsFit ==
    /\ assets \in Seq(Row)
    /\ DOMAIN step = Steps
    /\ \A s \in Steps : StepFits(s)

\* What the rows and their histories owe each other.
LogsFit ==
    /\ assetHistory \in Seq(Seq(SUBSET Plugins))
    /\ Len(assetHistory) = Len(assets)
    /\ services \in [DOMAIN services -> Service]
    /\ serviceLog \in [DOMAIN serviceLog -> Seq(Versions)]
    /\ DOMAIN serviceLog \subseteq DOMAIN services
    /\ \A p \in DOMAIN serviceLog : serviceLog[p] # <<>>

Resting(s) == step[s].pc \in {"idle", "done", "ambiguous", "failed"}

\* What a step that is alone under way knows.
Knows(s) ==
    /\ At(s, "write") /\ step[s].id = 0 =>
          \A a \in AssetIds : ~SameFingerprint(assets[a], Entered(s))
    /\ At(s, "write") /\ step[s].id # 0 => step[s].read = assets[step[s].id]
    /\ At(s, "log") =>
          Named(step[s].read.sources) \subseteq Named(assets[step[s].id].sources)
    /\ At(s, "attach") => step[s].read = ServiceOn(Port(s))
    /\ At(s, "note") => /\ Port(s) \in DOMAIN services
                        /\ services[Port(s)].version = Entered(s).version

InTurn ==
    oneByOne =>
      /\ \A s, t \in Steps : s # t => Resting(s) \/ Resting(t)
      /\ \A s \in Steps : Knows(s)
      /\ \A a, b \in AssetIds : a # b => ~SameFingerprint(assets[a], assets[b])
      /\ \A a \in AssetIds : \A k \in DOMAIN assetHistory[a] :
            assetHistory[a][k] \subseteq Named(assets[a].sources)
      /\ \A p \in DOMAIN serviceLog : Last(serviceLog[p]) = services[p].version

InventoryInv == RowsFit /\ LogsFit /\ InTurn

--------------------------------------------------------------------------------
(* The highest of some confidences.                                         *)

LEMMA HighestLevel ==
  ASSUME NEW S \in SUBSET Ratings, S # {}
  PROVE  Max(S) \in S /\ \A y \in S : Max(S) >= y
<1>1. \E x \in S : \A y \in S : x >= y
  <2>1. CASE 90 \in S
    BY <2>1 DEF Ratings
  <2>2. CASE 90 \notin S /\ 85 \in S
    BY <2>2 DEF Ratings
  <2>3. CASE 90 \notin S /\ 85 \notin S /\ 80 \in S
    BY <2>3 DEF Ratings
  <2>4. CASE S \subseteq {0, 50, 60, 75} /\ 75 \in S
    BY <2>4
  <2>5. CASE S \subseteq {0, 50, 60} /\ 60 \in S
    BY <2>5
  <2>6. CASE S \subseteq {0, 50} /\ 50 \in S
    BY <2>6
  <2>7. CASE S \subseteq {0}
    <3>1. S = {0}
      BY <2>7
    <3> QED
      BY <3>1
  <2> QED
    BY <2>1, <2>2, <2>3, <2>4, <2>5, <2>6, <2>7 DEF Ratings
<1> QED
  BY <1>1 DEF Max

\* The plugins that saw nothing change nothing of it.
LEMMA HighestNamed ==
  ASSUME NEW sources \in [Plugins -> Marks], Named(sources) # {}
  PROVE  /\ Max({sources[p].confidence : p \in Named(sources)}) \in Ratings
         /\ Max({sources[p].confidence : p \in Named(sources)})
              = Max({sources[p].confidence : p \in Plugins})
<1> DEFINE A == {sources[p].confidence : p \in Named(sources)}
           B == {sources[p].confidence : p \in Plugins}
<1>1. A \in SUBSET Ratings /\ A # {} /\ B \in SUBSET Ratings /\ B # {} /\ A \subseteq B
  BY DEF Named, Marks
<1>2. \A y \in B : y \in A \/ y = 0
  BY DEF Named, NoSource
<1>3. Max(A) \in A /\ \A y \in A : Max(A) >= y
  BY <1>1, HighestLevel
<1>4. Max(B) \in B /\ \A y \in B : Max(B) >= y
  BY <1>1, HighestLevel
<1> HIDE DEF A, B
<1>5. Max(A) \in Ratings /\ Max(B) \in Ratings /\ Max(B) >= Max(A)
  BY <1>1, <1>3, <1>4
<1>6. Max(A) >= Max(B)
  BY <1>2, <1>3, <1>4, <1>5 DEF Ratings
<1> QED
  BY <1>5, <1>6 DEF Ratings, A, B

LEMMA ReportedConfidence ==
  ASSUME NEW x \in Reported
  PROVE  Confidence(x.plugin, x.type) \in Ratings \ {0}
BY DEF Reported, Sighting, Confidence, Ratings

\* The sources of a row after a sighting, and its confidence.
LEMMA MergedSources ==
  ASSUME NEW old \in [Plugins -> Marks], NEW x \in Reported, NEW s \in Steps
  PROVE  /\ Merged(old, x, s) \in [Plugins -> Marks]
         /\ Named(Merged(old, x, s)) = Named(old) \cup {x.plugin}
         /\ Highest(Merged(old, x, s), x) \in Ratings
         /\ Highest(Merged(old, x, s), x)
              = Max({Merged(old, x, s)[p].confidence : p \in Plugins})
<1> DEFINE new == Merged(old, x, s)
<1>1. x.plugin \in Plugins /\ Confidence(x.plugin, x.type) \in Ratings \ {0}
  BY ReportedConfidence DEF Reported, Sighting
<1>2. new \in [Plugins -> Marks]
  BY <1>1 DEF Merged, Marks
<1>3. \A p \in Plugins : p # x.plugin => new[p] = old[p]
  BY DEF Merged
<1>4. new[x.plugin] = [confidence |-> Confidence(x.plugin, x.type), seen |-> s]
  BY <1>1 DEF Merged
<1>5. new[x.plugin] # NoSource
  BY <1>1, <1>4 DEF NoSource
<1>6. Named(new) = Named(old) \cup {x.plugin}
  BY <1>1, <1>3, <1>5 DEF Named
<1> HIDE DEF new
<1>7. Named(new) # {}
  BY <1>6
<1> QED
  BY <1>2, <1>6, <1>7, HighestNamed DEF Highest, new

\* A lookup that one row at most answers finds that row.
LEMMA OneAnswers ==
  ASSUME NEW n \in Nat, NEW S \in SUBSET (1..n), ~(Cardinality(S) > 1), S # {}
  PROVE  S = {Max(S)} /\ Max(S) \in S
<1>1. IsFiniteSet(S)
  <2>1. IsFiniteSet(1..n)
    BY FS_Interval
  <2> QED
    BY <2>1, FS_Subset
<1>2. Cardinality(S) \in Nat /\ Cardinality(S) # 0
  BY <1>1, FS_CardinalityType, FS_EmptySet
<1>3. PICK x : S = {x}
  BY <1>1, <1>2, FS_Singleton
<1> QED
  BY <1>3 DEF Max

--------------------------------------------------------------------------------
(* What a step of one session leaves alone.                                 *)

Fields == {"pc", "todo", "id", "read"}
OthersStay(s) == DOMAIN step' = Steps /\ \A t \in Steps \ {s} : step'[t] = step[t]
Acts(s) == MayBegin(s) \/ ~Resting(s)
RowsStay == UNCHANGED <<assets, assetHistory, services, serviceLog, oneByOne>>

LEMMA RowsFrame ==
  ASSUME RowsFit, NEW s \in Steps, OthersStay(s), StepFits(s)',
         assets' \in Seq(Row), Len(assets) <= Len(assets'),
         \A a \in AssetIds : SameFingerprint(assets'[a], assets[a]),
         DOMAIN services \subseteq DOMAIN services'
  PROVE  RowsFit'
<1>1. ASSUME NEW t \in Steps \ {s} PROVE StepFits(t)'
  <2>1. step'[t] = step[t] /\ StepFits(t) /\ AssetIds \subseteq AssetIds'
    BY DEF RowsFit, OthersStay, AssetIds
  <2>2. ASSUME step[t].pc = "log" \/ (step[t].pc = "write" /\ step[t].id # 0)
        PROVE  /\ step[t].id \in AssetIds' /\ step[t].read \in Row
               /\ SameFingerprint(step[t].read, assets'[step[t].id])
    BY <2>1, <2>2 DEF StepFits, SameFingerprint
  <2>3. Port(t)' = Port(t)
    BY <2>1 DEF Port, Entered
  <2> QED
    BY <2>1, <2>2, <2>3 DEF StepFits
<1> QED
  BY <1>1 DEF RowsFit, OthersStay

\* In turn, the others rest.
LEMMA OthersRest ==
  ASSUME InTurn, oneByOne, NEW s \in Steps, Acts(s), NEW t \in Steps \ {s}
  PROVE  Resting(t)
BY DEF InTurn, Acts, MayBegin, Resting, At, Ended

\* The parts of InTurn that speak of rows and histories only.
RowsInTurn ==
    /\ \A a, b \in AssetIds : a # b => ~SameFingerprint(assets[a], assets[b])
    /\ \A a \in AssetIds : \A k \in DOMAIN assetHistory[a] :
          assetHistory[a][k] \subseteq Named(assets[a].sources)
    /\ \A p \in DOMAIN serviceLog : Last(serviceLog[p]) = services[p].version

LEMMA TurnFrame ==
  ASSUME InTurn, NEW s \in Steps, Acts(s), OthersStay(s), oneByOne' = oneByOne,
         oneByOne => Knows(s)' /\ RowsInTurn'
  PROVE  InTurn'
<1> SUFFICES ASSUME oneByOne PROVE InTurn'
  BY DEF InTurn
<1>1. \A t \in Steps \ {s} : Resting(t) /\ Resting(t)'
  BY OthersRest DEF OthersStay, Resting
<1>2. \A t \in Steps \ {s} : Knows(t)'
  BY <1>1 DEF Knows, Resting, At
<1>3. \A t, u \in Steps : t # u => Resting(t)' \/ Resting(u)'
  BY <1>1
<1> QED
  BY <1>2, <1>3 DEF InTurn, RowsInTurn

LEMMA OnlyStep ==
  ASSUME InventoryInv, NEW s \in Steps, Acts(s), OthersStay(s), RowsStay,
         StepFits(s)', oneByOne => Knows(s)'
  PROVE  InventoryInv'
<1>1. RowsFit'
  BY RowsFrame DEF InventoryInv, RowsStay, RowsFit, SameFingerprint
<1>2. LogsFit'
  BY DEF InventoryInv, RowsStay, LogsFit
<1>3. oneByOne => RowsInTurn'
  BY DEF InventoryInv, InTurn, RowsInTurn, RowsStay, AssetIds
<1>4. InTurn'
  BY <1>3, TurnFrame DEF InventoryInv, RowsStay
<1> QED
  BY <1>1, <1>2, <1>4 DEF InventoryInv

\* A step that stops, or goes where nothing is asked of it.
LEMMA Stops ==
  ASSUME InventoryInv, NEW s \in Steps, ~Resting(s), RowsStay,
         NEW pc \in {"ambiguous", "failed"}, Go(s, pc)
  PROVE  InventoryInv'
<1>1. OthersStay(s) /\ step'[s] = [step[s] EXCEPT !.pc = pc] /\ StepFits(s)
  BY DEF InventoryInv, RowsFit, OthersStay, Go
<1>2. StepFits(s)'
  BY <1>1 DEF StepFits, PCs
<1>3. Knows(s)'
  BY <1>1 DEF Knows, At, StepFits
<1> QED
  BY <1>1, <1>2, <1>3, OnlyStep DEF Acts

LEMMA TailFact ==
  ASSUME NEW T, NEW q \in Seq(T), q # <<>>
  PROVE  Tail(q) \in Seq(T) /\ (Len(q) # 1 => Tail(q) # <<>>)
<1>1. Tail(q) \in Seq(T) /\ Len(Tail(q)) = Len(q) - 1 /\ Len(q) \in Nat
  OBVIOUS
<1>2. Len(q) # 1 => Len(Tail(q)) # 0
  BY <1>1
<1>3. Len(<<>>) = 0
  OBVIOUS
<1> QED
  BY <1>1, <1>2, <1>3, Zenon

LEMMA Advanced ==
  ASSUME InventoryInv, NEW s \in Steps, NEW pc, NEW T, step[s].todo \in NonEmpty(T),
         Advance(s, pc)
  PROVE  /\ OthersStay(s)
         /\ DOMAIN step'[s] = Fields
         /\ \/ step'[s].pc = "done"
            \/ step'[s].pc = pc /\ step'[s].todo \in NonEmpty(T)
<1> DEFINE rest == Tail(step[s].todo)
<1>1. DOMAIN step = Steps
  BY DEF InventoryInv, RowsFit
<1>2. step'[s] = [AtStart EXCEPT !.todo = rest,
                                 !.pc = IF Len(step[s].todo) = 1 THEN "done" ELSE pc]
  BY <1>1 DEF Advance
<1>3. rest \in Seq(T) /\ (Len(step[s].todo) # 1 => rest # <<>>)
  BY TailFact DEF NonEmpty
<1>4. OthersStay(s)
  BY <1>1 DEF OthersStay, Advance
<1> HIDE DEF rest
<1>5. /\ DOMAIN step'[s] = Fields /\ step'[s].todo = rest
      /\ step'[s].pc = IF Len(step[s].todo) = 1 THEN "done" ELSE pc
  BY <1>2 DEF AtStart, Fields
<1> QED
  BY <1>3, <1>4, <1>5 DEF NonEmpty

\* The next entry begins with nothing known.
Firsts == {"asset", "host", "address"}
OutputOf(pc) == CASE pc = "asset" -> Reported [] pc = "host" -> OpenPort [] pc = "address" -> Detected

LEMMA AdvancedFits ==
  ASSUME InventoryInv, NEW s \in Steps, NEW pc \in Firsts,
         step[s].todo \in NonEmpty(OutputOf(pc)), Advance(s, pc)
  PROVE  OthersStay(s) /\ StepFits(s)' /\ Knows(s)'
<1>1. /\ OthersStay(s) /\ DOMAIN step'[s] = Fields
      /\ \/ step'[s].pc = "done"
         \/ step'[s].pc = pc /\ step'[s].todo \in NonEmpty(OutputOf(pc))
  BY Advanced
<1>2. StepFits(s)'
  BY <1>1 DEF StepFits, Fields, Firsts, OutputOf, PCs
<1>3. Knows(s)'
  BY <1>1 DEF Knows, At, Firsts
<1> QED
  BY <1>1, <1>2, <1>3

LEMMA Begins ==
  ASSUME InventoryInv, NEW s \in Steps, NEW pc \in Firsts,
         NEW output \in Seq(OutputOf(pc)), Begin(s, pc, output)
  PROVE  InventoryInv'
<1>1. DOMAIN step = Steps /\ MayBegin(s) /\ RowsStay
  BY DEF InventoryInv, RowsFit, Begin, RowsStay
<1>2. /\ OthersStay(s)
      /\ step'[s] = [AtStart EXCEPT !.todo = output,
                                    !.pc = IF output = <<>> THEN "done" ELSE pc]
  BY <1>1 DEF Begin, OthersStay
<1>3. /\ DOMAIN step'[s] = Fields /\ step'[s].todo = output
      /\ step'[s].pc = IF output = <<>> THEN "done" ELSE pc
  BY <1>2 DEF AtStart, Fields
<1>4. StepFits(s)'
  BY <1>3 DEF StepFits, Fields, Firsts, OutputOf, PCs, NonEmpty
<1>5. Knows(s)'
  BY <1>3 DEF Knows, At, Firsts
<1> QED
  BY <1>1, <1>2, <1>4, <1>5, OnlyStep DEF Acts

--------------------------------------------------------------------------------
(* Discovery.                                                               *)

LEMMA EnteredFits ==
  ASSUME InventoryInv, NEW s \in Steps
  PROVE  /\ DOMAIN step = Steps /\ StepFits(s) /\ assets \in Seq(Row)
         /\ step[s].pc \in {"asset", "write", "log"} => Entered(s) \in Reported
         /\ step[s].pc \in {"host", "port"} => Entered(s) \in OpenPort
         /\ step[s].pc \in {"address", "attach", "note"} => Entered(s) \in Detected
         /\ oneByOne => Knows(s) /\ RowsInTurn
<1>1. \A T : step[s].todo \in NonEmpty(T) => Entered(s) \in T
  BY DEF NonEmpty, Entered
<1> QED
  BY <1>1 DEF InventoryInv, RowsFit, StepFits, InTurn, RowsInTurn

LEMMA SelectStep ==
  ASSUME InventoryInv, NEW s \in Steps, SelectAsset(s)
  PROVE  InventoryInv'
<1> DEFINE found == WithFingerprint(Entered(s))
<1>0. /\ DOMAIN step = Steps /\ StepFits(s) /\ assets \in Seq(Row)
      /\ step[s].pc = "asset" /\ ~Resting(s)
  BY EnteredFits DEF SelectAsset, At, Resting
<1>1. found \in SUBSET (1..Len(assets))
  BY DEF WithFingerprint, AssetIds
<1>2. CASE Cardinality(found) > 1
  BY <1>0, <1>2, Stops DEF SelectAsset, Raise, RowsStay
<1>3. CASE ~(Cardinality(found) > 1)
  <2>1. /\ RowsStay /\ OthersStay(s)
        /\ step'[s] = [step[s] EXCEPT !.pc = "write",
                     !.id = IF found = {} THEN 0 ELSE Max(found),
                     !.read = IF found = {} THEN None ELSE assets[Max(found)]]
    BY <1>0, <1>3 DEF SelectAsset, RowsStay, OthersStay
  <2>2. DOMAIN step'[s] = DOMAIN step[s] /\ step'[s].todo = step[s].todo
        /\ step'[s].pc = "write"
        /\ step'[s].id = (IF found = {} THEN 0 ELSE Max(found))
        /\ step'[s].read = (IF found = {} THEN None ELSE assets[Max(found)])
    BY <1>0, <2>1 DEF StepFits
  <2>3. CASE found = {}
    <3>1. StepFits(s)'
      BY <1>0, <2>2, <2>3 DEF StepFits, PCs
    <3>2. Knows(s)'
      BY <2>1, <2>2, <2>3 DEF Knows, At, WithFingerprint, RowsStay, Entered, AssetIds
    <3> QED
      BY <1>0, <2>1, <3>1, <3>2, OnlyStep DEF Acts
  <2>4. CASE found # {}
    <3>1. Max(found) \in found
      BY <1>0, <1>1, <1>3, <2>4, OneAnswers
    <3>2. Max(found) \in AssetIds /\ Max(found) # 0 /\ assets[Max(found)] \in Row
      BY <1>0, <1>1, <3>1 DEF AssetIds
    <3>3. StepFits(s)'
      BY <1>0, <2>1, <2>2, <2>4, <3>2 DEF StepFits, PCs, RowsStay, AssetIds, SameFingerprint
    <3>4. Knows(s)'
      BY <2>1, <2>2, <2>4, <3>2 DEF Knows, At, RowsStay
    <3> QED
      BY <1>0, <2>1, <3>3, <3>4, OnlyStep DEF Acts
  <2> QED
    BY <2>3, <2>4
<1> QED
  BY <1>2, <1>3

LEMMA InsertStep ==
  ASSUME InventoryInv, NEW s \in Steps, InsertAsset(s)
  PROVE  InventoryInv'
<1> DEFINE x == Entered(s)
           c == Confidence(x.plugin, x.type)
           sources == [p \in Plugins |->
                         IF p = x.plugin THEN [confidence |-> c, seen |-> s] ELSE NoSource]
           new == [type |-> x.type, value |-> x.value, confidence |-> c, sources |-> sources]
           n == Len(assets)
<1>0. /\ DOMAIN step = Steps /\ StepFits(s) /\ assets \in Seq(Row) /\ x \in Reported
      /\ step[s].pc = "write" /\ step[s].id = 0 /\ ~Resting(s)
      /\ oneByOne => Knows(s) /\ RowsInTurn
  BY EnteredFits DEF InsertAsset, At, Resting
<1>1. /\ x.plugin \in Plugins /\ x.type \in AssetTypes /\ x.value \in Hosts
      /\ c \in Ratings \ {0}
  BY <1>0, ReportedConfidence DEF Reported, Sighting
<1>2. new \in Row
  <2> HIDE DEF c
  <2>1. sources \in [Plugins -> Marks] /\ sources[x.plugin].confidence = c
        /\ \A p \in Plugins : sources[p].confidence \in {0, c}
    BY <1>1 DEF Marks, NoSource, Ratings
  <2> DEFINE B == {sources[p].confidence : p \in Plugins}
  <2> HIDE DEF sources
  <2>2. B \in SUBSET Ratings /\ B \subseteq {0, c} /\ c \in B
    BY <1>1, <2>1 DEF Ratings
  <2>3. Max(B) \in B /\ Max(B) >= c
    BY <2>2, HighestLevel
  <2>4. Max(B) = c
    BY <1>1, <2>2, <2>3 DEF Ratings
  <2>5. new.sources = sources /\ new.confidence = c
    OBVIOUS
  <2>6. Rated(new)
    BY <2>4, <2>5 DEF Rated
  <2> QED
    BY <1>1, <2>1, <2>6 DEF Row
<1>3. /\ assets' = Append(assets, new) /\ assetHistory' = Append(assetHistory, <<>>)
      /\ UNCHANGED <<services, serviceLog, oneByOne>>
      /\ OthersStay(s)
      /\ step'[s] = [step[s] EXCEPT !.pc = "log", !.id = n + 1, !.read = new]
  BY <1>0 DEF InsertAsset, OthersStay
<1>4. new.type = x.type /\ new.value = x.value
  OBVIOUS
<1> HIDE DEF new, x
<1>5. /\ DOMAIN step'[s] = DOMAIN step[s] /\ step'[s].todo = step[s].todo
      /\ step'[s].pc = "log" /\ step'[s].id = n + 1 /\ step'[s].read = new
  BY <1>0, <1>3 DEF StepFits
<1>6. /\ assets' \in Seq(Row) /\ n \in Nat /\ Len(assets') = n + 1 /\ assets'[n + 1] = new
      /\ \A a \in AssetIds : assets'[a] = assets[a]
      /\ AssetIds' = AssetIds \cup {n + 1} /\ n + 1 \notin AssetIds
  BY <1>0, <1>2, <1>3 DEF AssetIds
<1>7. StepFits(s)'
  BY <1>0, <1>2, <1>5, <1>6 DEF StepFits, PCs, SameFingerprint
<1>8. RowsFit'
  <2>1. RowsFit /\ DOMAIN services \subseteq DOMAIN services'
    BY <1>3 DEF InventoryInv
  <2>2. Len(assets) <= Len(assets')
    BY <1>6
  <2>3. \A a \in AssetIds : SameFingerprint(assets'[a], assets[a])
    BY <1>6 DEF SameFingerprint
  <2> QED
    BY <1>3, <1>6, <1>7, <2>1, <2>2, <2>3, RowsFrame
<1>9. LogsFit'
  BY <1>3, <1>6 DEF InventoryInv, LogsFit
<1>10. ASSUME oneByOne PROVE Knows(s)' /\ RowsInTurn'
  <2>1. Knows(s)'
    BY <1>5, <1>6 DEF Knows, At
  <2>2. \A a \in AssetIds : ~SameFingerprint(assets[a], x)
    BY <1>0, <1>10 DEF Knows, At, x
  <2>3. \A a, b \in AssetIds' : a # b => ~SameFingerprint(assets[a], assets[b])'
    BY <1>0, <1>4, <1>6, <1>10, <2>2 DEF SameFingerprint, RowsInTurn
  <2>4. DOMAIN assetHistory = AssetIds /\ Len(assetHistory) = n
    BY <1>0 DEF InventoryInv, LogsFit, AssetIds
  <2>5. ASSUME NEW a \in AssetIds', NEW k \in DOMAIN assetHistory'[a]
        PROVE  assetHistory'[a][k] \subseteq Named(assets'[a].sources)
    <3>1. CASE a = n + 1
      BY <1>3, <1>6, <2>4, <2>5, <3>1 DEF InventoryInv, LogsFit
    <3>2. CASE a \in AssetIds
      BY <1>0, <1>3, <1>6, <1>10, <2>4, <2>5, <3>2 DEF InventoryInv, LogsFit, RowsInTurn
    <3> QED
      BY <1>6, <3>1, <3>2
  <2> QED
    BY <1>0, <1>3, <1>10, <2>1, <2>3, <2>5 DEF RowsInTurn
<1> QED
  BY <1>0, <1>3, <1>8, <1>9, <1>10, TurnFrame DEF InventoryInv, Acts

LEMMA UpdateStep ==
  ASSUME InventoryInv, NEW s \in Steps, UpdateAsset(s)
  PROVE  InventoryInv'
<1> DEFINE x == Entered(s)
           i == step[s].id
           old == step[s].read
           sources == Merged(old.sources, x, s)
           new == [old EXCEPT !.sources = sources, !.confidence = Highest(sources, x)]
           written == old.sources[x.plugin] = NoSource \/ new.confidence # old.confidence
<1>0. /\ DOMAIN step = Steps /\ StepFits(s) /\ assets \in Seq(Row) /\ x \in Reported
      /\ step[s].pc = "write" /\ i # 0 /\ ~Resting(s)
      /\ oneByOne => Knows(s) /\ RowsInTurn
  BY EnteredFits DEF UpdateAsset, At, Resting
<1>1. old \in Row /\ i \in AssetIds /\ SameFingerprint(old, assets[i])
  BY <1>0 DEF StepFits
<1>2. /\ sources \in [Plugins -> Marks]
      /\ Named(sources) = Named(old.sources) \cup {x.plugin}
      /\ Highest(sources, x) \in Ratings
      /\ Highest(sources, x) = Max({sources[p].confidence : p \in Plugins})
  <2>1. old.sources \in [Plugins -> Marks]
    BY <1>1 DEF Row
  <2> QED
    BY <1>0, <2>1, MergedSources
<1>3. /\ assets' = IF written THEN [assets EXCEPT ![i] = new] ELSE assets
      /\ OthersStay(s)
      /\ step'[s] = [step[s] EXCEPT !.pc = "log", !.read = new]
      /\ UNCHANGED <<assetHistory, services, serviceLog, oneByOne>>
  BY <1>0 DEF UpdateAsset, OthersStay
<1> HIDE DEF sources
<1>4. /\ new \in Row /\ new.sources = sources /\ SameFingerprint(new, old)
  <2>1. /\ new.sources = sources /\ new.confidence = Highest(sources, x)
        /\ new.type = old.type /\ new.value = old.value
        /\ new \in [type: AssetTypes, value: Hosts, sources: [Plugins -> Marks],
                    confidence: Ratings]
    BY <1>1, <1>2 DEF Row
  <2> QED
    BY <1>2, <2>1 DEF Row, Rated, SameFingerprint
<1>5. ~written => x.plugin \in Named(old.sources)
  BY <1>0 DEF Named, Reported, Sighting
<1> HIDE DEF new, written
<1>6. /\ DOMAIN step'[s] = DOMAIN step[s] /\ step'[s].todo = step[s].todo
      /\ step'[s].pc = "log" /\ step'[s].id = i /\ step'[s].read = new
  BY <1>0, <1>3 DEF StepFits
<1>7. /\ assets' \in Seq(Row) /\ Len(assets') = Len(assets) /\ AssetIds' = AssetIds
      /\ \A a \in AssetIds : assets'[a] = IF written /\ a = i THEN new ELSE assets[a]
  BY <1>0, <1>1, <1>3, <1>4 DEF AssetIds
<1>8. \A a \in AssetIds : SameFingerprint(assets'[a], assets[a])
  BY <1>1, <1>4, <1>7 DEF SameFingerprint
<1>9. StepFits(s)'
  BY <1>0, <1>1, <1>4, <1>6, <1>7, <1>8 DEF StepFits, PCs, SameFingerprint
<1>10. RowsFit'
  BY <1>0, <1>3, <1>7, <1>8, <1>9, RowsFrame DEF InventoryInv
<1>11. LogsFit'
  BY <1>3, <1>7 DEF InventoryInv, LogsFit
<1>12. ASSUME oneByOne PROVE Knows(s)' /\ RowsInTurn'
  <2>1. old = assets[i]
    BY <1>0, <1>12 DEF Knows, At
  <2>2. Named(sources) \subseteq Named(assets'[i].sources)
    BY <1>1, <1>2, <1>4, <1>5, <1>7, <2>1
  <2>3. Knows(s)'
    BY <1>4, <1>6, <2>2 DEF Knows, At
  <2>4. \A a \in AssetIds : Named(assets[a].sources) \subseteq Named(assets'[a].sources)
    BY <1>2, <1>7, <2>1, <2>2
  <2>5. RowsInTurn'
    BY <1>0, <1>3, <1>7, <1>8, <1>12, <2>4 DEF RowsInTurn, SameFingerprint
  <2> QED
    BY <2>3, <2>5
<1> QED
  BY <1>0, <1>3, <1>10, <1>11, <1>12, TurnFrame DEF InventoryInv, Acts

LEMMA LogStep ==
  ASSUME InventoryInv, NEW s \in Steps, LogAsset(s)
  PROVE  InventoryInv'
<1> DEFINE i == step[s].id
           entry == Named(step[s].read.sources)
<1>0. /\ DOMAIN step = Steps /\ StepFits(s) /\ step[s].pc = "log" /\ ~Resting(s)
      /\ step[s].todo \in NonEmpty(Reported) /\ i \in AssetIds
      /\ oneByOne => Knows(s) /\ RowsInTurn
  BY EnteredFits DEF LogAsset, At, Resting, StepFits
<1>1. /\ assetHistory' = [assetHistory EXCEPT ![i] = Append(@, entry)]
      /\ Advance(s, "asset")
      /\ UNCHANGED <<assets, services, serviceLog, oneByOne>>
  BY DEF LogAsset
<1>2. OthersStay(s) /\ StepFits(s)' /\ Knows(s)'
  BY <1>0, <1>1, AdvancedFits DEF Firsts, OutputOf
<1>3. RowsFit'
  BY <1>1, <1>2, RowsFrame DEF InventoryInv, RowsFit, SameFingerprint
<1>4. entry \in SUBSET Plugins
  BY DEF Named
<1> HIDE DEF entry
<1>5. /\ DOMAIN assetHistory = AssetIds /\ assetHistory \in Seq(Seq(SUBSET Plugins))
      /\ assetHistory[i] \in Seq(SUBSET Plugins)
  BY <1>0 DEF InventoryInv, LogsFit, AssetIds
<1>6. /\ assetHistory' \in Seq(Seq(SUBSET Plugins)) /\ Len(assetHistory') = Len(assetHistory)
      /\ \A a \in AssetIds : a # i => assetHistory'[a] = assetHistory[a]
      /\ assetHistory'[i] = Append(assetHistory[i], entry)
  <2>1. Append(assetHistory[i], entry) \in Seq(SUBSET Plugins)
    BY <1>4, <1>5
  <2> QED
    BY <1>0, <1>1, <1>5, <2>1
<1>7. LogsFit'
  BY <1>1, <1>6 DEF InventoryInv, LogsFit
<1>8. ASSUME oneByOne PROVE RowsInTurn'
  <2>1. ASSUME NEW a \in AssetIds, NEW k \in DOMAIN assetHistory'[a]
        PROVE  assetHistory'[a][k] \subseteq Named(assets[a].sources)
    <3>1. CASE a # i
      BY <1>0, <1>6, <1>8, <2>1, <3>1 DEF RowsInTurn
    <3>0. \A n \in DOMAIN Append(assetHistory[i], entry) :
            \/ n \in DOMAIN assetHistory[i]
               /\ Append(assetHistory[i], entry)[n] = assetHistory[i][n]
            \/ Append(assetHistory[i], entry)[n] = entry
      BY <1>4, <1>5
    <3>2. CASE a = i /\ k \in DOMAIN assetHistory[i]
                    /\ assetHistory'[a][k] = assetHistory[i][k]
      BY <1>0, <1>8, <3>2 DEF RowsInTurn
    <3>3. CASE a = i /\ assetHistory'[a][k] = entry
      <4>1. assetHistory'[a][k] = entry
        BY <3>3
      <4> QED
        BY <1>0, <1>8, <3>3, <4>1 DEF Knows, At, entry
    <3> QED
      BY <1>6, <2>1, <3>0, <3>1, <3>2, <3>3
  <2> QED
    BY <1>0, <1>1, <1>8, <2>1 DEF RowsInTurn, AssetIds
<1> QED
  BY <1>0, <1>1, <1>2, <1>3, <1>7, <1>8, TurnFrame DEF InventoryInv, Acts

--------------------------------------------------------------------------------
(* Ports and services.                                                      *)

LEMMA HostStep ==
  ASSUME InventoryInv, NEW s \in Steps, FindHost(s)
  PROVE  InventoryInv'
<1> DEFINE found == Answering(Entered(s).host)
<1>0. /\ DOMAIN step = Steps /\ StepFits(s) /\ step[s].pc = "host" /\ ~Resting(s)
      /\ step[s].todo \in NonEmpty(OpenPort)
  BY EnteredFits DEF FindHost, At, Resting, StepFits
<1>1. CASE Cardinality(found) > 1
  <2>1. Raise(s)
    BY <1>1 DEF FindHost
  <2> QED
    BY <1>0, <2>1, Stops DEF Raise, RowsStay
<1>2. CASE Advance(s, "host") /\ RowsStay
  <2>1. OthersStay(s) /\ StepFits(s)' /\ Knows(s)'
    BY <1>0, <1>2, AdvancedFits DEF Firsts, OutputOf
  <2> QED
    BY <1>0, <1>2, <2>1, OnlyStep DEF Acts
<1>3. CASE /\ step' = [step EXCEPT ![s].pc = "port", ![s].id = Max(found)]
           /\ RowsStay
  <2>1. /\ OthersStay(s) /\ DOMAIN step'[s] = DOMAIN step[s]
        /\ step'[s].pc = "port" /\ step'[s].todo = step[s].todo
    BY <1>0, <1>3 DEF OthersStay, StepFits
  <2>2. StepFits(s)' /\ Knows(s)'
    BY <1>0, <2>1 DEF StepFits, PCs, Knows, At
  <2> QED
    BY <1>0, <1>3, <2>1, <2>2, OnlyStep DEF Acts
<1> HIDE DEF found
<1>4. \/ Cardinality(found) > 1
      \/ Advance(s, "host") /\ RowsStay
      \/ step' = [step EXCEPT ![s].pc = "port", ![s].id = Max(found)] /\ RowsStay
  BY DEF FindHost, RowsStay, found
<1> QED
  BY <1>1, <1>2, <1>3, <1>4

LEMMA PortSaved ==
  ASSUME InventoryInv, NEW s \in Steps, SavePort(s)
  PROVE  InventoryInv'
<1>0. step[s].pc = "port" /\ ~Resting(s) /\ step[s].todo \in NonEmpty(OpenPort)
  BY EnteredFits DEF SavePort, At, Resting, StepFits
<1>1. OthersStay(s) /\ StepFits(s)' /\ Knows(s)'
  BY <1>0, AdvancedFits DEF SavePort, Firsts, OutputOf
<1> QED
  BY <1>0, <1>1, OnlyStep DEF SavePort, RowsStay, Acts

LEMMA AddressStep ==
  ASSUME InventoryInv, NEW s \in Steps, FindAddress(s)
  PROVE  InventoryInv'
<1>0. /\ DOMAIN step = Steps /\ StepFits(s) /\ step[s].pc = "address" /\ ~Resting(s)
      /\ step[s].todo \in NonEmpty(Detected)
  BY EnteredFits DEF FindAddress, At, Resting, StepFits
<1>1. CASE Raise(s)
  BY <1>0, <1>1, Stops DEF Raise, RowsStay
<1>2. CASE Advance(s, "address") /\ RowsStay
  <2>1. OthersStay(s) /\ StepFits(s)' /\ Knows(s)'
    BY <1>0, <1>2, AdvancedFits DEF Firsts, OutputOf
  <2> QED
    BY <1>0, <1>2, <2>1, OnlyStep DEF Acts
<1>3. ASSUME NEW a,
             step' = [step EXCEPT ![s].pc = "attach", ![s].id = a,
                                  ![s].read = ServiceOn(<<a, Entered(s).port>>)],
             RowsStay
      PROVE  InventoryInv'
  <2> DEFINE p == <<a, Entered(s).port>>
  <2>1. /\ OthersStay(s) /\ DOMAIN step'[s] = DOMAIN step[s]
        /\ step'[s].pc = "attach" /\ step'[s].todo = step[s].todo
        /\ step'[s].id = a /\ step'[s].read = ServiceOn(p)
    BY <1>0, <1>3 DEF OthersStay, StepFits
  <2>2. Port(s)' = p
    BY <2>1 DEF Port, Entered
  <2>5. ServiceOn(Port(s))' = ServiceOn(p) /\ services' = services
    BY <1>3, <2>2 DEF RowsStay, ServiceOn
  <2> HIDE DEF p
  <2>3. /\ ServiceOn(p) \in Service \cup {NoService}
        /\ ServiceOn(p) # NoService => p \in DOMAIN services
    BY DEF InventoryInv, LogsFit, ServiceOn
  <2>4. StepFits(s)'
    BY <1>0, <2>1, <2>2, <2>3, <2>5 DEF StepFits, PCs
  <2>6. Knows(s)'
    BY <2>1, <2>5 DEF Knows, At
  <2> QED
    BY <1>0, <1>3, <2>1, <2>4, <2>6, OnlyStep DEF Acts
<1>4. \/ Raise(s)
      \/ Advance(s, "address") /\ RowsStay
      \/ \E a : /\ step' = [step EXCEPT ![s].pc = "attach", ![s].id = a,
                                 ![s].read = ServiceOn(<<a, Entered(s).port>>)]
               /\ RowsStay
  BY Zenon DEF FindAddress, RowsStay
<1> QED
  BY <1>1, <1>2, <1>3, <1>4

LEMMA InsertServiceStep ==
  ASSUME InventoryInv, NEW s \in Steps, InsertService(s)
  PROVE  InventoryInv'
<1> DEFINE p == Port(s)
           new == [version |-> Entered(s).version,
                   confidence |-> ServiceConfidence(Entered(s).version)]
<1>0. /\ DOMAIN step = Steps /\ StepFits(s) /\ Entered(s) \in Detected
      /\ step[s].pc = "attach" /\ ~Resting(s)
      /\ oneByOne => Knows(s) /\ RowsInTurn
  BY EnteredFits DEF InsertService, At, Resting
<1>1. /\ ServiceOn(p) = NoService /\ services' = Put(services, p, new) /\ Go(s, "note")
      /\ UNCHANGED <<assets, assetHistory, serviceLog, oneByOne>>
  BY DEF InsertService, Port
<1>2. new \in Service /\ new.version = Entered(s).version
  BY <1>0 DEF Detected, Service, ServiceConfidence
<1>3. p \notin DOMAIN services
  BY <1>1 DEF InventoryInv, LogsFit, ServiceOn, Service, NoService
<1>4. /\ OthersStay(s) /\ DOMAIN step'[s] = DOMAIN step[s] /\ step'[s].pc = "note"
      /\ step'[s].todo = step[s].todo /\ step'[s].id = step[s].id
  BY <1>0, <1>1 DEF Go, OthersStay, StepFits
<1>5. Port(s)' = p /\ Entered(s)' = Entered(s)
  BY <1>4 DEF Port, Entered
<1> HIDE DEF p, new
<1>6. /\ DOMAIN services' = DOMAIN services \cup {p} /\ services'[p] = new
      /\ services' \in [DOMAIN services' -> Service]
      /\ \A q \in DOMAIN services : services'[q] = services[q]
  BY <1>1, <1>2, <1>3 DEF Put, InventoryInv, LogsFit
<1>7. StepFits(s)' /\ Knows(s)'
  BY <1>0, <1>2, <1>4, <1>5, <1>6 DEF StepFits, PCs, Knows, At
<1>8. RowsFit'
  BY <1>0, <1>1, <1>4, <1>6, <1>7, RowsFrame DEF InventoryInv, RowsFit, SameFingerprint
<1>9. LogsFit'
  BY <1>1, <1>6 DEF InventoryInv, LogsFit
<1>10. oneByOne => RowsInTurn'
  BY <1>0, <1>1, <1>6 DEF InventoryInv, LogsFit, RowsInTurn, AssetIds
<1> QED
  BY <1>0, <1>1, <1>4, <1>7, <1>8, <1>9, <1>10, TurnFrame DEF InventoryInv, Acts

\* What a history row does to the log of a service that exists.
LEMMA LogPut ==
  ASSUME LogsFit, NEW p \in DOMAIN services, NEW version \in Versions
  PROVE  LET after == Put(serviceLog, p, Append(LogOf(p), version))
         IN  /\ after \in [DOMAIN after -> Seq(Versions)]
             /\ DOMAIN after \subseteq DOMAIN services
             /\ \A q \in DOMAIN after : after[q] # <<>>
             /\ Last(after[p]) = version
             /\ \A q \in DOMAIN after : q = p \/ (q \in DOMAIN serviceLog /\ after[q] = serviceLog[q])
<1> DEFINE entries == Append(LogOf(p), version)
           after == Put(serviceLog, p, entries)
<1>1. LogOf(p) \in Seq(Versions)
  BY DEF LogsFit, LogOf
<1>2. entries \in Seq(Versions) /\ entries # <<>> /\ Last(entries) = version
  BY <1>1 DEF Last
<1> HIDE DEF entries
<1>3. /\ DOMAIN after = DOMAIN serviceLog \cup {p} /\ after[p] = entries
      /\ after = [q \in DOMAIN after |-> after[q]]
      /\ \A q \in DOMAIN after : q = p \/ (q \in DOMAIN serviceLog /\ after[q] = serviceLog[q])
  BY DEF Put
<1> HIDE DEF after
<1>4. after \in [DOMAIN after -> Seq(Versions)] /\ \A q \in DOMAIN after : after[q] # <<>>
  BY <1>2, <1>3 DEF LogsFit
<1>5. DOMAIN after \subseteq DOMAIN services
  BY <1>3 DEF LogsFit
<1> QED
  BY <1>2, <1>3, <1>4, <1>5 DEF after, entries

LEMMA NoteStep ==
  ASSUME InventoryInv, NEW s \in Steps, NoteService(s)
  PROVE  InventoryInv'
<1> DEFINE p == Port(s)
           version == Entered(s).version
<1>0. /\ StepFits(s) /\ Entered(s) \in Detected /\ step[s].todo \in NonEmpty(Detected)
      /\ step[s].pc = "note" /\ ~Resting(s) /\ p \in DOMAIN services
      /\ oneByOne => Knows(s) /\ RowsInTurn
  BY EnteredFits DEF NoteService, At, Resting, StepFits
<1>1. /\ serviceLog' = Put(serviceLog, p, Append(LogOf(p), version))
      /\ Advance(s, "address") /\ UNCHANGED <<assets, assetHistory, services, oneByOne>>
  BY DEF NoteService, Port
<1>2. OthersStay(s) /\ StepFits(s)' /\ Knows(s)'
  BY <1>0, <1>1, AdvancedFits DEF Firsts, OutputOf
<1>3. RowsFit'
  BY <1>1, <1>2, RowsFrame DEF InventoryInv, RowsFit, SameFingerprint
<1>4. version \in Versions
  BY <1>0 DEF Detected
<1> HIDE DEF p, version
<1>5. /\ serviceLog' \in [DOMAIN serviceLog' -> Seq(Versions)]
      /\ DOMAIN serviceLog' \subseteq DOMAIN services
      /\ \A q \in DOMAIN serviceLog' : serviceLog'[q] # <<>>
      /\ Last(serviceLog'[p]) = version
      /\ \A q \in DOMAIN serviceLog' :
            q = p \/ (q \in DOMAIN serviceLog /\ serviceLog'[q] = serviceLog[q])
  BY <1>0, <1>1, <1>4, LogPut DEF InventoryInv
<1>6. LogsFit'
  BY <1>1, <1>5 DEF InventoryInv, LogsFit
<1>7. oneByOne => services[p].version = version
  BY <1>0 DEF Knows, At, p, version
<1>8. oneByOne => RowsInTurn'
  BY <1>0, <1>1, <1>5, <1>7 DEF RowsInTurn, AssetIds
<1> QED
  BY <1>0, <1>1, <1>2, <1>3, <1>6, <1>8, TurnFrame DEF InventoryInv, Acts

LEMMA UpdateServiceStep ==
  ASSUME InventoryInv, NEW s \in Steps, UpdateService(s)
  PROVE  InventoryInv'
<1> DEFINE p == Port(s)
           old == step[s].read
           version == Entered(s).version
           confidence == Raised(old.confidence, ServiceConfidence(version))
           row == services[p]
           new == [version |-> IF version = old.version THEN row.version ELSE version,
                   confidence |-> IF confidence = old.confidence THEN row.confidence
                                  ELSE confidence]
<1>0. /\ StepFits(s) /\ Entered(s) \in Detected /\ step[s].todo \in NonEmpty(Detected)
      /\ step[s].pc = "attach" /\ ~Resting(s) /\ old # NoService
      /\ old \in Service /\ p \in DOMAIN services /\ row \in Service
      /\ oneByOne => Knows(s) /\ RowsInTurn
  BY EnteredFits DEF UpdateService, At, Resting, StepFits, InventoryInv, LogsFit
<1>1. /\ services' = [services EXCEPT ![p] = new]
      /\ serviceLog' = VersionLog(p, old.version, version)
      /\ Advance(s, "address") /\ UNCHANGED <<assets, assetHistory, oneByOne>>
  BY DEF UpdateService, Port
<1>2. OthersStay(s) /\ StepFits(s)' /\ Knows(s)'
  BY <1>0, <1>1, AdvancedFits DEF Firsts, OutputOf
<1>3. version \in Versions /\ new \in Service
  BY <1>0 DEF Detected, Service, Raised, ServiceConfidence
<1>4. oneByOne => new.version = version /\ old = row
  BY <1>0 DEF Knows, At, ServiceOn
<1>5. ASSUME oneByOne, old.version = version
      PROVE  new.version = row.version
  BY <1>5
<1> HIDE DEF new, version, p, row, old
<1>6. /\ DOMAIN services' = DOMAIN services /\ services'[p] = new
      /\ services' \in [DOMAIN services' -> Service]
      /\ \A q \in DOMAIN services \ {p} : services'[q] = services[q]
  BY <1>0, <1>1, <1>3 DEF InventoryInv, LogsFit
<1>7. RowsFit'
  BY <1>1, <1>2, <1>6, RowsFrame DEF InventoryInv, RowsFit, SameFingerprint
<1>8. CASE old.version = version
  <2>1. serviceLog' = serviceLog
    BY <1>1, <1>8 DEF VersionLog
  <2>2. LogsFit'
    BY <1>1, <1>6, <2>1 DEF InventoryInv, LogsFit
  <2>3. oneByOne => RowsInTurn'
    BY <1>0, <1>1, <1>5, <1>6, <1>8, <2>1 DEF RowsInTurn, AssetIds, InventoryInv, LogsFit, row
  <2> QED
    BY <1>0, <1>1, <1>2, <1>7, <2>2, <2>3, TurnFrame DEF InventoryInv, Acts
<1>9. CASE old.version # version
  <2>1. serviceLog' = Put(serviceLog, p, Append(LogOf(p), version))
    BY <1>1, <1>9 DEF VersionLog
  <2>2. /\ serviceLog' \in [DOMAIN serviceLog' -> Seq(Versions)]
        /\ DOMAIN serviceLog' \subseteq DOMAIN services
        /\ \A q \in DOMAIN serviceLog' : serviceLog'[q] # <<>>
        /\ Last(serviceLog'[p]) = version
        /\ \A q \in DOMAIN serviceLog' :
              q = p \/ (q \in DOMAIN serviceLog /\ serviceLog'[q] = serviceLog[q])
    BY <1>0, <1>3, <2>1, LogPut DEF InventoryInv
  <2>3. LogsFit'
    BY <1>1, <1>6, <2>2 DEF InventoryInv, LogsFit
  <2>4. oneByOne => RowsInTurn'
    BY <1>0, <1>1, <1>4, <1>6, <2>2 DEF RowsInTurn, AssetIds, InventoryInv, LogsFit
  <2> QED
    BY <1>0, <1>1, <1>2, <1>7, <2>3, <2>4, TurnFrame DEF InventoryInv, Acts
<1> QED
  BY <1>8, <1>9

--------------------------------------------------------------------------------

LEMMA InventoryStep == InventoryInv /\ [InventoryNext]_inventoryVars => InventoryInv'
<1> SUFFICES ASSUME InventoryInv, [InventoryNext]_inventoryVars PROVE InventoryInv'
  OBVIOUS
<1>1. ASSUME NEW s \in DiscoverySteps, DiscoveryStep(s) PROVE InventoryInv'
  <2>0. s \in Steps
    BY DEF Steps
  <2>1. ASSUME NEW output \in Discoveries, BeginDiscovery(s, output) PROVE InventoryInv'
    BY <2>0, <2>1, Begins, InventoryAssumption DEF BeginDiscovery, Firsts, OutputOf
  <2> QED
    BY <1>1, <2>0, <2>1, SelectStep, InsertStep, UpdateStep, LogStep DEF DiscoveryStep
<1>2. ASSUME NEW s \in PortSteps, PortStep(s) PROVE InventoryInv'
  <2>0. s \in Steps
    BY DEF Steps
  <2>1. ASSUME NEW output \in Scans, BeginPorts(s, output) PROVE InventoryInv'
    BY <2>0, <2>1, Begins, InventoryAssumption DEF BeginPorts, Firsts, OutputOf
  <2> QED
    BY <1>2, <2>0, <2>1, HostStep, PortSaved DEF PortStep
<1>3. ASSUME NEW s \in ServiceSteps, ServiceStep(s) PROVE InventoryInv'
  <2>0. s \in Steps
    BY DEF Steps
  <2>1. ASSUME NEW output \in Detections, BeginServices(s, output) PROVE InventoryInv'
    BY <2>0, <2>1, Begins, InventoryAssumption DEF BeginServices, Firsts, OutputOf
  <2> QED
    BY <1>3, <2>0, <2>1, AddressStep, InsertServiceStep, NoteStep, UpdateServiceStep
    DEF ServiceStep
<1>4. ASSUME NEW s \in Steps, StepFails(s) PROVE InventoryInv'
  BY <1>4, Stops DEF StepFails, Ended, At, Resting, RowsStay
<1>5. CASE UNCHANGED inventoryVars
  BY <1>5 DEF inventoryVars, InventoryInv, RowsFit, LogsFit, InTurn, StepFits, Knows, Resting,
     At, Port, Entered, ServiceOn, AssetIds
<1> QED
  BY <1>1, <1>2, <1>3, <1>4, <1>5 DEF InventoryNext

LEMMA InventoryStart == InventoryInit => InventoryInv
<1> SUFFICES ASSUME InventoryInit PROVE InventoryInv
  OBVIOUS
<1>1. \A s \in Steps : step[s].pc = "idle" /\ DOMAIN step[s] = Fields
  BY DEF InventoryInit, AtStart, Fields
<1>2. RowsFit
  BY <1>1 DEF InventoryInit, RowsFit, StepFits, PCs, Fields
<1>3. LogsFit
  BY DEF InventoryInit, LogsFit
<1>4. InTurn
  BY <1>1 DEF InventoryInit, InTurn, Knows, Resting, At, AssetIds
<1> QED
  BY <1>2, <1>3, <1>4 DEF InventoryInv

LEMMA InventoryKept == InventorySpec => []InventoryInv
BY InventoryStart, InventoryStep, PTL DEF InventorySpec

\* However the steps interleave, fail or overwrite each other's metadata, the
\* confidence of an asset is that of its best source (process_discovered_assets).
THEOREM ConfidenceIsAlwaysHighest == InventorySpec => []ConfidenceIsHighest
<1>1. InventoryInv => ConfidenceIsHighest
  BY DEF InventoryInv, RowsFit, Row, Rated, ConfidenceIsHighest, AssetIds
<1> QED
  BY <1>1, InventoryKept, PTL

\* Steps that wait for each other make one asset per fingerprint.
THEOREM FingerprintsAreUnique == InventorySpec => []OneAssetPerFingerprint
<1>1. InventoryInv => OneAssetPerFingerprint
  BY DEF InventoryInv, InTurn, OneAssetPerFingerprint
<1> QED
  BY <1>1, InventoryKept, PTL

\* Steps that wait for each other leave rows that bear out their histories,
\* wherever one of them fails between two commits.
THEOREM HistoryIsAlwaysBorneOut == InventorySpec => []HistoryIsBorneOut
<1>1. InventoryInv => HistoryIsBorneOut
  BY DEF InventoryInv, InTurn, HistoryIsBorneOut, LoggedSourcesExist, ServiceLogTellsVersion
<1> QED
  BY <1>1, InventoryKept, PTL

-----------------------------------------------------------------------------
(* What the comparisons tell.                                               *)

\* What is told of the facts g by a comparison with a snapshot of f.
Told(f, g, k) == Drifts(Shot(f), IF kind \in Renewing THEN Shot(g) ELSE g, k)

\* The facts a kind is not about stay as they were.
LEMMA FactsKept ==
    ASSUME kind \in AllKinds, NEW f \in Possible
    PROVE  /\ f \in Facts
           /\ kind \in {"exposure", "decision"} => f.score = 1
           /\ kind \in {"posture", "control", "executive", "resilience", "soc", "risk", "grc",
                        "knowledge", "threat", "graph"} => f.level = "high"
<1>1. f \in Facts /\ DOMAIN f = {"score", "second", "total", "retired", "level"}
  BY DEF Possible, Facts
<1>2. /\ "score" \in About[kind] \/ f.score = 1
      /\ "level" \in About[kind] \/ f.level = "high"
  <2>1. \A x \in DOMAIN f : x \in About[kind] \/ f[x] = Still[x]
    BY DEF Possible
  <2> QED
    BY <1>1, <2>1 DEF Still
<1>3. /\ kind = "exposure" => About[kind] = {"level", "total"}
      /\ kind = "decision" => About[kind] = {"total", "level"}
      /\ kind = "posture" => About[kind] = {"score", "total"}
      /\ kind \in {"control", "executive", "resilience", "soc", "risk", "knowledge"} =>
            About[kind] = {"score", "second"}
      /\ kind = "grc" => About[kind] = {"score"}
      /\ kind = "threat" => About[kind] = {"score", "total"}
      /\ kind = "graph" => About[kind] = {"score", "total", "retired"}
  BY DEF About
<1> QED
  BY <1>1, <1>2, <1>3

LEMMA FactsFields ==
    ASSUME NEW f \in Facts
    PROVE  /\ f.score \in {0, 1} /\ f.second \in {0, 1} /\ f.total \in {1, 2}
           /\ f.retired \in {0, 1} /\ f.level \in {"high", "middle", "low"}
BY DEF Facts, Levels

LEMMA ShotsAndDrifts ==
    ASSUME kind \in AllKinds, NEW f \in Facts, NEW g \in Facts, NEW k \in {1, 2},
           kind \notin Renewing
    PROVE  /\ kind = "detection" => Told(f, g, k) = DetectionDrift(DetectionSnapshot(f), g)
           /\ kind = "ioc" => Told(f, g, k) = IOCDrift(IOCSnapshot(f), g)
           /\ kind = "hunt" => Told(f, g, k) = HuntDrift(HuntSnapshot(f), g, k)
           /\ kind = "purple" => Told(f, g, k) = PurpleTeamDrift(PurpleTeamSnapshot(f), g, k)
           /\ kind = "exposure" => Told(f, g, k) = ExposureDrift(ExposureSnapshot(f), g, k)
           /\ kind = "executive" => Told(f, g, k) = ExecutiveDrift(ExecutiveSnapshot(f), g)
           /\ kind = "graph" => Told(f, g, k) = GraphDrift(GraphSnapshot(f), g)
           /\ kind = "governance" => Told(f, g, k) = GovernanceDrift(GovernanceState(f), g)
BY DEF Told, Drifts, Shot, ShotOf

LEMMA RenewedShotsAndDrifts ==
    ASSUME NEW f \in Facts, NEW g \in Facts, NEW k \in {1, 2}, kind \in Renewing
    PROVE  /\ kind = "posture" => Told(f, g, k) =
                 PostureDrift(SecurityPostureSnapshot(f), SecurityPostureSnapshot(g))
           /\ kind = "control" => Told(f, g, k) =
                 ControlDrift(ControlValidationSnapshot(f), ControlValidationSnapshot(g))
           /\ kind = "program" => Told(f, g, k) =
                 ProgramDrift(SecurityProgramSnapshot(f), SecurityProgramSnapshot(g))
           /\ kind = "resilience" => Told(f, g, k) =
                 ResilienceDrift(CyberResilienceSnapshot(f), CyberResilienceSnapshot(g))
           /\ kind = "soc" => Told(f, g, k) = SOCDrift(SOCSnapshot(f), SOCSnapshot(g))
           /\ kind = "risk" => Told(f, g, k) =
                 RiskDrift(RiskQuantificationSnapshot(f), RiskQuantificationSnapshot(g))
           /\ kind = "grc" => Told(f, g, k) =
                 GRCComplianceDrift(ComplianceSnapshot(f), ComplianceSnapshot(g))
           /\ kind = "knowledge" => Told(f, g, k) =
                 KnowledgeDrift(KnowledgeSnapshot(f), KnowledgeSnapshot(g))
           /\ kind = "threat" => Told(f, g, k) =
                 ThreatIntelDrift(ThreatIntelSnapshot(f), ThreatIntelSnapshot(g))
           /\ kind = "decision" => Told(f, g, k) =
                 DecisionDrift(DecisionSnapshot(f), DecisionSnapshot(g))
           /\ kind = "planning" => Told(f, g, k) =
                 PlanningDrift(PlanningSnapshot(f), PlanningSnapshot(g))
BY DEF Told, Drifts, Shot, ShotOf

LEMMA KindsCovered ==
    ASSUME kind \in AllKinds
    PROVE  \/ kind \in Renewing
           \/ kind \in {"detection", "ioc", "hunt", "purple", "exposure", "executive", "graph",
                        "governance"}
BY DEF AllKinds, Renewing

\* Nothing but gaps is told of facts that are the snapshot's own, except for
\* the graph's.
LEMMA SameFactsTellNothing ==
    ASSUME kind \in AllKinds, NEW f \in Facts, NEW k \in {1, 2}, kind = "graph" => f.retired = 0
    PROVE  Told(f, f, k) \subseteq {"gap_detected"}
<1>1. /\ f.score \in {0, 1} /\ f.second \in {0, 1} /\ f.total \in {1, 2}
      /\ f.retired \in {0, 1} /\ f.level \in {"high", "middle", "low"}
  BY FactsFields
<1>2. CASE kind \in Renewing
  <2> USE <1>1, <1>2, RenewedShotsAndDrifts DEF If
  <2>1. CASE kind = "posture"
    BY <2>1 DEF PostureDrift, SecurityPostureSnapshot
  <2>2. CASE kind = "control"
    BY <2>2 DEF ControlDrift, ControlValidationSnapshot
  <2>3. CASE kind = "program"
    BY <2>3 DEF ProgramDrift, SecurityProgramSnapshot
  <2>4. CASE kind = "resilience"
    BY <2>4 DEF ResilienceDrift, CyberResilienceSnapshot
  <2>5. CASE kind = "soc"
    BY <2>5 DEF SOCDrift, SOCSnapshot
  <2>6. CASE kind = "risk"
    BY <2>6 DEF RiskDrift, RiskQuantificationSnapshot
  <2>7. CASE kind = "grc"
    BY <2>7 DEF GRCComplianceDrift, ComplianceSnapshot
  <2>8. CASE kind = "knowledge"
    BY <2>8 DEF KnowledgeDrift, KnowledgeSnapshot
  <2>9. CASE kind = "threat"
    BY <2>9 DEF ThreatIntelDrift, ThreatIntelSnapshot
  <2>10. CASE kind = "decision"
    BY <2>10 DEF DecisionDrift, DecisionSnapshot
  <2>11. CASE kind = "planning"
    BY <2>11 DEF PlanningDrift, PlanningSnapshot
  <2> QED
    BY <2>1, <2>2, <2>3, <2>4, <2>5, <2>6, <2>7, <2>8, <2>9, <2>10, <2>11 DEF Renewing
<1>3. CASE kind \notin Renewing
  <2> USE <1>1, <1>3, ShotsAndDrifts DEF If
  <2>1. CASE kind = "detection"
    BY <2>1 DEF DetectionDrift, DetectionGaps, Gap, DetectionSnapshot
  <2>2. CASE kind = "ioc"
    BY <2>2 DEF IOCDrift, IOCSnapshot
  <2>3. CASE kind = "hunt"
    BY <2>3 DEF HuntDrift, HuntSnapshot
  <2>4. CASE kind = "purple"
    BY <2>4 DEF PurpleTeamDrift, PurpleTeamSnapshot, Rank
  <2>5. CASE kind = "exposure"
    BY <2>5 DEF ExposureDrift, ExposureSnapshot
  <2>6. CASE kind = "executive"
    BY <2>6 DEF ExecutiveDrift, ExecutiveSnapshot
  <2>7. CASE kind = "graph"
    BY <2>7 DEF GraphDrift, GraphSnapshot
  <2>8. CASE kind = "governance"
    BY <2>8 DEF GovernanceDrift, GovernanceState
  <2> QED
    BY <2>1, <2>2, <2>3, <2>4, <2>5, <2>6, <2>7, <2>8, KindsCovered
<1> QED
  BY <1>2, <1>3

\* What got worse is told: the score, or a level that was high and is low.
LEMMA WorseIsTold ==
    ASSUME kind \in AllKinds, NEW f \in Possible, NEW g \in Possible, NEW k \in {1, 2},
           kind \in TwoStage => k = 2, g.score < f.score
    PROVE  Told(f, g, k) # {}
<1>1. f \in Facts /\ g \in Facts /\ f.score \in {0, 1} /\ g.score \in {0, 1}
      /\ g.total \in {1, 2} /\ f.total \in {1, 2}
      /\ kind \notin {"exposure", "decision"}
  BY FactsKept, FactsFields
<1>2. CASE kind \in Renewing
  <2> USE <1>1, <1>2, RenewedShotsAndDrifts DEF If
  <2>1. CASE kind = "posture"
    BY <2>1 DEF PostureDrift, SecurityPostureSnapshot
  <2>2. CASE kind = "control"
    BY <2>2 DEF ControlDrift, ControlValidationSnapshot
  <2>3. CASE kind = "program"
    BY <2>3 DEF ProgramDrift, SecurityProgramSnapshot
  <2>4. CASE kind = "resilience"
    BY <2>4 DEF ResilienceDrift, CyberResilienceSnapshot
  <2>5. CASE kind = "soc"
    BY <2>5 DEF SOCDrift, SOCSnapshot
  <2>6. CASE kind = "risk"
    BY <2>6 DEF RiskDrift, RiskQuantificationSnapshot
  <2>7. CASE kind = "grc"
    BY <2>7 DEF GRCComplianceDrift, ComplianceSnapshot
  <2>8. CASE kind = "knowledge"
    BY <2>8 DEF KnowledgeDrift, KnowledgeSnapshot
  <2>9. CASE kind = "threat"
    BY <2>9 DEF ThreatIntelDrift, ThreatIntelSnapshot
  <2>10. CASE kind = "planning"
    BY <2>10 DEF PlanningDrift, PlanningSnapshot
  <2> QED
    BY <2>1, <2>2, <2>3, <2>4, <2>5, <2>6, <2>7, <2>8, <2>9, <2>10 DEF Renewing
<1>3. CASE kind \notin Renewing
  <2> USE <1>1, <1>3, ShotsAndDrifts DEF If
  <2>1. CASE kind = "detection"
    BY <2>1 DEF DetectionDrift, DetectionGaps, Gap, DetectionSnapshot
  <2>2. CASE kind = "ioc"
    BY <2>2 DEF IOCDrift, IOCSnapshot
  <2>3. CASE kind = "hunt"
    BY <2>3 DEF HuntDrift, HuntSnapshot, TwoStage
  <2>4. CASE kind = "purple"
    BY <2>4 DEF PurpleTeamDrift, PurpleTeamSnapshot, TwoStage
  <2>6. CASE kind = "executive"
    BY <2>6 DEF ExecutiveDrift, ExecutiveSnapshot
  <2>7. CASE kind = "graph"
    <3>1. GraphSnapshot(f).weight = IF f.score = 1 THEN f.total - f.retired ELSE 0
      BY <1>1, FactsFields DEF GraphSnapshot
    <3> QED
      BY <2>7, <3>1, FactsFields DEF GraphDrift, GraphSnapshot
  <2>8. CASE kind = "governance"
    BY <2>8 DEF GovernanceDrift, GovernanceState
  <2> QED
    BY <2>1, <2>2, <2>3, <2>4, <2>6, <2>7, <2>8, KindsCovered
<1> QED
  BY <1>2, <1>3

LEMMA FallIsTold ==
    ASSUME kind \in AllKinds, NEW f \in Possible, NEW g \in Possible, NEW k \in {1, 2},
           kind \in TwoStage => k = 1, f.level = "high", g.level = "low",
           kind = "governance" => AssetGovernance(f) = "COMPLIANT" /\ g.total = 2
    PROVE  Told(f, g, k) # {}
<1>1. /\ f \in Facts /\ g \in Facts
      /\ kind \notin {"posture", "control", "executive", "resilience", "soc", "risk", "grc",
                      "knowledge", "threat", "graph"}
      /\ f.total \in {1, 2}
  BY FactsKept, FactsFields
<1>2. CASE kind \in Renewing
  <2> USE <1>1, <1>2, RenewedShotsAndDrifts DEF If
  <2>1. CASE kind = "program"
    BY <2>1 DEF ProgramDrift, SecurityProgramSnapshot
  <2>2. CASE kind = "decision"
    BY <2>2 DEF DecisionDrift, DecisionSnapshot
  <2>3. CASE kind = "planning"
    BY <2>3 DEF PlanningDrift, PlanningSnapshot
  <2> QED
    BY <2>1, <2>2, <2>3 DEF Renewing
<1>3. CASE kind \notin Renewing
  <2> USE <1>1, <1>3, ShotsAndDrifts DEF If
  <2>1. CASE kind = "detection"
    BY <2>1 DEF DetectionDrift, DetectionGaps, Gap, DetectionSnapshot
  <2>2. CASE kind = "ioc"
    BY <2>2 DEF IOCDrift, IOCSnapshot
  <2>3. CASE kind = "hunt"
    BY <2>3 DEF HuntDrift, HuntSnapshot, TwoStage
  <2>4. CASE kind = "purple"
    BY <2>4 DEF PurpleTeamDrift, PurpleTeamSnapshot, TwoStage, Rank
  <2>5. CASE kind = "exposure"
    BY <2>5 DEF ExposureDrift, ExposureSnapshot, TwoStage
  <2>6. CASE kind = "governance"
    BY <2>6 DEF GovernanceDrift, GovernanceState, AssetGovernance, FindingGovernance
  <2> QED
    BY <2>1, <2>2, <2>3, <2>4, <2>5, <2>6, KindsCovered
<1> QED
  BY <1>2, <1>3

-----------------------------------------------------------------------------
(* The snapshots.  A snapshot was taken of the facts as they were at some    *)
(* age, and what is compared with it later is either older news or the same *)
(* facts.                                                                   *)

Taken(x) == /\ x \in Snapshots
            /\ x.facts \in Possible
            /\ x.shot = Shot(x.facts)
            /\ x.age \in 1..age
            /\ x.age = age => x.facts = live
Compared(x) == Taken(x) \/ x = DefaultSnapshot
Precedes(x, y) == x.age <= y.age /\ (x.age = y.age => x.facts = y.facts)

Reports == {Drifts(p, f, k) : p \in Shots, f \in Facts \cup Shots, k \in {1, 2}}
LogEntry == [by: Sessions, life: Nat, since: Nat, pass: Nat, stage: {1, 2}, was: Nat, is: Nat,
             from: Facts, to: Facts, drifts: Reports, fate: Fates]
DriftSession == [pc: Points, prev: Snapshots \cup {NoSnapshot},
                 new: Snapshots \cup {NoSnapshot}, stage: {1, 2}]

\* What an entry of the log tells is what the comparison of its facts tells.
EntryTells(e) ==
    /\ e.by \in watcher
    /\ e.fate = "quiet" <=> e.drifts = {}
    /\ e.stage = 2 => kind \in TwoStage
    /\ e.to \in Possible /\ e.was <= e.is /\ e.is > 0
    /\ e.was = e.is => e.from = e.to
    /\ e.was > 0 => e.from \in Possible /\ e.drifts = Told(e.from, e.to, e.stage)

\* What a check knows of the snapshots it has in hand.
CheckFits(x) ==
    /\ x.pc \in {"renew", "keep", "compare", "compare2", "emit"} => Compared(x.prev)
    /\ x.pc \in {"renew", "keep"} => kind \in Renewing
    /\ x.pc = "keep" => Taken(x.new) /\ Precedes(x.prev, x.new)
    /\ x.pc \in {"keep", "rekeep"} => kind \in Suspending
    /\ x.pc = "compare" => kind = "exposure"
    /\ x.pc = "compare2" => kind \in TwoStage
    /\ x.pc = "gaps" => kind = "detection"
    /\ x.pc \in {"emit", "compare2", "gaps", "retake", "rekeep"} => Taken(x.new)

WatchFits == /\ kind \in Kinds
             /\ watcher \in {{Worker}, Calls}
             /\ live \in Possible
             /\ age \in 1..(MaxChanges + 1)
             /\ base = NoSnapshot \/ Taken(base)
CountsFit == /\ cold \in BOOLEAN
             /\ passes \in 0..MaxPasses
             /\ since \in 0..passes
             /\ troubles \in 0..MaxTroubles
             /\ life \in 0..troubles
LogTells == log \in Seq(LogEntry) /\ \A i \in 1..Len(log) : EntryTells(log[i])
ChecksFit == /\ session \in [Sessions -> DriftSession]
             /\ \A s \in Sessions : /\ CheckFits(session[s])
                                    /\ s \in watcher \/ session[s].pc = "idle"

DriftInv == WatchFits /\ CountsFit /\ LogTells /\ ChecksFit

LEMMA KindKnown == ASSUME WatchFits PROVE kind \in AllKinds
BY DriftAssumption DEF WatchFits

LEMMA SnapshotTaken ==
    ASSUME WatchFits
    PROVE  Taken(Snapshot) /\ Snapshot.age = age /\ Snapshot.facts = live
<1>1. live \in Facts /\ kind \in AllKinds /\ age \in Nat /\ age \in 1..age
  BY KindKnown, DriftAssumption DEF WatchFits, Possible
<1>2. Shot(live) \in Shots
  BY <1>1 DEF Shot, Shots
<1> QED
  BY <1>1, <1>2 DEF Snapshot, Snapshots, Taken, WatchFits

LEMMA DefaultKnown ==
    /\ DefaultSnapshot \in Snapshots
    /\ DefaultSnapshot.age = 0
    /\ DefaultSnapshot.facts = Still
<1>1. Still \in Facts
  BY DEF Still, Facts, Levels
<1> QED
  BY <1>1 DEF DefaultSnapshot, Snapshots, Shots

\* Snapshots are never taken for the lack of one.
LEMMA ComparedTypes ==
    ASSUME WatchFits, NEW x, Compared(x)
    PROVE  /\ x \in Snapshots /\ x # NoSnapshot /\ x.age \in 0..age /\ x.facts \in Facts
           /\ x.shot \in Shots /\ Precedes(x, Snapshot)
           /\ x.age > 0 => Taken(x)
<1>1. x \in Snapshots
  BY DefaultKnown DEF Compared, Taken
<1>2. age \in Nat /\ age > 0
  BY DriftAssumption DEF WatchFits
<1>3. x.age \in 0..age /\ (x.age = age => x.facts = live) /\ (x.age > 0 => Taken(x))
  BY <1>1, <1>2, DefaultKnown DEF Compared, Taken
<1> QED
  BY <1>1, <1>2, <1>3, SnapshotTaken, NoSnapshotAssumption DEF Snapshots, Precedes

\* The facts change, and the age with them; a snapshot stays what it was.
LEMMA TakenStays ==
    ASSUME WatchFits, kind' = kind, watcher' = watcher,
           UNCHANGED <<live, age>> \/ \E f \in Possible : Becomes(f)
    PROVE  /\ live' \in Possible /\ age' \in 1..(MaxChanges + 1) /\ Possible' = Possible
           /\ \A x : Taken(x) => Taken(x)'
           /\ \A x : CheckFits(x) => CheckFits(x)'
           /\ \A e : EntryTells(e) => EntryTells(e)'
           /\ LogEntry' = LogEntry
<1>0. age \in Nat /\ MaxChanges \in Nat /\ age \in 1..(MaxChanges + 1)
  BY DriftAssumption DEF WatchFits
<1>1. /\ live' \in Possible /\ age' \in 1..(MaxChanges + 1)
      /\ age' >= age /\ age' \in Nat /\ (age' = age => live' = live)
  BY <1>0 DEF WatchFits, Becomes
<1>2. Possible' = Possible /\ DefaultSnapshot' = DefaultSnapshot
  BY DEF Possible, DefaultSnapshot
<1>3. /\ \A f : Shot(f)' = Shot(f)
      /\ \A p, f, k : Drifts(p, f, k)' = Drifts(p, f, k)
  BY DEF Shot, Drifts
<1>4. \A f, g, k : Told(f, g, k)' = Told(f, g, k)
  BY <1>3 DEF Told
<1>5. \A x : Taken(x) => Taken(x)'
  <2> SUFFICES ASSUME NEW x, Taken(x) PROVE Taken(x)'
    OBVIOUS
  <2>1. x.age \in 1..age' /\ (x.age = age' => x.age = age)
    BY <1>0, <1>1 DEF Taken
  <2> QED
    BY <1>1, <1>2, <1>3, <2>1 DEF Taken
<1>6. \A x : Compared(x) => Compared(x)'
  BY <1>2, <1>5 DEF Compared
<1>7. \A x : CheckFits(x) => CheckFits(x)'
  BY <1>5, <1>6 DEF CheckFits, Precedes
<1>8. \A e : EntryTells(e) => EntryTells(e)'
  BY <1>2, <1>4 DEF EntryTells
<1>9. LogEntry' = LogEntry
  BY DEF LogEntry, Reports, Drifts
<1> QED
  BY <1>1, <1>2, <1>5, <1>7, <1>8, <1>9

\* A step of one check.
LEMMA CheckStep ==
    ASSUME DriftInv, UNCHANGED <<kind, watcher, live, age>>, NEW s \in Sessions, s \in watcher,
           NEW x \in DriftSession, CheckFits(x), session' = [session EXCEPT ![s] = x],
           base' = NoSnapshot \/ Taken(base'), LogTells', CountsFit'
    PROVE  DriftInv'
<1>1. /\ Possible' = Possible
      /\ \A y : Taken(y) => Taken(y)'
      /\ \A y : CheckFits(y) => CheckFits(y)'
  BY TakenStays DEF DriftInv
<1>2. WatchFits'
  <2>1. base' = NoSnapshot \/ (\A y : y = base' => Taken(y)')
    BY <1>1
  <2> PICK y : y = base'
    OBVIOUS
  <2>2. base' = NoSnapshot \/ Taken(base)'
    BY <2>1 DEF Taken
  <2> QED
    BY <1>1, <2>2 DEF DriftInv, WatchFits
<1>3. \A t \in Sessions : session'[t] = IF t = s THEN x ELSE session[t]
  BY DEF DriftInv, ChecksFit
<1>4. session' \in [Sessions -> DriftSession]
  BY DEF DriftInv, ChecksFit
<1>5. \A t \in Sessions : CheckFits(session'[t]) /\ (t \in watcher' \/ session'[t].pc = "idle")
  BY <1>3 DEF DriftInv, ChecksFit
<1>6. \A t \in Sessions : CheckFits(session[t])'
  <2> TAKE t \in Sessions
  <2> PICK y : y = session'[t]
    OBVIOUS
  <2>1. CheckFits(y)'
    BY <1>1, <1>5
  <2> QED
    BY <2>1 DEF CheckFits
<1>7. ChecksFit'
  <2>1. session' \in [Sessions -> DriftSession']
    BY <1>4 DEF DriftSession
  <2>2. \A t \in Sessions : t \in watcher' \/ session'[t].pc = "idle"
    BY <1>5
  <2> QED
    BY <1>6, <2>1, <2>2 DEF ChecksFit
<1> QED
  BY <1>2, <1>7 DEF DriftInv

LEMMA LogStays ==
    ASSUME DriftInv, UNCHANGED <<kind, watcher, log>>
    PROVE  LogTells'
<1>1. \A f, g, k : Told(f, g, k)' = Told(f, g, k)
  BY DEF Told, Shot, Drifts
<1>2. LogEntry' = LogEntry
  BY DEF LogEntry, Reports, Drifts
<1>3. \A e : EntryTells(e) => EntryTells(e)'
  BY <1>1 DEF EntryTells, Possible
<1> QED
  BY <1>2, <1>3 DEF DriftInv, LogTells

\* A comparison is noted with what it tells.
LEMMA ComparesStep ==
    ASSUME DriftInv, UNCHANGED <<kind, watcher, live, age>>, NEW s \in Sessions,
           NEW prev, Compared(prev), NEW new, NEW k \in {1, 2},
           kind \in Renewing => Taken(new) /\ Precedes(prev, new),
           k = 2 => kind \in TwoStage, s \in watcher, Compares(s, prev, new, k)
    PROVE  /\ LogTells'
           /\ \E x \in DriftSession : CheckFits(x) /\ session' = [session EXCEPT ![s] = x]
<1> DEFINE drifts == IF kind \in Renewing THEN Drifts(prev.shot, new.shot, k)
                     ELSE Drifts(prev.shot, live, k)
           seen == IF kind \in Renewing THEN new ELSE Snapshot
<1>1. /\ Taken(seen) /\ Precedes(prev, seen) /\ WatchFits /\ kind \in AllKinds
      /\ kind \notin Renewing => seen.facts = live /\ seen.age = age
  BY SnapshotTaken, ComparedTypes, KindKnown DEF DriftInv
<1>2. /\ prev \in Snapshots /\ prev.age \in Nat /\ prev.facts \in Facts /\ prev.shot \in Shots
      /\ prev.age > 0 => Taken(prev)
  BY <1>1, ComparedTypes DEF Snapshots
<1>3. /\ seen \in Snapshots /\ seen.age \in Nat /\ seen.age > 0 /\ seen.facts \in Facts
      /\ seen.facts \in Possible /\ seen.shot = Shot(seen.facts) /\ seen.shot \in Shots
  <2>1. age \in Nat
    BY DriftAssumption DEF DriftInv, WatchFits
  <2> HIDE DEF seen
  <2> QED
    BY <1>1, <2>1 DEF Taken, Snapshots, Possible
<1>4. drifts \in Reports /\ (prev.age > 0 => drifts = Told(prev.facts, seen.facts, k))
  <2>1. CASE kind \in Renewing
    <3>1. prev.age > 0 => prev.shot = Shot(prev.facts)
      BY <1>2 DEF Taken
    <3> QED
      BY <1>2, <1>3, <2>1, <3>1 DEF Told, Reports
  <2>2. CASE kind \notin Renewing
    <3>1. prev.age > 0 => prev.shot = Shot(prev.facts)
      BY <1>2 DEF Taken
    <3>2. live \in Facts /\ seen.facts = live
      BY <1>1, <1>3, <2>2
    <3> QED
      BY <1>2, <2>2, <3>1, <3>2 DEF Told, Reports
  <2> QED
    BY <2>1, <2>2
<1> DEFINE x == [pc |-> AfterCompare(drifts, k), prev |-> prev, new |-> seen, stage |-> k]
           e == [by |-> s, life |-> life, since |-> since, pass |-> passes, stage |-> k,
                 was |-> prev.age, is |-> seen.age, from |-> prev.facts, to |-> seen.facts,
                 drifts |-> drifts, fate |-> IF drifts = {} THEN "quiet" ELSE "pending"]
<1>5. /\ log' = IF drifts = {} /\ prev.age = seen.age THEN log ELSE Append(log, e)
      /\ session' = [session EXCEPT ![s] = x]
  BY DEF Compares
<1> HIDE DEF drifts, seen
<1>6. x \in DriftSession /\ CheckFits(x)
  <2>1. AfterCompare(drifts, k) \in {"emit", "compare2", "retake"}
        /\ (AfterCompare(drifts, k) = "compare2" => kind \in TwoStage)
    BY DEF AfterCompare
  <2> QED
    BY <1>1, <1>2, <1>3, <2>1 DEF DriftSession, Points, CheckFits
<1>7. e \in LogEntry
  BY <1>2, <1>3, <1>4 DEF LogEntry, Fates, DriftInv, CountsFit
<1>8. EntryTells(e)
  BY <1>1, <1>2, <1>3, <1>4 DEF EntryTells, Precedes, Taken
<1> HIDE DEF e, x
<1>9. LogTells'
  <2>1. log' \in Seq(LogEntry) /\ \A i \in 1..Len(log') : EntryTells(log'[i])
    <3>1. log \in Seq(LogEntry) /\ \A i \in 1..Len(log) : EntryTells(log[i])
      BY DEF DriftInv, LogTells
    <3>2. CASE log' = log
      BY <3>1, <3>2
    <3>3. CASE log' = Append(log, e)
      BY <1>7, <1>8, <3>1, <3>3
    <3> QED
      BY <1>5, <3>2, <3>3
  <2>2. LogEntry' = LogEntry /\ \A y : EntryTells(y) => EntryTells(y)'
    BY <1>1, TakenStays
  <2>3. \A i \in 1..Len(log') : EntryTells(log[i])'
    <3> TAKE i \in 1..Len(log')
    <3> PICK y : y = log'[i]
      OBVIOUS
    <3>1. EntryTells(y)'
      BY <2>1, <2>2
    <3> QED
      BY <3>1 DEF EntryTells
  <2> QED
    BY <2>1, <2>2, <2>3 DEF LogTells
<1> QED
  BY <1>5, <1>6, <1>9

-----------------------------------------------------------------------------
(* The steps.                                                               *)

LEMMA CheckGoes ==
    ASSUME DriftInv, NEW s \in Sessions, NEW pc \in Points, Goes(s, pc)
    PROVE  \E x \in DriftSession : /\ session' = [session EXCEPT ![s] = x]
                                   /\ x = [session[s] EXCEPT !.pc = pc]
                                   /\ x.pc = pc /\ x.prev = session[s].prev
                                   /\ x.new = session[s].new /\ x.stage = session[s].stage
<1> DEFINE x == [session[s] EXCEPT !.pc = pc]
<1>1. session[s] \in DriftSession
  BY DEF DriftInv, ChecksFit
<1>2. session' = [session EXCEPT ![s] = x]
  BY <1>1 DEF Goes, DriftInv, ChecksFit
<1>3. x \in DriftSession /\ x.pc = pc /\ x.prev = session[s].prev
      /\ x.new = session[s].new /\ x.stage = session[s].stage
  BY <1>1 DEF DriftSession
<1> QED
  BY <1>2, <1>3

LEMMA CountsStay ==
    ASSUME DriftInv, UNCHANGED <<cold, passes, since, life, troubles>>
    PROVE  CountsFit'
BY DEF DriftInv, CountsFit

LEMMA NumbersKnown ==
    ASSUME DriftInv
    PROVE  /\ MaxPasses \in Nat /\ MaxTroubles \in Nat /\ MaxChanges \in Nat
           /\ passes \in Nat /\ since \in Nat /\ life \in Nat /\ troubles \in Nat /\ age \in Nat
           /\ since <= passes /\ life <= troubles
BY DriftAssumption DEF DriftInv, CountsFit, WatchFits

\* Only who watches is under way.
Quiet == {"idle", "done", "failed", "broken", "settle", "look"}

LEMMA QuietFits == ASSUME NEW x, x.pc \in Quiet PROVE CheckFits(x)
BY DEF Quiet, CheckFits

LEMMA Watching ==
    ASSUME DriftInv, NEW s \in Sessions, session[s].pc # "idle"
    PROVE  s \in watcher /\ session[s] \in DriftSession /\ CheckFits(session[s])
BY DEF DriftInv, ChecksFit

\* What has become of the events changes nothing of what they tell.
LEMMA FateFits ==
    ASSUME DriftInv, NEW s, NEW fate \in {"unsent", "lost", "stored"}, Fate(s, fate),
           UNCHANGED <<kind, watcher>>
    PROVE  LogTells'
<1>1. log \in Seq(LogEntry) /\ \A i \in 1..Len(log) : log[i] \in LogEntry /\ EntryTells(log[i])
  BY DEF DriftInv, LogTells
<1>2. /\ Len(log) \in Nat /\ DOMAIN log = 1..Len(log)
      /\ log' = [i \in 1..Len(log) |-> IF log[i].by = s /\ log[i].fate = "pending"
                                       THEN [log[i] EXCEPT !.fate = fate] ELSE log[i]]
  BY <1>1 DEF Fate
<1>3. ASSUME NEW i \in 1..Len(log)
      PROVE  log'[i] \in LogEntry /\ EntryTells(log'[i])
  <2>1. log[i] \in LogEntry /\ EntryTells(log[i])
    BY <1>1
  <2>2. CASE ~(log[i].by = s /\ log[i].fate = "pending")
    BY <1>2, <2>1, <2>2
  <2>3. CASE log[i].by = s /\ log[i].fate = "pending"
    <3> DEFINE e == [log[i] EXCEPT !.fate = fate]
    <3>1. log'[i] = e
      BY <1>2, <2>3
    <3>2. /\ e \in LogEntry /\ e.fate = fate /\ e.by = log[i].by /\ e.drifts = log[i].drifts
          /\ e.stage = log[i].stage /\ e.to = log[i].to /\ e.was = log[i].was /\ e.is = log[i].is
          /\ e.from = log[i].from
      BY <2>1 DEF LogEntry, Fates
    <3> HIDE DEF e
    <3>3. EntryTells(e)
      BY <2>1, <2>3, <3>2 DEF EntryTells
    <3> QED
      BY <3>1, <3>2, <3>3
  <2> QED
    BY <2>2, <2>3
<1>4. log' \in Seq(LogEntry) /\ Len(log') = Len(log)
  BY <1>2, <1>3
<1>5. \A f, g, k : Told(f, g, k)' = Told(f, g, k)
  BY DEF Told, Shot, Drifts
<1>6. LogEntry' = LogEntry
  BY DEF LogEntry, Reports, Drifts
<1>7. \A e : EntryTells(e) => EntryTells(e)'
  BY <1>5 DEF EntryTells, Possible
<1>8. \A i \in 1..Len(log') : EntryTells(log[i])'
  <2> TAKE i \in 1..Len(log')
  <2> PICK y : y = log'[i]
    OBVIOUS
  <2>1. EntryTells(y)'
    BY <1>3, <1>4, <1>7
  <2> QED
    BY <2>1 DEF EntryTells
<1> QED
  BY <1>4, <1>6, <1>8 DEF LogTells

\* The facts change while no check goes on.
LEMMA FactsChangeFits ==
    ASSUME DriftInv, UNCHANGED <<kind, watcher, log, session>>,
           \E f \in Possible : Becomes(f), base' = base \/ base' = Snapshot', CountsFit'
    PROVE  DriftInv'
<1>1. /\ live' \in Possible /\ age' \in 1..(MaxChanges + 1) /\ Possible' = Possible
      /\ \A x : Taken(x) => Taken(x)'
      /\ \A x : CheckFits(x) => CheckFits(x)'
  BY TakenStays DEF DriftInv
<1>2. Taken(Snapshot)'
  <2>1. kind' \in AllKinds /\ live' \in Facts /\ age' \in Nat /\ age' \in 1..age'
    BY <1>1, KindKnown, DriftAssumption DEF DriftInv, Possible
  <2>2. Shot(live)' \in Shots
    BY <2>1 DEF Shot, Shots
  <2> QED
    BY <1>1, <2>1, <2>2 DEF Snapshot, Snapshots, Taken
<1>3. WatchFits'
  <2>1. CASE base' = Snapshot'
    BY <1>1, <1>2, <2>1 DEF DriftInv, WatchFits, Taken
  <2>2. CASE base' = base
    <3>1. base = NoSnapshot \/ \A x : x = base => Taken(x)'
      BY <1>1 DEF DriftInv, WatchFits
    <3> PICK x : x = base
      OBVIOUS
    <3>2. base' = NoSnapshot \/ Taken(base)'
      BY <2>2, <3>1 DEF Taken
    <3> QED
      BY <1>1, <3>2 DEF DriftInv, WatchFits
  <2> QED
    BY <2>1, <2>2
<1>4. LogTells'
  BY LogStays
<1>5. ChecksFit'
  <2>1. \A t \in Sessions : CheckFits(session[t])'
    <3> TAKE t \in Sessions
    <3> PICK y : y = session'[t]
      OBVIOUS
    <3>1. CheckFits(y)'
      BY <1>1 DEF DriftInv, ChecksFit
    <3> QED
      BY <3>1 DEF CheckFits
  <2>2. /\ session' \in [Sessions -> DriftSession']
        /\ \A t \in Sessions : t \in watcher' \/ session'[t].pc = "idle"
    BY DEF DriftInv, ChecksFit, DriftSession
  <2> QED
    BY <2>1, <2>2 DEF ChecksFit
<1> QED
  BY <1>3, <1>4, <1>5 DEF DriftInv

LEMMA TakesNew ==
    ASSUME DriftInv, NEW s \in Sessions, NEW pc \in Points, NEW new \in Snapshots,
           session' = [session EXCEPT ![s].pc = pc, ![s].new = new]
    PROVE  LET x == [pc |-> pc, prev |-> session[s].prev, new |-> new, stage |-> session[s].stage]
           IN x \in DriftSession /\ session' = [session EXCEPT ![s] = x]
<1> DEFINE x == [pc |-> pc, prev |-> session[s].prev, new |-> new, stage |-> session[s].stage]
           y == [session[s] EXCEPT !.pc = pc]
           z == [y EXCEPT !.new = new]
<1>1. session \in [Sessions -> DriftSession] /\ session[s] \in DriftSession
  BY DEF DriftInv, ChecksFit
<1>2. x \in DriftSession
  BY <1>1 DEF DriftSession
<1>3. z = x
  <2>1. /\ y \in DriftSession
        /\ y.pc = pc /\ y.prev = session[s].prev /\ y.stage = session[s].stage
    BY <1>1 DEF DriftSession
  <2> HIDE DEF y
  <2>2. /\ z \in DriftSession
        /\ z.pc = pc /\ z.prev = session[s].prev /\ z.new = new /\ z.stage = session[s].stage
    BY <2>1 DEF DriftSession
  <2> HIDE DEF z
  <2> QED
    BY <2>2 DEF DriftSession
<1>4. session' = [session EXCEPT ![s] = z]
  <2>1. [session EXCEPT ![s].pc = pc, ![s].new = new] = [session EXCEPT ![s] = z]
    BY <1>1
  <2> QED
    BY <2>1
<1> HIDE DEF x, z
<1>5. x \in DriftSession /\ session' = [session EXCEPT ![s] = x]
  BY <1>2, <1>3, <1>4
<1> QED
  BY <1>5 DEF x

\* The steps of a check that leave the numbers alone.
LEMMA CheckedStep ==
    ASSUME DriftInv, UNCHANGED <<live, age, kind, watcher, cold, passes, since, life, troubles>>,
           NEW s \in Sessions, s \in watcher, base' = NoSnapshot \/ Taken(base'),
           \E x \in DriftSession : CheckFits(x) /\ session' = [session EXCEPT ![s] = x],
           log' = log \/ LogTells'
    PROVE  DriftInv'
<1>1. LogTells' /\ CountsFit'
  BY LogStays, CountsStay
<1> QED
  BY <1>1, CheckStep

LEMMA BaseTaken ==
    ASSUME DriftInv
    PROVE  /\ base = NoSnapshot \/ Taken(base)
           /\ Taken(Snapshot) /\ kind \in AllKinds
BY SnapshotTaken, KindKnown DEF DriftInv, WatchFits

LEMMA LookFits ==
    ASSUME DriftInv, NEW s \in Sessions, Look(s)
    PROVE  DriftInv'
<1> DEFINE prev == IF s \in Calls /\ base = NoSnapshot /\ kind # "purple" THEN DefaultSnapshot
                   ELSE base
<1>1. /\ s \in watcher /\ session[s] \in DriftSession /\ session \in [Sessions -> DriftSession]
      /\ UNCHANGED <<live, age, base, kind, watcher, cold, passes, since, life, troubles>>
  BY Watching DEF Look, IsAt, Watched, Rest, DriftInv, ChecksFit
<1>2. base' = NoSnapshot \/ Taken(base')
  BY <1>1, BaseTaken
<1>3. prev = NoSnapshot \/ Compared(prev)
  BY BaseTaken DEF Compared
<1>4. CASE prev = NoSnapshot
  <2>1. PICK pc \in {"gaps", "retake"} :
           /\ pc = IF kind = "detection" /\ Gap(live) # {} THEN "gaps" ELSE "retake"
           /\ session' = [session EXCEPT ![s].pc = pc, ![s].new = Snapshot]
           /\ log' = log
    BY <1>4 DEF Look
  <2> DEFINE x == [pc |-> pc, prev |-> session[s].prev, new |-> Snapshot,
                   stage |-> session[s].stage]
  <2>2. x \in DriftSession /\ session' = [session EXCEPT ![s] = x]
    <3>1. pc \in Points
      BY <2>1 DEF Points
    <3>2. Snapshot \in Snapshots /\ session' = [session EXCEPT ![s].pc = pc, ![s].new = Snapshot]
      BY <2>1, BaseTaken DEF Taken
    <3> QED
      BY <3>1, <3>2, TakesNew
  <2>3. CheckFits(x)
    <3>1. x.pc \in {"gaps", "retake"} /\ (x.pc = "gaps" => kind = "detection") /\ Taken(x.new)
      BY <2>1, BaseTaken
    <3> HIDE DEF x
    <3> QED
      BY <3>1 DEF CheckFits
  <2> QED
    BY <1>1, <1>2, <2>1, <2>2, <2>3, CheckedStep
<1>5. CASE prev # NoSnapshot /\ kind \in Renewing \cup {"exposure"}
  <2>1. /\ prev \in Snapshots /\ Compared(prev) /\ log' = log
        /\ session' = [session EXCEPT ![s].prev = prev,
                          ![s].pc = IF kind = "exposure" THEN "compare" ELSE "renew"]
    BY <1>3, <1>5, ComparedTypes DEF DriftInv, Look
  <2> HIDE DEF prev
  <2>2. PICK p \in Snapshots : p = prev
    BY <2>1
  <2>3. PICK pc \in Points : pc = IF kind = "exposure" THEN "compare" ELSE "renew"
    BY DEF Points
  <2> DEFINE x == [pc |-> pc, prev |-> p, new |-> session[s].new, stage |-> session[s].stage]
  <2>4. x \in DriftSession /\ session' = [session EXCEPT ![s] = x]
    <3> DEFINE y == [session[s] EXCEPT !.prev = p]
               z == [y EXCEPT !.pc = pc]
    <3>1. session' = [session EXCEPT ![s].prev = p, ![s].pc = pc]
      BY <2>1, <2>2, <2>3
    <3>2. session' = [session EXCEPT ![s] = z]
      BY <1>1, <3>1
    <3>3. /\ y \in DriftSession
          /\ y.prev = p /\ y.new = session[s].new /\ y.stage = session[s].stage
      BY <1>1 DEF DriftSession
    <3> HIDE DEF y
    <3>4. /\ z \in DriftSession /\ z.pc = pc
          /\ z.prev = p /\ z.new = session[s].new /\ z.stage = session[s].stage
      BY <3>3 DEF DriftSession
    <3> HIDE DEF z
    <3>5. z = x
      BY <3>4 DEF DriftSession
    <3> HIDE DEF x
    <3> QED
      BY <3>2, <3>4, <3>5
  <2>5. CheckFits(x)
    BY <1>5, <2>1, <2>2, <2>3 DEF CheckFits
  <2> QED
    BY <1>1, <1>2, <2>1, <2>4, <2>5, CheckedStep
<1>6. CASE prev # NoSnapshot /\ kind \notin Renewing \cup {"exposure"}
  <2>1. Compares(s, prev, NoSnapshot, 1)
    BY <1>6 DEF Look
  <2>2. LogTells' /\ \E x \in DriftSession : CheckFits(x) /\ session' = [session EXCEPT ![s] = x]
    <3> HIDE DEF prev
    <3> QED
      BY <1>1, <1>3, <1>6, <2>1, ComparesStep
  <2> QED
    BY <1>1, <1>2, <2>2, CheckedStep
<1> QED
  BY <1>4, <1>5, <1>6

LEMMA RenewFits ==
    ASSUME DriftInv, NEW s \in Sessions, Renew(s)
    PROVE  DriftInv'
<1>1. /\ s \in watcher /\ session[s] \in DriftSession /\ session \in [Sessions -> DriftSession]
      /\ CheckFits(session[s]) /\ session[s].pc = "renew"
      /\ UNCHANGED <<live, age, kind, watcher, cold, passes, since, life, troubles>>
  BY Watching DEF Renew, IsAt, Rest, DriftInv, ChecksFit
<1>2. /\ Compared(session[s].prev) /\ kind \in Renewing
      /\ Precedes(session[s].prev, Snapshot)
  BY <1>1, ComparedTypes DEF CheckFits, DriftInv
<1>3. CASE kind \in Suspending
  <2> DEFINE x == [pc |-> "keep", prev |-> session[s].prev, new |-> Snapshot,
                   stage |-> session[s].stage]
  <2>1. /\ session' = [session EXCEPT ![s].pc = "keep", ![s].new = Snapshot]
        /\ log' = log /\ base' = base
    BY <1>3 DEF Renew
  <2>2. x \in DriftSession /\ session' = [session EXCEPT ![s] = x]
    BY <2>1, BaseTaken, TakesNew DEF Points, Taken
  <2>3. CheckFits(x)
    BY <1>2, <1>3, BaseTaken DEF CheckFits
  <2> QED
    BY <1>1, <2>1, <2>2, <2>3, BaseTaken, CheckedStep
<1>4. CASE kind \notin Suspending
  <2>1. base' = Snapshot /\ Compares(s, session[s].prev, Snapshot, 1)
    BY <1>4 DEF Renew
  <2>2. LogTells' /\ \E x \in DriftSession : CheckFits(x) /\ session' = [session EXCEPT ![s] = x]
    BY <1>1, <1>2, <2>1, BaseTaken, ComparesStep
  <2> QED
    BY <1>1, <2>1, <2>2, BaseTaken, CheckedStep
<1> QED
  BY <1>3, <1>4

LEMMA KeepFits ==
    ASSUME DriftInv, NEW s \in Sessions, Keep(s)
    PROVE  DriftInv'
<1>1. /\ s \in watcher /\ CheckFits(session[s]) /\ session[s].pc = "keep"
      /\ UNCHANGED <<live, age, kind, watcher, cold, passes, since, life, troubles>>
  BY Watching DEF Keep, IsAt, Rest
<1>2. /\ Compared(session[s].prev) /\ kind \in Renewing
      /\ Taken(session[s].new) /\ Precedes(session[s].prev, session[s].new)
  BY <1>1 DEF CheckFits
<1>3. base' = session[s].new /\ Compares(s, session[s].prev, session[s].new, 1)
  BY DEF Keep
<1>4. LogTells' /\ \E x \in DriftSession : CheckFits(x) /\ session' = [session EXCEPT ![s] = x]
  BY <1>1, <1>2, <1>3, ComparesStep
<1> QED
  BY <1>1, <1>2, <1>3, <1>4, CheckedStep

LEMMA CompareFits ==
    ASSUME DriftInv, NEW s \in Sessions, Compare(s)
    PROVE  DriftInv'
<1>1. /\ s \in watcher /\ CheckFits(session[s]) /\ session[s].pc \in {"compare", "compare2"}
      /\ UNCHANGED <<live, age, base, kind, watcher, cold, passes, since, life, troubles>>
  BY Watching DEF Compare, IsAt, Watched, Rest
<1>2. /\ Compared(session[s].prev) /\ kind \in TwoStage /\ kind \notin Renewing
  BY <1>1 DEF CheckFits, TwoStage, Renewing
<1>3. Compares(s, session[s].prev, NoSnapshot, IF session[s].pc = "compare" THEN 1 ELSE 2)
  BY DEF Compare, IsAt
<1>4. LogTells' /\ \E x \in DriftSession : CheckFits(x) /\ session' = [session EXCEPT ![s] = x]
  <2>1. CASE session[s].pc = "compare"
    BY <1>1, <1>2, <1>3, <2>1, ComparesStep
  <2>2. CASE session[s].pc = "compare2"
    BY <1>1, <1>2, <1>3, <2>2, ComparesStep
  <2> QED
    BY <1>1, <2>1, <2>2
<1> QED
  BY <1>1, <1>4, BaseTaken, CheckedStep

LEMMA EmitFits ==
    ASSUME DriftInv, NEW s \in Sessions, Emit(s)
    PROVE  DriftInv'
<1>1. /\ s \in watcher /\ CheckFits(session[s]) /\ session[s].pc \in {"emit", "gaps"}
      /\ UNCHANGED <<live, age, base, log, kind, watcher, cold, passes, since, life, troubles>>
  BY Watching DEF Emit, IsAt, Watched, Rest
<1> DEFINE pc == AfterCompare({}, session[s].stage)
<1>2. pc \in {"compare2", "retake"} /\ (pc = "compare2" => kind \in TwoStage) /\ Goes(s, pc)
  BY DEF Emit, AfterCompare
<1> HIDE DEF pc
<1>3. PICK x \in DriftSession : /\ session' = [session EXCEPT ![s] = x]
                                /\ x.pc = pc /\ x.prev = session[s].prev
                                /\ x.new = session[s].new
  BY <1>2, CheckGoes DEF Points
<1>4. CheckFits(x)
  BY <1>1, <1>2, <1>3 DEF CheckFits, TwoStage
<1> QED
  BY <1>1, <1>3, <1>4, BaseTaken, CheckedStep

\* A step to where nothing is in hand.
LEMMA GoesQuietly ==
    ASSUME DriftInv, NEW s \in Sessions, NEW pc \in Quiet, Goes(s, pc)
    PROVE  \E x \in DriftSession : CheckFits(x) /\ session' = [session EXCEPT ![s] = x]
<1>1. pc \in Points
  BY DEF Quiet, Points
<1>2. PICK x \in DriftSession : session' = [session EXCEPT ![s] = x] /\ x.pc = pc
  BY <1>1, CheckGoes
<1> QED
  BY <1>2, QuietFits

LEMMA RetakeFits ==
    ASSUME DriftInv, NEW s \in Sessions, Retake(s)
    PROVE  DriftInv'
<1>1. /\ s \in watcher /\ session[s] \in DriftSession /\ session \in [Sessions -> DriftSession]
      /\ CheckFits(session[s]) /\ session[s].pc = "retake"
      /\ UNCHANGED <<live, age, log, kind, watcher, cold, passes, since, life, troubles>>
  BY Watching DEF Retake, IsAt, Rest, DriftInv, ChecksFit
<1> DEFINE new == IF kind = "governance" THEN session[s].new ELSE Snapshot
<1>2. Taken(new)
  BY <1>1, BaseTaken DEF CheckFits
<1>3. CASE kind \in Suspending
  <2> DEFINE x == [pc |-> "rekeep", prev |-> session[s].prev, new |-> new,
                   stage |-> session[s].stage]
  <2>1. session' = [session EXCEPT ![s].pc = "rekeep", ![s].new = new] /\ base' = base
    BY <1>3 DEF Retake
  <2> HIDE DEF new
  <2>2. x \in DriftSession /\ session' = [session EXCEPT ![s] = x]
    BY <1>2, <2>1, TakesNew DEF Points, Taken
  <2>3. CheckFits(x)
    BY <1>2, <1>3 DEF CheckFits
  <2> QED
    BY <1>1, <2>1, <2>2, <2>3, BaseTaken, CheckedStep
<1>4. CASE kind \notin Suspending
  <2>1. Goes(s, Ends(s)) /\ base' = new
    BY <1>4 DEF Retake
  <2>2. Ends(s) \in Quiet
    BY DEF Ends, Quiet
  <2> HIDE DEF new
  <2> QED
    BY <1>1, <1>2, <2>1, <2>2, GoesQuietly, CheckedStep
<1> QED
  BY <1>3, <1>4

LEMMA RekeepFits ==
    ASSUME DriftInv, NEW s \in Sessions, Rekeep(s)
    PROVE  DriftInv'
<1>1. /\ s \in watcher /\ CheckFits(session[s]) /\ session[s].pc = "rekeep"
      /\ UNCHANGED <<live, age, log, kind, watcher, cold, passes, since, life, troubles>>
      /\ base' = session[s].new /\ Goes(s, Ends(s))
  BY Watching DEF Rekeep, IsAt, Rest
<1>2. Taken(session[s].new) /\ Ends(s) \in Quiet
  BY <1>1 DEF CheckFits, Ends, Quiet
<1> QED
  BY <1>1, <1>2, GoesQuietly, CheckedStep

LEMMA EmitFailsFits ==
    ASSUME DriftInv, NEW s \in Sessions, EmitFails(s)
    PROVE  DriftInv'
<1>1. /\ s \in watcher
      /\ UNCHANGED <<live, age, base, kind, watcher, cold, passes, since, life>>
      /\ troubles' \in 0..MaxTroubles /\ troubles' >= troubles
  BY Watching, NumbersKnown DEF EmitFails, IsAt, Watched, Trouble
<1>2. LogTells' /\ CountsFit'
  BY <1>1, FateFits, NumbersKnown DEF EmitFails, DriftInv, CountsFit
<1> DEFINE pc == IF s = Worker THEN "broken" ELSE "failed"
<1>3. pc \in Quiet /\ Goes(s, pc)
  BY DEF EmitFails, Quiet
<1> HIDE DEF pc
<1> QED
  BY <1>1, <1>2, <1>3, GoesQuietly, BaseTaken, CheckStep

LEMMA SettleFits ==
    ASSUME DriftInv, Settle
    PROVE  DriftInv'
<1>1. /\ Worker \in watcher /\ Worker \in Sessions /\ Goes(Worker, "idle") /\ Fate(Worker, "stored")
      /\ UNCHANGED <<live, age, base, kind, watcher, cold, passes, since, life, troubles>>
  BY Watching DEF Settle, IsAt, Watched, Rest, Sessions
<1>2. LogTells' /\ CountsFit'
  BY <1>1, FateFits, CountsStay
<1>3. "idle" \in Quiet
  BY DEF Quiet
<1> QED
  BY <1>1, <1>2, <1>3, GoesQuietly, BaseTaken, CheckStep

LEMMA SettleFailsFits ==
    ASSUME DriftInv, SettleFails
    PROVE  DriftInv'
<1>1. /\ Worker \in watcher /\ Worker \in Sessions /\ Goes(Worker, "idle") /\ Fate(Worker, "lost")
      /\ UNCHANGED <<live, age, base, kind, watcher, cold, passes, since, life>>
      /\ troubles' \in 0..MaxTroubles /\ troubles' >= troubles
  BY Watching, NumbersKnown DEF SettleFails, IsAt, Watched, Sessions, Trouble, DriftInv, CountsFit
<1>2. LogTells' /\ CountsFit'
  BY <1>1, FateFits, NumbersKnown DEF DriftInv, CountsFit
<1>3. "idle" \in Quiet
  BY DEF Quiet
<1> QED
  BY <1>1, <1>2, <1>3, GoesQuietly, BaseTaken, CheckStep

LEMMA IdleFits == Idle \in DriftSession /\ Idle.pc = "idle" /\ CheckFits(Idle)
BY DEF Idle, DriftSession, Points, CheckFits

LEMMA RestartFits ==
    ASSUME DriftInv, Restart
    PROVE  DriftInv'
<1>1. /\ Worker \in watcher /\ Worker \in Sessions /\ Fate(Worker, "lost")
      /\ session' = [session EXCEPT ![Worker] = Idle]
      /\ base' = NoSnapshot /\ cold' = TRUE
      /\ life' = life + 1 /\ troubles' = troubles + 1 /\ troubles < MaxTroubles
      /\ UNCHANGED <<kind, watcher, live, age, passes, since>>
  BY DEF Restart, Sessions, Trouble
<1>2. LogTells'
  BY <1>1, FateFits
<1>3. CountsFit'
  BY <1>1, NumbersKnown DEF DriftInv, CountsFit
<1> QED
  BY <1>1, <1>2, <1>3, IdleFits, CheckStep

LEMMA RequestFits ==
    ASSUME DriftInv, NEW c \in Calls, Request(c)
    PROVE  DriftInv'
<1>1. /\ c \in watcher /\ c \in Sessions /\ Goes(c, "look")
      /\ UNCHANGED <<live, age, base, log, kind, watcher, cold, passes, since, life, troubles>>
  BY DEF Request, Watched, Rest, Sessions
<1>2. "look" \in Quiet
  BY DEF Quiet
<1> QED
  BY <1>1, <1>2, GoesQuietly, BaseTaken, CheckedStep

LEMMA RefreshFits ==
    ASSUME DriftInv, NEW c \in Calls, Refresh(c)
    PROVE  DriftInv'
<1>1. /\ c \in watcher /\ c \in Sessions /\ Goes(c, "done") /\ base' = Snapshot
      /\ UNCHANGED <<live, age, log, kind, watcher, cold, passes, since, life, troubles>>
  BY DEF Refresh, Rest, Sessions
<1>2. "done" \in Quiet
  BY DEF Quiet
<1> QED
  BY <1>1, <1>2, GoesQuietly, BaseTaken, CheckedStep

LEMMA ChangeFits ==
    ASSUME DriftInv, Change
    PROVE  DriftInv'
BY FactsChangeFits, CountsStay DEF Change, Rest

LEMMA BootFits ==
    ASSUME DriftInv, Boot
    PROVE  DriftInv'
<1>1. /\ cold' = FALSE /\ since' = passes
      /\ UNCHANGED <<kind, watcher, session, log, passes, life, troubles>>
      /\ base' = IF kind \in Bootstrapped
                 THEN [shot |-> Shot(live'), facts |-> live', age |-> age']
                 ELSE base
  BY DEF Boot
<1>2. \E f \in Possible : Becomes(f)
  BY DEF Boot, DriftInv, WatchFits
<1>3. CountsFit'
  <2>1. cold' \in BOOLEAN
    BY <1>1
  <2>2. since' \in 0..passes'
    BY <1>1, NumbersKnown
  <2> QED
    BY <1>1, <2>1, <2>2 DEF DriftInv, CountsFit
<1>4. base' = base \/ base' = Snapshot'
  <2>1. Shot(live') = Shot(live)'
    BY <1>1 DEF Shot
  <2>2. Snapshot' = [shot |-> Shot(live)', facts |-> live', age |-> age']
    BY DEF Snapshot
  <2> QED
    BY <1>1, <2>1, <2>2
<1> QED
  BY <1>1, <1>2, <1>3, <1>4, FactsChangeFits

LEMMA PassFits ==
    ASSUME DriftInv, Pass
    PROVE  DriftInv'
<1>1. CountsFit'
  BY NumbersKnown DEF Pass, DriftInv, CountsFit
<1>2. \E f \in Possible : Becomes(f)
  BY DEF Pass, DriftInv, WatchFits
<1>3. Worker \in watcher /\ Worker \in Sessions
  BY DEF Pass, Sessions
<1>4. PICK x \in DriftSession : /\ x.pc = "look"
                                /\ session' = [session EXCEPT ![Worker] = x]
  <2>1. [Idle EXCEPT !.pc = "look"] \in DriftSession /\ [Idle EXCEPT !.pc = "look"].pc = "look"
    BY DEF Idle, DriftSession, Points
  <2> QED
    BY <2>1 DEF Pass
<1>5. /\ live' \in Possible /\ age' \in 1..(MaxChanges + 1) /\ Possible' = Possible
      /\ \A y : Taken(y) => Taken(y)'
      /\ \A y : CheckFits(y) => CheckFits(y)'
      /\ kind' = kind /\ watcher' = watcher /\ base' = base /\ log' = log
  BY <1>2, TakenStays DEF Pass, DriftInv
<1>6. WatchFits'
  <2>1. base = NoSnapshot \/ \A y : y = base => Taken(y)'
    BY <1>5 DEF DriftInv, WatchFits
  <2> PICK y : y = base
    OBVIOUS
  <2>2. base' = NoSnapshot \/ Taken(base)'
    BY <1>5, <2>1 DEF Taken
  <2> QED
    BY <1>5, <2>2 DEF DriftInv, WatchFits
<1>7. ChecksFit'
  <2>1. /\ session' \in [Sessions -> DriftSession]
        /\ \A t \in Sessions : session'[t] = IF t = Worker THEN x ELSE session[t]
    BY <1>3, <1>4 DEF DriftInv, ChecksFit
  <2>2. CheckFits(x)
    BY <1>4, QuietFits DEF Quiet
  <2>3. \A t \in Sessions : CheckFits(session[t])'
    <3> TAKE t \in Sessions
    <3> PICK y : y = session'[t]
      OBVIOUS
    <3>1. CheckFits(y)'
      BY <1>5, <2>1, <2>2 DEF DriftInv, ChecksFit
    <3> QED
      BY <3>1 DEF CheckFits
  <2>4. \A t \in Sessions : t \in watcher' \/ session'[t].pc = "idle"
    BY <1>3, <1>5, <2>1 DEF DriftInv, ChecksFit
  <2>5. session' \in [Sessions -> DriftSession']
    BY <2>1 DEF DriftSession
  <2> QED
    BY <2>3, <2>4, <2>5 DEF ChecksFit
<1> QED
  BY <1>1, <1>5, <1>6, <1>7, LogStays DEF DriftInv

LEMMA DriftStutters ==
    ASSUME DriftInv, UNCHANGED driftVars
    PROVE  DriftInv'
<1>1. UNCHANGED <<kind, watcher, live, age, base, session, log>> /\ CountsFit'
  BY CountsStay DEF driftVars
<1>2. \E f \in Possible : Becomes(f)
  BY <1>1, NumbersKnown DEF Becomes, DriftInv, WatchFits
<1> QED
  BY <1>1, <1>2, FactsChangeFits

LEMMA DriftInvInit == DriftInit => DriftInv
<1> SUFFICES ASSUME DriftInit PROVE DriftInv
  OBVIOUS
<1>1. WatchFits /\ CountsFit
  BY DriftAssumption DEF DriftInit, WatchFits, CountsFit
<1>2. LogTells
  BY DEF DriftInit, LogTells
<1>3. ChecksFit
  BY IdleFits DEF DriftInit, ChecksFit
<1> QED
  BY <1>1, <1>2, <1>3 DEF DriftInv

LEMMA DriftInvStep ==
    ASSUME DriftInv, [DriftNext]_driftVars
    PROVE  DriftInv'
BY DriftStutters, ChangeFits, BootFits, PassFits, SettleFits, SettleFailsFits, RestartFits,
   RequestFits, RefreshFits, LookFits, RenewFits, KeepFits, CompareFits, EmitFits,
   EmitFailsFits, RetakeFits, RekeepFits
   DEF DriftNext

LEMMA DriftAlwaysInv == DriftSpec => []DriftInv
BY DriftInvInit, DriftInvStep, PTL DEF DriftSpec

LEMMA LogKnown ==
    ASSUME DriftInv
    PROVE  /\ log \in Seq(LogEntry) /\ Len(log) \in Nat /\ DOMAIN log = 1..Len(log)
           /\ \A i \in DOMAIN log :
                 /\ log[i] \in LogEntry /\ EntryTells(log[i])
                 /\ log[i].by \in Sessions /\ log[i].stage \in {1, 2}
                 /\ log[i].life \in Nat /\ log[i].since \in Nat /\ log[i].pass \in Nat
                 /\ log[i].was \in Nat /\ log[i].is \in Nat
<1>1. log \in Seq(LogEntry) /\ \A i \in 1..Len(log) : EntryTells(log[i])
  BY DEF DriftInv, LogTells
<1>2. Len(log) \in Nat /\ DOMAIN log = 1..Len(log) /\ \A i \in 1..Len(log) : log[i] \in LogEntry
  BY <1>1
<1>3. \A e \in LogEntry : /\ e.by \in Sessions /\ e.stage \in {1, 2}
                          /\ e.life \in Nat /\ e.since \in Nat /\ e.pass \in Nat
                          /\ e.was \in Nat /\ e.is \in Nat
  BY DEF LogEntry
<1> QED
  BY <1>1, <1>2, <1>3

\* What a drift service reports did change after the snapshot it compares with,
\* whoever took that snapshot and however requests to the API overlap: no
\* comparison tells anything of facts that are the snapshot's own, except that
\* of detection, which tells of a gap for as long as there is one, and that of
\* the graph, which counts deprecated components in one of the two only.
THEOREM ReportsAlwaysChanges == DriftSpec => []ReportsAreChanges
<1>1. DriftInv => ReportsAreChanges
  <2> SUFFICES ASSUME DriftInv, NEW i \in DOMAIN log,
                      log[i].drifts \ {"gap_detected"} # {}
               PROVE  \/ log[i].is > log[i].was
                      \/ kind = "graph" /\ log[i].to.retired > 0
    BY DEF ReportsAreChanges
  <2>1. /\ log[i] \in LogEntry /\ EntryTells(log[i])
        /\ log[i].is \in Nat /\ log[i].was \in Nat /\ log[i].stage \in {1, 2}
    BY LogKnown
  <2> SUFFICES ASSUME log[i].is <= log[i].was, kind # "graph" \/ ~(log[i].to.retired > 0)
               PROVE  FALSE
    BY <2>1
  <2>2. log[i].is = log[i].was /\ log[i].was > 0 /\ log[i].from = log[i].to
    BY <2>1 DEF EntryTells
  <2>3. log[i].to \in Facts /\ log[i].drifts = Told(log[i].to, log[i].to, log[i].stage)
    BY <2>1, <2>2 DEF EntryTells, Possible
  <2>4. kind = "graph" => log[i].to.retired = 0
    BY <2>3, FactsFields
  <2> QED
    BY <2>1, <2>3, <2>4, SameFactsTellNothing, KindKnown DEF DriftInv
<1> QED
  BY <1>1, DriftAlwaysInv, PTL

\* What got worse since the snapshot was taken is reported: the comparison of
\* each of the services looks at what its snapshot keeps of the score and of
\* the status of a record.
THEOREM WorseningAlwaysReported == DriftSpec => []WorseningIsReported
<1>1. DriftInv => WorseningIsReported
  <2> SUFFICES ASSUME DriftInv, NEW i \in DOMAIN log, log[i].was > 0
               PROVE  LET e == log[i]
                          tells == IF kind \in TwoStage THEN e.stage ELSE 0
                      IN /\ tells # 1 /\ e.to.score < e.from.score => e.drifts # {}
                         /\ tells # 2 /\ e.from.level = "high" /\ e.to.level = "low"
                              /\ (kind = "governance" =>
                                    AssetGovernance(e.from) = "COMPLIANT" /\ e.to.total = 2)
                            => e.drifts # {}
    BY DEF WorseningIsReported
  <2>1. log[i] \in LogEntry /\ EntryTells(log[i]) /\ log[i].stage \in {1, 2}
    BY LogKnown
  <2>2. /\ log[i].from \in Possible /\ log[i].to \in Possible
        /\ log[i].drifts = Told(log[i].from, log[i].to, log[i].stage)
        /\ kind \in AllKinds
    BY <2>1, KindKnown DEF EntryTells, DriftInv
  <2> QED
    BY <2>1, <2>2, WorseIsTold, FallIsTold
<1> QED
  BY <1>1, DriftAlwaysInv, PTL

-----------------------------------------------------------------------------
(* The comparisons of a worker meet.  What the next comparison starts from   *)
(* is the snapshot the process holds; while a check that compares before it  *)
(* takes the new snapshot is between the two, it is the snapshot to come.    *)

Hand == session[Worker]
End(i) == EndOf(log[i])

\* Entries the next comparison of stage k could follow, and the one it would.
Mine(i, k) == /\ i \in DOMAIN log
              /\ log[i].life = life /\ log[i].stage = k
              /\ kind \in Bootstrapped => log[i].since = since
LastMine(i, k) == Mine(i, k) /\ \A m \in (i + 1)..Len(log) : ~Mine(m, k)

Comparing == {"look", "renew", "keep", "compare"}
Having == {"gaps", "emit", "compare2", "retake", "rekeep"}

\* A comparison may start from later facts than the last one ended with.
Gaps == Meets(1, 0)

PassesOrdered ==
    /\ \A i \in DOMAIN log : /\ log[i].life <= life
                             /\ log[i].since < log[i].pass /\ log[i].pass <= passes
    /\ \A i, j \in DOMAIN log : i < j /\ log[i].stage = log[j].stage => log[i].pass < log[j].pass

\* What the log has of the pass that goes on.
PassNoted ==
    \A i \in DOMAIN log :
        /\ log[i].fate = "pending" => log[i].pass = passes /\ Hand.pc # "idle"
        /\ log[i].pass = passes =>
              /\ log[i].fate = "unsent" => Hand.pc \in {"idle", "broken"}
              /\ Hand.pc \notin Comparing
              /\ Hand.pc \in Having => log[i].stage <= Hand.stage

HandOrdered ==
    /\ Hand.pc # "idle" => since < passes
    /\ Hand.pc = "compare2" => Hand.stage = 1
    /\ Hand.pc = "gaps" => base = NoSnapshot
    /\ Hand.pc \in {"retake", "rekeep"} /\ base # NoSnapshot /\ kind \in TwoStage => Hand.stage = 2
    /\ Hand.pc = "emit" => \E m \in DOMAIN log : log[m].pass = passes /\ log[m].fate = "pending"

HandCurrent ==
    /\ Hand.pc \in {"renew", "keep", "compare", "compare2"} => Hand.prev = base
    /\ Hand.pc = "emit" /\ kind \notin Renewing => Hand.prev = base
    /\ Hand.pc \in {"emit", "retake"} /\ kind \in Renewing /\ ~Gaps =>
          base = NoSnapshot \/ base.age = age
    /\ Hand.pc = "rekeep" /\ kind \in Renewing => base = NoSnapshot \/ base.age <= Hand.new.age
    /\ Hand.pc \in Having /\ kind \notin Renewing /\ ~Gaps /\ kind # "governance" =>
          Hand.new.age = age

\* The snapshot held is where the last comparison ended.
BaseMeets ==
    kind \in Renewing \/ Hand.pc \notin Having =>
        \A k \in {1, 2} : \A i \in DOMAIN log : LastMine(i, k) =>
            base # NoSnapshot /\ Meets(base.age, End(i))

\* The snapshot to come is.
NewMeets ==
    kind \notin Renewing /\ Hand.pc \in Having =>
        \A k \in {1, 2} : \A i \in DOMAIN log : LastMine(i, k) =>
            /\ base # NoSnapshot
            /\ log[i].pass = passes => log[i].was = base.age /\ Meets(Hand.new.age, log[i].is)
            /\ log[i].pass # passes => /\ Meets(base.age, End(i))
                                       /\ k <= Hand.stage => Meets(Hand.new.age, base.age)

ChainInv == /\ ComparisonsMeet
            /\ Worker \in watcher => /\ PassesOrdered /\ PassNoted /\ HandOrdered
                                     /\ HandCurrent /\ BaseMeets /\ NewMeets

LEMMA MeetsKnown ==
    ASSUME NEW a \in Nat, NEW b \in Nat
    PROVE  /\ Meets(a, a)
           /\ Meets(a, b) <=> a = b \/ (Gaps /\ a >= b)
           /\ \A c \in Nat : Meets(a, b) /\ Meets(b, c) => Meets(a, c)
BY DEF Meets, Gaps

LEMMA OnlyWorker ==
    ASSUME DriftInv, Worker \in watcher
    PROVE  /\ watcher = {Worker}
           /\ \A s \in Sessions : session[s].pc # "idle" => s = Worker
           /\ \A i \in DOMAIN log : log[i].by = Worker
<1>1. watcher = {Worker}
  BY DriftAssumption DEF DriftInv, WatchFits
<1>2. \A s \in Sessions : session[s].pc # "idle" => s = Worker
  BY <1>1, Watching
<1>3. \A i \in DOMAIN log : log[i].by = Worker
  BY <1>1, LogKnown DEF EntryTells
<1> QED
  BY <1>1, <1>2, <1>3

LEMMA EntriesKept ==
    ASSUME UNCHANGED <<kind, log>>
    PROVE  /\ \A i : End(i)' = End(i)
           /\ ComparisonsMeet => ComparisonsMeet'
           /\ UNCHANGED life /\ (kind \in Bootstrapped => UNCHANGED since) =>
                 \A i, k : LastMine(i, k)' <=> LastMine(i, k)
<1>1. \A i : End(i)' = End(i)
  BY DEF End, EndOf, BrokeOff
<1>2. ComparisonsMeet => ComparisonsMeet'
  BY DEF ComparisonsMeet, Follows, SameWatch, Meets, EndOf, BrokeOff
<1>3. ASSUME UNCHANGED life, kind \in Bootstrapped => UNCHANGED since
      PROVE  \A i, k : LastMine(i, k)' <=> LastMine(i, k)
  BY <1>3 DEF LastMine, Mine
<1> QED
  BY <1>1, <1>2, <1>3

LEMMA MeetsKept ==
    ASSUME UNCHANGED kind
    PROVE  \A a, b : Meets(a, b)' <=> Meets(a, b)
BY DEF Meets

\* A comparison by the worker.
LEMMA ComparesChain ==
    ASSUME DriftInv, ChainInv, Worker \in watcher,
           UNCHANGED <<kind, watcher, live, age, life, since, passes>>,
           NEW prev, Compared(prev), NEW new, NEW k \in {1, 2},
           kind \in Renewing => Taken(new) /\ Precedes(prev, new),
           Compares(Worker, prev, new, k),
           \A i \in DOMAIN log : LastMine(i, k) => Meets(prev.age, End(i)),
           \A i \in DOMAIN log : /\ log[i].stage = k => log[i].pass < passes
                                 /\ log[i].pass = passes => log[i].fate # "unsent",
           since < passes
    PROVE  /\ ComparisonsMeet' /\ PassesOrdered'
           /\ \E seen, drifts :
                /\ seen \in Snapshots /\ seen = IF kind \in Renewing THEN new ELSE Snapshot
                /\ Hand' = [pc |-> AfterCompare(drifts, k), prev |-> prev, new |-> seen, stage |-> k]
                /\ drifts # {} => \E i \in DOMAIN log' : log'[i].pass = passes /\ log'[i].fate = "pending"
                /\ \A i \in DOMAIN log' : log'[i].pass = passes => log'[i].fate # "unsent"
                /\ \A i \in DOMAIN log' :
                      IF i \in DOMAIN log
                      THEN /\ log'[i] = log[i] /\ End(i)' = End(i)
                           /\ \A j \in {1, 2} : LastMine(i, j)' =>
                                LastMine(i, j) /\ (j = k => prev.age = seen.age)
                      ELSE /\ log'[i].pass = passes /\ log'[i].stage = k
                           /\ log'[i].was = prev.age /\ log'[i].is = seen.age
                           /\ End(i)' = seen.age
                           /\ \A j \in {1, 2} : LastMine(i, j)' => j = k
<1> DEFINE drifts == IF kind \in Renewing THEN Drifts(prev.shot, new.shot, k)
                     ELSE Drifts(prev.shot, live, k)
           snap == IF kind \in Renewing THEN new ELSE Snapshot
<1>1. PICK seen \in Snapshots : seen = snap
  BY SnapshotTaken DEF DriftInv, Taken
<1>2. seen.age \in Nat /\ prev.age \in Nat
  <2>1. prev.age \in 0..age
    BY ComparedTypes DEF DriftInv
  <2> QED
    BY <2>1, NumbersKnown DEF Snapshots
<1> DEFINE e == [by |-> Worker, life |-> life, since |-> since, pass |-> passes, stage |-> k,
                 was |-> prev.age, is |-> seen.age, from |-> prev.facts, to |-> seen.facts,
                 drifts |-> drifts, fate |-> IF drifts = {} THEN "quiet" ELSE "pending"]
           x == [pc |-> AfterCompare(drifts, k), prev |-> prev, new |-> seen, stage |-> k]
<1>3. /\ log' = IF drifts = {} /\ prev.age = seen.age THEN log ELSE Append(log, e)
      /\ session' = [session EXCEPT ![Worker] = x]
  BY <1>1 DEF Compares
<1> HIDE DEF drifts, snap
<1>4. /\ e.by = Worker /\ e.life = life /\ e.since = since /\ e.pass = passes /\ e.stage = k
      /\ e.was = prev.age /\ e.is = seen.age /\ e.fate # "unsent"
      /\ drifts # {} => e.fate = "pending"
  OBVIOUS
<1>5. Hand' = x
  BY <1>3 DEF Hand, DriftInv, ChecksFit, Sessions
<1> HIDE DEF e, x
<1>6. /\ log \in Seq(LogEntry) /\ Len(log) \in Nat /\ DOMAIN log = 1..Len(log)
      /\ \A i \in DOMAIN log : log[i].by = Worker
  BY LogKnown, OnlyWorker
<1>7. PICK n \in Nat : n = Len(log) + 1
  BY <1>6
<1>8. CASE log' = log
  <2>1. drifts = {} /\ prev.age = seen.age
    <3>1. Len(Append(log, e)) = Len(log) + 1
      BY <1>6
    <3>2. Len(log') = Len(log)
      BY <1>8
    <3>3. Len(log) \in Nat
      BY <1>6
    <3>4. log' # Append(log, e)
      <4> SUFFICES ASSUME log' = Append(log, e) PROVE FALSE
        OBVIOUS
      <4>1. Len(log') = Len(Append(log, e))
        OBVIOUS
      <4> QED
        BY <3>1, <3>2, <3>3, <4>1
    <3> QED
      BY <1>3, <3>4
  <2>2. /\ \A i : End(i)' = End(i)
        /\ ComparisonsMeet'
        /\ \A i, j : LastMine(i, j)' <=> LastMine(i, j)
    BY <1>8, EntriesKept DEF ChainInv
  <2>3. PassesOrdered'
    BY <1>8 DEF ChainInv, PassesOrdered
  <2> QED
    BY <1>1, <1>5, <1>8, <2>1, <2>2, <2>3 DEF x, snap
<1>9. CASE log' = Append(log, e)
  <2>1. /\ Len(log') = n /\ DOMAIN log' = 1..n /\ log'[n] = e /\ n \in Nat
        /\ \A i \in 1..Len(log) : log'[i] = log[i]
    BY <1>6, <1>9, <1>7
  <2>2. 1..n = 1..Len(log) \cup {n} /\ n \notin 1..Len(log) /\ n - 1 = Len(log) /\ n > Len(log)
    BY <1>6, <1>7
  <2>3. \A d : BrokeOff(d)' <=> BrokeOff(d)
    BY <1>4, <1>6, <2>1, <2>2 DEF BrokeOff
  <2>4. ~BrokeOff(e)
    BY <1>4 DEF BrokeOff
  <2>5. \A d : EndOf(d)' = EndOf(d)
    BY <2>3 DEF EndOf
  <2>6. \A i \in 1..Len(log) : End(i)' = End(i)
    BY <2>1, <2>5 DEF End
  <2>7. End(n)' = seen.age
    <3>1. EndOf(e) = seen.age
      BY <1>4, <2>4 DEF EndOf
    <3> QED
      BY <2>1, <2>5, <3>1 DEF End
  <2>8. /\ \A i \in 1..Len(log) : \A j : Mine(i, j)' <=> Mine(i, j)
        /\ \A j : Mine(n, j)' <=> j = k
    <3>1. \A i \in 1..Len(log) : \A j : Mine(i, j)' <=> Mine(i, j)
      BY <1>6, <2>1, <2>2 DEF Mine
    <3>2. n \in DOMAIN log' /\ log'[n] = e
      BY <2>1, <2>2
    <3>3. \A j : Mine(n, j)' <=> j = k
      BY <1>4, <3>2 DEF Mine
    <3> QED
      BY <3>1, <3>3
  <2>9. /\ \A i \in 1..Len(log), j \in {1, 2} : LastMine(i, j)' => LastMine(i, j) /\ j # k
        /\ \A j \in {1, 2} : LastMine(n, j)' => j = k
    <3>1. ASSUME NEW i \in 1..Len(log), NEW j \in {1, 2}, LastMine(i, j)'
          PROVE  LastMine(i, j) /\ j # k
      <4>1. /\ Mine(i, j)' /\ \A m \in (i + 1)..n : ~Mine(m, j)'
        BY <2>1, <3>1 DEF LastMine
      <4>2. n \in (i + 1)..n /\ \A m \in (i + 1)..Len(log) : m \in (i + 1)..n /\ m \in 1..Len(log)
        BY <1>6, <2>1, <2>2
      <4>3. j # k
        BY <2>8, <4>1, <4>2
      <4>4. Mine(i, j) /\ \A m \in (i + 1)..Len(log) : ~Mine(m, j)
        BY <2>8, <3>1, <4>1, <4>2
      <4> QED
        BY <4>3, <4>4 DEF LastMine
    <3>2. \A j \in {1, 2} : LastMine(n, j)' => j = k
      BY <2>8 DEF LastMine
    <3> QED
      BY <3>1, <3>2
  <2>10. PassesOrdered'
    <3>1. ASSUME NEW i \in 1..n
          PROVE  /\ log'[i].life <= life' /\ log'[i].since < log'[i].pass
                 /\ log'[i].pass <= passes'
      BY <1>4, <1>6, <2>1, <2>2, NumbersKnown DEF ChainInv, PassesOrdered
    <3>2. ASSUME NEW i \in 1..n, NEW j \in 1..n, i < j, log'[i].stage = log'[j].stage
          PROVE  log'[i].pass < log'[j].pass
      <4>1. i \in 1..Len(log)
        BY <1>6, <1>7, <2>1, <3>2
      <4>2. CASE j = n
        BY <1>4, <1>6, <2>1, <3>2, <4>1, <4>2
      <4>3. CASE j \in 1..Len(log)
        BY <1>6, <2>1, <3>2, <4>1, <4>3 DEF ChainInv, PassesOrdered
      <4> QED
        BY <2>2, <4>2, <4>3
    <3> QED
      BY <2>1, <3>1, <3>2 DEF PassesOrdered
  <2>11. ComparisonsMeet'
    <3> SUFFICES ASSUME NEW i \in 1..n, NEW j \in 1..n, Follows(i, j)'
                 PROVE  Meets(log[j].was, EndOf(log[i]))'
      BY <2>1 DEF ComparisonsMeet
    <3>1. i < j /\ SameWatch(i, j)' /\ \A m \in (i + 1)..(j - 1) : ~SameWatch(m, j)'
      BY DEF Follows
    <3>2. i \in 1..Len(log) /\ i \in DOMAIN log
      BY <1>6, <1>7, <2>1, <3>1
    <3>3. End(i)' = End(i) /\ \A a, b : Meets(a, b)' <=> Meets(a, b)
      BY <2>6, <3>2, MeetsKept
    <3>4. CASE j \in 1..Len(log)
      <4>1. \A m \in 1..j : SameWatch(m, j)' <=> SameWatch(m, j)
        BY <1>6, <2>1, <3>4 DEF SameWatch
      <4>2. Follows(i, j)
        BY <1>6, <3>1, <3>2, <3>4, <4>1 DEF Follows
      <4>3. Meets(log[j].was, End(i))
        BY <1>6, <3>2, <3>4, <4>2 DEF ChainInv, ComparisonsMeet, End
      <4> QED
        BY <2>1, <3>3, <3>4, <4>3 DEF End, Meets
    <3>5. CASE j = n
      <4>1. \A m \in 1..Len(log) : SameWatch(m, n)' <=> Mine(m, k)
        <5> SUFFICES ASSUME NEW m \in 1..Len(log) PROVE SameWatch(m, n)' <=> Mine(m, k)
          OBVIOUS
        <5>1. log'[m] = log[m] /\ log'[n] = e /\ m \in DOMAIN log /\ log[m].by = Worker
          BY <1>6, <2>1
        <5> QED
          BY <1>4, <5>1 DEF SameWatch, Mine
      <4>2. LastMine(i, k)
        <5>1. \A m \in (i + 1)..Len(log) : m \in (i + 1)..(n - 1) /\ m \in 1..Len(log)
          BY <1>6, <2>2, <3>2
        <5>2. SameWatch(i, n)' /\ \A m \in (i + 1)..(n - 1) : ~SameWatch(m, n)'
          BY <3>1, <3>5
        <5>3. Mine(i, k) /\ \A m \in (i + 1)..Len(log) : ~Mine(m, k)
          BY <3>2, <4>1, <5>1, <5>2
        <5> QED
          BY <5>3 DEF LastMine
      <4>3. Meets(prev.age, End(i))
        BY <3>2, <4>2
      <4>4. log'[j].was = prev.age
        BY <1>4, <2>1, <3>5
      <4> QED
        BY <3>3, <4>3, <4>4 DEF End, Meets
    <3> QED
      BY <2>2, <3>4, <3>5
  <2>12. \A i \in DOMAIN log' : log'[i].pass = passes => log'[i].fate # "unsent"
    BY <1>4, <1>6, <2>1, <2>2
  <2>13. drifts # {} => \E i \in DOMAIN log' : log'[i].pass = passes /\ log'[i].fate = "pending"
    BY <1>4, <2>1, <2>2
  <2>14. ASSUME NEW i \in DOMAIN log'
         PROVE  IF i \in DOMAIN log
                THEN /\ log'[i] = log[i] /\ End(i)' = End(i)
                     /\ \A j \in {1, 2} : LastMine(i, j)' =>
                          LastMine(i, j) /\ (j = k => prev.age = seen.age)
                ELSE /\ log'[i].pass = passes /\ log'[i].stage = k
                     /\ log'[i].was = prev.age /\ log'[i].is = seen.age
                     /\ End(i)' = seen.age
                     /\ \A j \in {1, 2} : LastMine(i, j)' => j = k
    <3>1. CASE i \in 1..Len(log)
      BY <1>6, <2>1, <2>6, <2>9, <3>1
    <3>2. CASE i = n
      <4>1. n \notin DOMAIN log
        BY <1>6, <2>2
      <4>2. log'[n].pass = passes /\ log'[n].stage = k /\ log'[n].was = prev.age
            /\ log'[n].is = seen.age
        BY <1>4, <2>1
      <4> QED
        BY <2>7, <2>9, <3>2, <4>1, <4>2
    <3> QED
      BY <2>1, <2>2, <3>1, <3>2
  <2> QED
    BY <1>1, <1>5, <2>10, <2>11, <2>12, <2>13, <2>14 DEF x, snap
<1> QED
  BY <1>3, <1>8, <1>9

LEMMA HandTakes ==
    ASSUME DriftInv, NEW x, session' = [session EXCEPT ![Worker] = x]
    PROVE  Hand' = x
BY DEF Hand, DriftInv, ChecksFit, Sessions

LEMMA HandGoes ==
    ASSUME DriftInv, NEW pc \in Points, Goes(Worker, pc)
    PROVE  /\ Hand'.pc = pc /\ Hand'.prev = Hand.prev
           /\ Hand'.new = Hand.new /\ Hand'.stage = Hand.stage
<1>1. PICK x \in DriftSession : /\ session' = [session EXCEPT ![Worker] = x]
                                /\ x.pc = pc /\ x.prev = Hand.prev
                                /\ x.new = Hand.new /\ x.stage = Hand.stage
  BY CheckGoes DEF Sessions, Hand
<1> QED
  BY <1>1, HandTakes

LEMMA HandKnown ==
    ASSUME DriftInv
    PROVE  /\ Hand \in DriftSession /\ Hand.pc \in Points /\ Hand.stage \in {1, 2}
           /\ CheckFits(Hand) /\ (Hand.pc # "idle" => Worker \in watcher)
BY DEF DriftInv, ChecksFit, Hand, Sessions, DriftSession

\* The numbers compared.
LEMMA AgesKnown ==
    ASSUME DriftInv
    PROVE  /\ base # NoSnapshot => base.age \in Nat /\ base.age <= age
           /\ Taken(Hand.new) => Hand.new.age \in Nat /\ Hand.new.age <= age
           /\ \A i \in DOMAIN log : End(i) \in Nat /\ log[i].was \in Nat /\ log[i].is \in Nat
<1>1. \A x : Taken(x) => x.age \in Nat /\ x.age <= age
  BY NumbersKnown DEF Taken
<1>2. base # NoSnapshot => Taken(base)
  BY DEF DriftInv, WatchFits
<1>3. \A i \in DOMAIN log : End(i) \in Nat /\ log[i].was \in Nat /\ log[i].is \in Nat
  BY LogKnown DEF End, EndOf
<1> QED
  BY <1>1, <1>2, <1>3

\* A step of a pass that makes no comparison.
LEMMA NothingNoted ==
    ASSUME DriftInv, ChainInv, Worker \in watcher,
           UNCHANGED <<kind, watcher, log, life, since, passes>>,
           Hand.pc \notin {"idle", "broken"}, Hand'.pc # "idle",
           Hand'.pc \in Comparing => Hand.pc \in Comparing,
           Hand'.pc \in Having => \/ Hand.pc \in Comparing
                                  \/ Hand.pc \in Having /\ Hand'.stage = Hand.stage
    PROVE  /\ ComparisonsMeet' /\ PassesOrdered' /\ PassNoted' /\ since' < passes'
           /\ \A i, k : LastMine(i, k)' <=> LastMine(i, k)
           /\ \A i : End(i)' = End(i)
<1>1. /\ ComparisonsMeet'
      /\ \A i, k : LastMine(i, k)' <=> LastMine(i, k)
      /\ \A i : End(i)' = End(i)
  BY EntriesKept DEF ChainInv
<1>2. PassesOrdered'
  BY DEF ChainInv, PassesOrdered
<1>3. PassNoted'
  <2>1. PassNoted
    BY DEF ChainInv
  <2> QED
    BY <2>1 DEF PassNoted, Comparing, Having
<1>4. since' < passes'
  BY DEF ChainInv, HandOrdered
<1> QED
  BY <1>1, <1>2, <1>3, <1>4

\* A step that settles what becomes of the events of a pass.
LEMMA FateChain ==
    ASSUME DriftInv, ChainInv, Worker \in watcher, UNCHANGED <<kind, watcher, passes>>,
           life' \in Nat, life' >= life,
           NEW fate \in {"unsent", "lost", "stored"}, Fate(Worker, fate)
    PROVE  /\ ComparisonsMeet' /\ PassesOrdered' /\ DOMAIN log' = DOMAIN log
           /\ \A i \in DOMAIN log :
                 /\ log'[i].life = log[i].life /\ log'[i].since = log[i].since
                 /\ log'[i].stage = log[i].stage /\ log'[i].pass = log[i].pass
                 /\ log'[i].was = log[i].was /\ log'[i].is = log[i].is
                 /\ log'[i].fate = IF log[i].fate = "pending" THEN fate ELSE log[i].fate
           /\ \A i \in DOMAIN log :
                 IF fate = "unsent" /\ log[i].pass = passes /\ kind \notin Renewing
                    /\ \E m \in DOMAIN log : log[m].pass = passes /\ log[m].fate = "pending"
                 THEN End(i)' = log[i].was ELSE End(i)' = End(i)
           /\ UNCHANGED <<life, since>> => \A i, k : LastMine(i, k)' <=> LastMine(i, k)
<1>1. /\ log \in Seq(LogEntry) /\ Len(log) \in Nat /\ DOMAIN log = 1..Len(log)
      /\ \A i \in DOMAIN log : log[i].by = Worker /\ log[i] \in LogEntry
  BY LogKnown, OnlyWorker
<1>2. /\ DOMAIN log' = DOMAIN log
      /\ \A i \in DOMAIN log : log'[i] = IF log[i].fate = "pending"
                                         THEN [log[i] EXCEPT !.fate = fate] ELSE log[i]
  BY <1>1 DEF Fate
<1>3. Len(log') = Len(log)
  <2>1. log' \in [1..Len(log) -> {log'[i] : i \in DOMAIN log}]
    BY <1>1, <1>2 DEF Fate
  <2> QED
    BY <1>1, <2>1
<1>4. ASSUME NEW i \in DOMAIN log
      PROVE  /\ log'[i].by = log[i].by
             /\ log'[i].life = log[i].life /\ log'[i].since = log[i].since
             /\ log'[i].stage = log[i].stage /\ log'[i].pass = log[i].pass
             /\ log'[i].was = log[i].was /\ log'[i].is = log[i].is
             /\ log'[i].fate = IF log[i].fate = "pending" THEN fate ELSE log[i].fate
  <2>1. log[i] \in LogEntry
    BY <1>1
  <2> QED
    BY <1>2, <2>1 DEF LogEntry
<1>5. \A i \in DOMAIN log : log[i].fate = "pending" => log[i].pass = passes
  BY DEF ChainInv, PassNoted
<1>6. ASSUME NEW i \in DOMAIN log
      PROVE  BrokeOff(log[i])' <=>
                \/ BrokeOff(log[i])
                \/ /\ fate = "unsent" /\ log[i].pass = passes
                   /\ \E m \in DOMAIN log : log[m].pass = passes /\ log[m].fate = "pending"
  BY <1>1, <1>2, <1>4, <1>5 DEF BrokeOff
<1>7. ASSUME NEW i \in DOMAIN log
      PROVE  IF fate = "unsent" /\ log[i].pass = passes /\ kind \notin Renewing
                /\ \E m \in DOMAIN log : log[m].pass = passes /\ log[m].fate = "pending"
             THEN End(i)' = log[i].was ELSE End(i)' = End(i)
  BY <1>4, <1>6 DEF End, EndOf
<1>8. PassesOrdered'
  <2>1. \A i \in DOMAIN log : log[i].life \in Nat /\ log[i].life <= life'
    BY LogKnown, NumbersKnown DEF ChainInv, PassesOrdered
  <2> QED
    BY <1>2, <1>4, <2>1 DEF ChainInv, PassesOrdered
<1>9. \A i, j \in DOMAIN log : SameWatch(i, j)' <=> SameWatch(i, j)
  BY <1>4 DEF SameWatch
<1>10. ComparisonsMeet'
  <2> SUFFICES ASSUME NEW i \in DOMAIN log, NEW j \in DOMAIN log, Follows(i, j)'
               PROVE  Meets(log[j].was, EndOf(log[i]))'
    BY <1>2 DEF ComparisonsMeet
  <2>1. Follows(i, j)
    <3>1. \A m \in (i + 1)..(j - 1) : m \in DOMAIN log
      BY <1>1
    <3> QED
      BY <1>9, <3>1 DEF Follows
  <2>2. Meets(log[j].was, End(i))
    BY <2>1 DEF ChainInv, ComparisonsMeet, End
  <2>3. log[i].pass # passes
    <3>1. i < j /\ log[i].stage = log[j].stage
      BY <2>1 DEF Follows, SameWatch
    <3>2. log[i].pass < log[j].pass /\ log[j].pass <= passes
      BY <3>1 DEF ChainInv, PassesOrdered
    <3> QED
      BY <3>2, LogKnown, NumbersKnown
  <2>4. End(i)' = End(i) /\ log'[j].was = log[j].was
    BY <1>4, <1>7, <2>3
  <2> QED
    BY <2>2, <2>4 DEF End, Meets
<1>11. ASSUME UNCHANGED <<life, since>>
       PROVE  \A i, k : LastMine(i, k)' <=> LastMine(i, k)
  <2>1. \A i, k : Mine(i, k)' <=> Mine(i, k)
    BY <1>2, <1>4, <1>11 DEF Mine
  <2> QED
    BY <1>3, <2>1 DEF LastMine
<1> QED
  BY <1>2, <1>4, <1>7, <1>8, <1>10, <1>11

LEMMA MeetsLater ==
    ASSUME NEW a \in Nat, NEW b \in Nat, NEW c \in Nat, Meets(a, b), c >= a, c = a \/ Gaps
    PROVE  Meets(c, b)
BY DEF Meets, Gaps

LEMMA TwoStagesCompare == kind \in TwoStage => kind \notin Renewing /\ kind # "governance"
BY DEF TwoStage, Renewing

LEMMA AfterCompares ==
    ASSUME NEW drifts, NEW k \in {1, 2}
    PROVE  /\ AfterCompare(drifts, k) \in {"emit", "compare2", "retake"}
           /\ AfterCompare(drifts, k) = "emit" => drifts # {}
           /\ AfterCompare(drifts, k) = "compare2" => k = 1 /\ kind \in TwoStage
           /\ AfterCompare(drifts, k) = "retake" /\ kind \in TwoStage => k = 2
BY DEF AfterCompare

\* A comparison that comes before the new snapshot.
LEMMA ComparedChain ==
    ASSUME DriftInv, ChainInv, Worker \in watcher,
           UNCHANGED <<kind, watcher, live, age, base, life, since, passes>>,
           kind \notin Renewing, base # NoSnapshot, NEW k \in {1, 2},
           Compares(Worker, base, NoSnapshot, k),
           \/ k = 1 /\ Hand.pc \in {"look", "compare"}
           \/ k = 2 /\ Hand.pc = "compare2" /\ kind \in TwoStage
    PROVE  ChainInv'
<1>1. /\ PassNoted /\ HandOrdered /\ HandCurrent /\ BaseMeets /\ NewMeets /\ PassesOrdered
      /\ Hand.pc # "idle"
      /\ \A i \in DOMAIN log : log[i].stage \in {1, 2} /\ log[i].pass \in Nat
      /\ passes \in Nat /\ age \in Nat /\ base.age \in Nat /\ base.age <= age
  BY LogKnown, NumbersKnown, AgesKnown DEF ChainInv
<1>2. \A i \in DOMAIN log : /\ log[i].stage = k => log[i].pass < passes
                            /\ log[i].pass = passes => log[i].fate # "unsent"
                            /\ k = 1 => log[i].pass # passes
  <2> SUFFICES ASSUME NEW i \in DOMAIN log
               PROVE  /\ log[i].stage = k => log[i].pass < passes
                      /\ log[i].pass = passes => log[i].fate # "unsent"
                      /\ k = 1 => log[i].pass # passes
    OBVIOUS
  <2>1. log[i].pass <= passes
    BY <1>1 DEF PassesOrdered
  <2>2. log[i].pass = passes => log[i].fate # "unsent"
    BY <1>1 DEF PassNoted
  <2>3. k = 1 => log[i].pass # passes
    BY <1>1 DEF PassNoted, Comparing
  <2>4. k = 2 => Hand.stage = 1
    BY <1>1 DEF HandOrdered
  <2>5. k = 2 /\ log[i].pass = passes => log[i].stage <= Hand.stage
    BY <1>1 DEF PassNoted, Having
  <2> QED
    BY <1>1, <2>1, <2>2, <2>3, <2>4, <2>5
<1>3. /\ Compared(base) /\ since < passes
      /\ kind \in Renewing => Taken(NoSnapshot) /\ Precedes(base, NoSnapshot)
  BY <1>1, BaseTaken DEF Compared, HandOrdered
<1>4. \A i \in DOMAIN log : LastMine(i, k) => Meets(base.age, End(i))
  <2>1. CASE k = 1
    BY <1>1, <2>1 DEF BaseMeets, Having
  <2>2. CASE k = 2
    <3> SUFFICES ASSUME NEW i \in DOMAIN log, LastMine(i, k) PROVE Meets(base.age, End(i))
      OBVIOUS
    <3>1. log[i].pass # passes
      BY <1>1, <1>2 DEF LastMine, Mine
    <3> QED
      BY <1>1, <2>2, <3>1 DEF NewMeets, Having
  <2> QED
    BY <2>1, <2>2
<1>5. PICK seen, drifts :
        /\ seen \in Snapshots /\ seen = Snapshot
        /\ Hand' = [pc |-> AfterCompare(drifts, k), prev |-> base, new |-> seen, stage |-> k]
        /\ drifts # {} => \E i \in DOMAIN log' : log'[i].pass = passes /\ log'[i].fate = "pending"
        /\ \A i \in DOMAIN log' : log'[i].pass = passes => log'[i].fate # "unsent"
        /\ \A i \in DOMAIN log' :
              IF i \in DOMAIN log
              THEN /\ log'[i] = log[i] /\ End(i)' = End(i)
                   /\ \A j \in {1, 2} : LastMine(i, j)' =>
                        LastMine(i, j) /\ (j = k => base.age = seen.age)
              ELSE /\ log'[i].pass = passes /\ log'[i].stage = k
                   /\ log'[i].was = base.age /\ log'[i].is = seen.age
                   /\ End(i)' = seen.age
                   /\ \A j \in {1, 2} : LastMine(i, j)' => j = k
  BY <1>2, <1>3, <1>4, ComparesChain
<1>6. ComparisonsMeet' /\ PassesOrdered'
  BY <1>2, <1>3, <1>4, ComparesChain
<1>7. /\ seen.age = age /\ Hand'.pc \in {"emit", "compare2", "retake"}
      /\ Hand'.pc = "emit" => drifts # {}
      /\ Hand'.pc = "compare2" => k = 1
      /\ Hand'.pc = "retake" /\ kind \in TwoStage => k = 2
      /\ Hand'.prev = base /\ Hand'.new = seen /\ Hand'.stage = k
  BY <1>5, AfterCompares, SnapshotTaken DEF DriftInv
<1>8. PassNoted'
  <2> SUFFICES ASSUME NEW i \in DOMAIN log'
               PROVE  /\ log'[i].fate = "pending" => log'[i].pass = passes
                      /\ log'[i].pass = passes => log'[i].fate # "unsent" /\ log'[i].stage <= k
    BY <1>7 DEF PassNoted, Comparing, Having
  <2>1. CASE i \in DOMAIN log
    BY <1>1, <1>2, <1>5, <2>1 DEF PassNoted
  <2>2. CASE i \notin DOMAIN log
    BY <1>5, <2>2
  <2> QED
    BY <2>1, <2>2
<1>9. HandOrdered'
  BY <1>3, <1>5, <1>7 DEF HandOrdered
<1>10. HandCurrent'
  BY <1>5, <1>7 DEF HandCurrent
<1>11. BaseMeets'
  BY <1>7 DEF BaseMeets, Having
<1>12. NewMeets'
  <2> SUFFICES ASSUME NEW j \in {1, 2}, NEW i \in DOMAIN log', LastMine(i, j)'
               PROVE  /\ log'[i].pass = passes =>
                            log'[i].was = base.age /\ Meets(seen.age, log'[i].is)
                      /\ log'[i].pass # passes => /\ Meets(base.age, End(i)')
                                                  /\ j <= k => Meets(seen.age, base.age)
    <3>1. \A j \in {1, 2} : \A i \in DOMAIN log' : LastMine(i, j)' =>
             /\ base' # NoSnapshot
             /\ log'[i].pass = passes' =>
                   log'[i].was = base'.age /\ Meets(Hand'.new.age, log'[i].is)
             /\ log'[i].pass # passes' => /\ Meets(base'.age, End(i)')
                                          /\ j <= Hand'.stage => Meets(Hand'.new.age, base'.age)
      BY <1>7
    <3> QED
      BY <3>1 DEF NewMeets, Meets
  <2>2. CASE i \notin DOMAIN log
    <3>1. Meets(seen.age, seen.age)
      BY <1>1, <1>7, MeetsKnown
    <3> QED
      BY <1>5, <2>2, <3>1
  <2>3. CASE i \in DOMAIN log /\ k = 1
    <3>1. LastMine(i, j) /\ log'[i] = log[i] /\ End(i)' = End(i) /\ log[i].pass # passes
      BY <1>2, <1>5, <2>3
    <3>2. Meets(base.age, End(i))
      BY <1>1, <2>3, <3>1 DEF BaseMeets, Having
    <3>3. j <= k => Meets(seen.age, base.age)
      <4>1. j <= k => base.age = seen.age
        BY <1>5, <2>3
      <4> QED
        BY <1>1, <1>7, <4>1, MeetsKnown
    <3> QED
      BY <3>1, <3>2, <3>3
  <2>4. CASE i \in DOMAIN log /\ k = 2
    <3>1. LastMine(i, j) /\ log'[i] = log[i] /\ End(i)' = End(i)
      BY <1>5, <2>4
    <3>2. /\ log[i].pass = passes => log[i].was = base.age /\ Meets(Hand.new.age, log[i].is)
          /\ log[i].pass # passes => /\ Meets(base.age, End(i))
                                     /\ j <= Hand.stage => Meets(Hand.new.age, base.age)
      BY <1>1, <2>4, <3>1 DEF NewMeets, Having
    <3>3. /\ Hand.new.age \in Nat /\ Hand.new.age <= age /\ (Hand.new.age = age \/ Gaps)
          /\ Hand.stage = 1
      BY <1>1, <2>4, AgesKnown, HandKnown, TwoStagesCompare
         DEF CheckFits, HandCurrent, HandOrdered, Having
    <3>4. log[i].pass = passes => Meets(age, log[i].is)
      BY <1>1, <2>4, <3>2, <3>3, AgesKnown, MeetsLater
    <3>5. log[i].pass # passes => Meets(age, base.age)
      <4>1. j = 1 \/ base.age = age
        BY <1>5, <1>7, <2>4
      <4> QED
        BY <1>1, <3>2, <3>3, <4>1, MeetsLater, MeetsKnown
    <3> QED
      BY <1>7, <3>1, <3>2, <3>4, <3>5
  <2> QED
    BY <2>2, <2>3, <2>4
<1> QED
  BY <1>6, <1>8, <1>9, <1>10, <1>11, <1>12 DEF ChainInv

LEMMA StagesFew ==
    ASSUME DriftInv, kind \notin TwoStage, NEW i \in DOMAIN log, NEW j \in {1, 2}, LastMine(i, j)
    PROVE  j = 1
BY LogKnown DEF LastMine, Mine, EntryTells

\* A comparison of the snapshot held with the new one, which takes its place.
LEMMA RenewedChain ==
    ASSUME DriftInv, ChainInv, Worker \in watcher,
           UNCHANGED <<kind, watcher, live, age, life, since, passes>>,
           kind \in Renewing, base # NoSnapshot, NEW new \in Snapshots, Taken(new),
           Precedes(base, new),
           Compares(Worker, base, new, 1), base' = new,
           Hand.pc \in {"renew", "keep"}, new.age = age \/ Gaps
    PROVE  ChainInv'
<1>1. /\ PassNoted /\ HandOrdered /\ BaseMeets /\ PassesOrdered
      /\ \A i \in DOMAIN log : log[i].pass \in Nat
      /\ passes \in Nat /\ age \in Nat /\ base.age \in Nat /\ new.age \in Nat /\ kind \notin TwoStage
  BY LogKnown, NumbersKnown, AgesKnown, TwoStagesCompare DEF ChainInv, Taken
<1>2. \A i \in DOMAIN log : log[i].pass < passes
  BY <1>1 DEF PassNoted, PassesOrdered, Comparing
<1>3. Compared(base) /\ since < passes
  BY <1>1, BaseTaken DEF Compared, HandOrdered
<1>4. \A i \in DOMAIN log : LastMine(i, 1) => Meets(base.age, End(i))
  BY <1>1 DEF BaseMeets
<1>5. \A i \in DOMAIN log : /\ log[i].stage = 1 => log[i].pass < passes
                            /\ log[i].pass = passes => log[i].fate # "unsent"
  BY <1>1, <1>2
<1>6. PICK seen, drifts :
        /\ seen \in Snapshots /\ seen = new
        /\ Hand' = [pc |-> AfterCompare(drifts, 1), prev |-> base, new |-> seen, stage |-> 1]
        /\ drifts # {} => \E i \in DOMAIN log' : log'[i].pass = passes /\ log'[i].fate = "pending"
        /\ \A i \in DOMAIN log' : log'[i].pass = passes => log'[i].fate # "unsent"
        /\ \A i \in DOMAIN log' :
              IF i \in DOMAIN log
              THEN /\ log'[i] = log[i] /\ End(i)' = End(i)
                   /\ \A j \in {1, 2} : LastMine(i, j)' =>
                        LastMine(i, j) /\ (j = 1 => base.age = seen.age)
              ELSE /\ log'[i].pass = passes /\ log'[i].stage = 1
                   /\ log'[i].was = base.age /\ log'[i].is = seen.age
                   /\ End(i)' = seen.age
                   /\ \A j \in {1, 2} : LastMine(i, j)' => j = 1
  BY <1>3, <1>4, <1>5, ComparesChain
<1>7. ComparisonsMeet' /\ PassesOrdered'
  BY <1>3, <1>4, <1>5, ComparesChain
<1>8. /\ Hand'.pc \in {"emit", "retake"}
      /\ Hand'.pc = "emit" => drifts # {}
      /\ Hand'.prev = base /\ Hand'.new = new /\ Hand'.stage = 1
  BY <1>1, <1>6, AfterCompares
<1>9. PassNoted'
  <2> SUFFICES ASSUME NEW i \in DOMAIN log'
               PROVE  /\ log'[i].fate = "pending" => log'[i].pass = passes
                      /\ log'[i].pass = passes => log'[i].fate # "unsent" /\ log'[i].stage <= 1
    BY <1>8 DEF PassNoted, Comparing, Having
  <2>1. CASE i \in DOMAIN log
    BY <1>1, <1>2, <1>6, <2>1 DEF PassNoted
  <2>2. CASE i \notin DOMAIN log
    BY <1>6, <2>2
  <2> QED
    BY <2>1, <2>2
<1>10. HandOrdered'
  BY <1>1, <1>3, <1>6, <1>8 DEF HandOrdered
<1>11. HandCurrent'
  <2>1. base'.age = age \/ Gaps'
    BY DEF Gaps, Meets
  <2> QED
    BY <1>8, <2>1 DEF HandCurrent
<1>12. BaseMeets'
  <2> SUFFICES ASSUME NEW j \in {1, 2}, NEW i \in DOMAIN log', LastMine(i, j)'
               PROVE  Meets(new.age, End(i)')
    <3>1. new # NoSnapshot
      BY NoSnapshotAssumption
    <3>2. \A j \in {1, 2} : \A i \in DOMAIN log' : LastMine(i, j)' =>
             base' # NoSnapshot /\ Meets(base'.age, End(i)')
      BY <3>1
    <3> QED
      BY <3>2 DEF BaseMeets, Meets
  <2>1. CASE i \notin DOMAIN log
    BY <1>1, <1>6, <2>1, MeetsKnown
  <2>2. CASE i \in DOMAIN log
    <3>1. LastMine(i, j) /\ End(i)' = End(i) /\ (j = 1 => base.age = new.age)
      BY <1>6, <2>2
    <3>2. j = 1
      BY <1>1, <2>2, <3>1, StagesFew
    <3> QED
      BY <1>4, <2>2, <3>1, <3>2
  <2> QED
    BY <2>1, <2>2
<1>13. NewMeets'
  BY DEF NewMeets
<1> QED
  BY <1>7, <1>9, <1>10, <1>11, <1>12, <1>13 DEF ChainInv

\* What is under way is the worker's.
LEMMA WorkersHand ==
    ASSUME DriftInv, Worker \in watcher, NEW s \in Sessions, session[s].pc # "idle"
    PROVE  s = Worker /\ session[s] = Hand /\ s \notin Calls
BY OnlyWorker, DriftAssumption DEF Hand

LEMMA LookChain ==
    ASSUME DriftInv, ChainInv, Worker \in watcher, NEW s \in Sessions, Look(s)
    PROVE  ChainInv'
<1>1. /\ s = Worker /\ s \notin Calls /\ Hand.pc = "look"
      /\ UNCHANGED <<kind, watcher, live, age, base, cold, passes, since, life>>
      /\ PassNoted /\ HandOrdered /\ HandCurrent /\ BaseMeets /\ NewMeets
  BY WorkersHand DEF Look, IsAt, Watched, Rest, ChainInv
<1>2. CASE base = NoSnapshot
  <2>1. PICK pc \in {"gaps", "retake"} :
           /\ pc = IF kind = "detection" /\ Gap(live) # {} THEN "gaps" ELSE "retake"
           /\ session' = [session EXCEPT ![s].pc = pc, ![s].new = Snapshot]
           /\ log' = log
    BY <1>1, <1>2 DEF Look
  <2>3. Hand'.pc = pc /\ Hand'.new = Snapshot
    BY <1>1, <2>1 DEF Hand, DriftInv, ChecksFit, DriftSession, Sessions
  <2>4. /\ ComparisonsMeet' /\ PassesOrdered' /\ PassNoted' /\ since' < passes'
        /\ \A i, k : LastMine(i, k)' <=> LastMine(i, k)
    BY <1>1, <2>1, <2>3, NothingNoted DEF Comparing, Having
  <2>5. HandOrdered'
    BY <1>1, <1>2, <2>3, <2>4 DEF HandOrdered
  <2>6. HandCurrent'
    BY <1>1, <1>2, <2>3, SnapshotTaken DEF HandCurrent, DriftInv
  <2>7. \A k \in {1, 2}, i \in DOMAIN log : ~LastMine(i, k)
    BY <1>1, <1>2 DEF BaseMeets, Having
  <2>8. BaseMeets' /\ NewMeets'
    BY <2>1, <2>4, <2>7 DEF BaseMeets, NewMeets
  <2> QED
    BY <2>4, <2>5, <2>6, <2>8 DEF ChainInv
<1>3. CASE base # NoSnapshot /\ kind \in Renewing \cup {"exposure"}
  <2>1. PICK pc \in {"renew", "compare"} :
           /\ pc = IF kind = "exposure" THEN "compare" ELSE "renew"
           /\ session' = [session EXCEPT ![s].prev = base, ![s].pc = pc]
           /\ log' = log
    BY <1>1, <1>3 DEF Look
  <2>2. Hand'.pc = pc /\ Hand'.prev = base
    BY <1>1, <2>1 DEF Hand, DriftInv, ChecksFit, DriftSession, Sessions
  <2>3. /\ ComparisonsMeet' /\ PassesOrdered' /\ PassNoted' /\ since' < passes'
        /\ \A i, k : LastMine(i, k)' <=> LastMine(i, k)
        /\ \A i : End(i)' = End(i)
    BY <1>1, <2>1, <2>2, NothingNoted DEF Comparing, Having
  <2>4. HandOrdered' /\ HandCurrent'
    BY <1>1, <2>2, <2>3 DEF HandOrdered, HandCurrent, Having
  <2>5. NewMeets'
    BY <2>2 DEF NewMeets, Having
  <2>6. BaseMeets'
    <3>1. \A k \in {1, 2} : \A i \in DOMAIN log : LastMine(i, k) =>
             base # NoSnapshot /\ Meets(base.age, End(i))
      BY <1>1 DEF BaseMeets, Having
    <3> QED
      BY <1>1, <2>1, <2>3, <3>1 DEF BaseMeets, Meets
  <2> QED
    BY <2>3, <2>4, <2>5, <2>6 DEF ChainInv
<1>4. CASE base # NoSnapshot /\ kind \notin Renewing \cup {"exposure"}
  <2>1. Compares(Worker, base, NoSnapshot, 1)
    BY <1>1, <1>4 DEF Look
  <2> QED
    BY <1>1, <1>4, <2>1, ComparedChain
<1> QED
  BY <1>2, <1>3, <1>4

LEMMA Suspends == kind \in Suspending => Gaps /\ kind # "governance"
BY DEF Suspending, Gaps, Meets, Shared

LEMMA RenewChain ==
    ASSUME DriftInv, ChainInv, Worker \in watcher, NEW s \in Sessions, Renew(s)
    PROVE  ChainInv'
<1>1. /\ s = Worker /\ Hand.pc = "renew" /\ session[s] = Hand
      /\ UNCHANGED <<kind, watcher, live, age, cold, passes, since, life>>
      /\ PassNoted /\ HandOrdered /\ HandCurrent /\ BaseMeets /\ NewMeets
  BY WorkersHand DEF Renew, IsAt, Rest, ChainInv
<1>2. /\ Hand.prev = base /\ kind \in Renewing /\ Compared(base) /\ base # NoSnapshot
      /\ Precedes(base, Snapshot) /\ Taken(Snapshot) /\ Snapshot.age = age
  <2>1. CheckFits(Hand) /\ Hand.prev = base
    BY <1>1, HandKnown DEF HandCurrent
  <2>2. Compared(base) /\ kind \in Renewing
    BY <1>1, <2>1 DEF CheckFits
  <2> QED
    BY <2>1, <2>2, ComparedTypes, SnapshotTaken DEF DriftInv
<1>3. CASE kind \in Suspending
  <2>1. /\ session' = [session EXCEPT ![s].pc = "keep", ![s].new = Snapshot]
        /\ log' = log /\ base' = base
    BY <1>3 DEF Renew
  <2>2. Hand'.pc = "keep" /\ Hand'.prev = base
    BY <1>1, <1>2, <2>1 DEF Hand, DriftInv, ChecksFit, DriftSession, Sessions
  <2>3. /\ ComparisonsMeet' /\ PassesOrdered' /\ PassNoted' /\ since' < passes'
        /\ \A i, k : LastMine(i, k)' <=> LastMine(i, k)
        /\ \A i : End(i)' = End(i)
    BY <1>1, <2>1, <2>2, NothingNoted DEF Comparing, Having
  <2>4. HandOrdered' /\ HandCurrent'
    BY <1>1, <2>1, <2>2, <2>3 DEF HandOrdered, HandCurrent, Having
  <2>5. NewMeets'
    BY <2>2 DEF NewMeets, Having
  <2>6. BaseMeets'
    <3>1. \A k \in {1, 2} : \A i \in DOMAIN log : LastMine(i, k) =>
             base # NoSnapshot /\ Meets(base.age, End(i))
      BY <1>1 DEF BaseMeets, Having
    <3> QED
      BY <1>1, <2>1, <2>3, <3>1 DEF BaseMeets, Meets
  <2> QED
    BY <2>3, <2>4, <2>5, <2>6 DEF ChainInv
<1>4. CASE kind \notin Suspending
  <2>1. base' = Snapshot /\ Compares(Worker, base, Snapshot, 1)
    BY <1>1, <1>2, <1>4 DEF Renew
  <2>2. PICK new \in Snapshots : new = Snapshot
    BY <1>2 DEF Taken
  <2>3. base' = new /\ Compares(Worker, base, new, 1) /\ Taken(new) /\ Precedes(base, new)
        /\ new.age = age
    BY <1>2, <2>1, <2>2
  <2> QED
    BY <1>1, <1>2, <2>3, RenewedChain
<1> QED
  BY <1>3, <1>4

LEMMA KeepChain ==
    ASSUME DriftInv, ChainInv, Worker \in watcher, NEW s \in Sessions, Keep(s)
    PROVE  ChainInv'
<1>1. /\ s = Worker /\ Hand.pc = "keep" /\ session[s] = Hand
      /\ UNCHANGED <<kind, watcher, live, age, cold, passes, since, life>>
      /\ base' = Hand.new /\ Compares(Worker, Hand.prev, Hand.new, 1)
  BY WorkersHand DEF Keep, IsAt, Rest
<1>2. CheckFits(Hand) /\ Hand.prev = base
  BY <1>1, HandKnown DEF ChainInv, HandCurrent
<1>3. /\ kind \in Renewing /\ Compared(base) /\ Taken(Hand.new) /\ Precedes(base, Hand.new)
      /\ base # NoSnapshot /\ Gaps
  BY <1>1, <1>2, ComparedTypes, Suspends DEF CheckFits, DriftInv
<1>4. PICK new \in Snapshots : new = Hand.new
  BY <1>3 DEF Taken
<1> QED
  BY <1>1, <1>2, <1>3, <1>4, RenewedChain

LEMMA CompareChain ==
    ASSUME DriftInv, ChainInv, Worker \in watcher, NEW s \in Sessions, Compare(s)
    PROVE  ChainInv'
<1>1. /\ s = Worker /\ Hand.pc \in {"compare", "compare2"} /\ session[s] = Hand
      /\ UNCHANGED <<kind, watcher, live, age, base, cold, passes, since, life>>
      /\ Compares(Worker, Hand.prev, NoSnapshot, IF Hand.pc = "compare" THEN 1 ELSE 2)
  BY WorkersHand DEF Compare, IsAt, Rest, Watched
<1>2. CheckFits(Hand) /\ Hand.prev = base
  BY <1>1, HandKnown DEF ChainInv, HandCurrent
<1>3. kind \in TwoStage /\ kind \notin Renewing /\ Compared(base) /\ base # NoSnapshot
  BY <1>1, <1>2, ComparedTypes DEF CheckFits, DriftInv, TwoStage, Renewing
<1>4. CASE Hand.pc = "compare"
  BY <1>1, <1>2, <1>3, <1>4, ComparedChain
<1>5. CASE Hand.pc = "compare2"
  BY <1>1, <1>2, <1>3, <1>5, ComparedChain
<1> QED
  BY <1>1, <1>4, <1>5

\* Where nothing is in hand, little is asked.
LEMMA HandEmpty ==
    ASSUME Hand'.pc \in {"idle", "look", "broken", "settle"}, Hand'.pc # "idle" => since' < passes'
    PROVE  HandOrdered' /\ HandCurrent' /\ NewMeets'
BY DEF HandOrdered, HandCurrent, NewMeets, Having

\* What the snapshot held has to be for the comparisons to meet.
LEMMA BaseMeetsNext ==
    ASSUME UNCHANGED kind,
           \A k \in {1, 2}, i \in DOMAIN log' : LastMine(i, k)' =>
              base' # NoSnapshot /\ Meets(base'.age, End(i)')
    PROVE  BaseMeets'
BY DEF BaseMeets, Meets

LEMMA EmitChain ==
    ASSUME DriftInv, ChainInv, Worker \in watcher, NEW s \in Sessions, Emit(s)
    PROVE  ChainInv'
<1>1. /\ s = Worker /\ Hand.pc \in {"emit", "gaps"} /\ session[s] = Hand
      /\ UNCHANGED <<kind, watcher, live, age, base, log, cold, passes, since, life>>
      /\ HandOrdered /\ HandCurrent /\ BaseMeets /\ NewMeets
  BY WorkersHand DEF Emit, IsAt, Watched, Rest, ChainInv
<1>2. PICK pc \in {"compare2", "retake"} : pc = AfterCompare({}, Hand.stage)
  BY HandKnown, AfterCompares
<1>3. /\ pc = "compare2" => Hand.stage = 1 /\ kind \in TwoStage /\ Hand.pc = "emit"
      /\ pc = "retake" /\ kind \in TwoStage => Hand.stage = 2
  BY <1>1, <1>2, HandKnown, AfterCompares DEF CheckFits, TwoStage
<1>4. /\ Hand'.pc = pc /\ Hand'.prev = Hand.prev
      /\ Hand'.new = Hand.new /\ Hand'.stage = Hand.stage
  <2>1. Goes(Worker, pc)
    BY <1>1, <1>2 DEF Emit
  <2> QED
    BY <2>1, HandGoes DEF Points
<1>5. /\ ComparisonsMeet' /\ PassesOrdered' /\ PassNoted' /\ since' < passes'
      /\ \A i, k : LastMine(i, k)' <=> LastMine(i, k)
      /\ \A i : End(i)' = End(i)
  BY <1>1, <1>4, NothingNoted DEF Comparing, Having
<1>6. HandOrdered'
  BY <1>1, <1>3, <1>4, <1>5 DEF HandOrdered
<1>7. HandCurrent'
  <2>1. Gaps' <=> Gaps
    BY <1>1 DEF Gaps, Meets
  <2>2. Hand.pc = "gaps" => base = NoSnapshot
    BY <1>1 DEF HandOrdered
  <2> QED
    BY <1>1, <1>3, <1>4, <2>1, <2>2, TwoStagesCompare DEF HandCurrent, Having
<1>8. BaseMeets'
  BY <1>1, <1>4, <1>5 DEF BaseMeets, Meets, Having
<1>9. NewMeets'
  BY <1>1, <1>4, <1>5 DEF NewMeets, Meets, Having
<1> QED
  BY <1>5, <1>6, <1>7, <1>8, <1>9 DEF ChainInv

LEMMA EmitFailsChain ==
    ASSUME DriftInv, ChainInv, Worker \in watcher, NEW s \in Sessions, EmitFails(s)
    PROVE  ChainInv'
<1>1. /\ s = Worker /\ Hand.pc \in {"emit", "gaps"} /\ session[s] = Hand
      /\ UNCHANGED <<kind, watcher, live, age, base, cold, passes, since, life>>
      /\ Fate(Worker, "unsent") /\ Goes(Worker, "broken")
      /\ HandOrdered /\ BaseMeets /\ NewMeets /\ since < passes
  BY WorkersHand DEF EmitFails, IsAt, Watched, ChainInv, HandOrdered
<1>2. Hand'.pc = "broken"
  BY <1>1, HandGoes DEF Points
<1>3. base # NoSnapshot => \E m \in DOMAIN log : log[m].pass = passes /\ log[m].fate = "pending"
  BY <1>1 DEF HandOrdered
<1>4. /\ ComparisonsMeet' /\ PassesOrdered' /\ DOMAIN log' = DOMAIN log
      /\ \A i \in DOMAIN log :
            /\ log'[i].pass = log[i].pass
            /\ log'[i].fate = IF log[i].fate = "pending" THEN "unsent" ELSE log[i].fate
            /\ base # NoSnapshot =>
                 IF log[i].pass = passes /\ kind \notin Renewing
                 THEN End(i)' = log[i].was ELSE End(i)' = End(i)
            /\ kind \in Renewing => End(i)' = End(i)
      /\ \A i, k : LastMine(i, k)' <=> LastMine(i, k)
  <2>1. life' \in Nat /\ life' >= life
    BY <1>1, NumbersKnown
  <2> QED
    BY <1>1, <1>3, <2>1, FateChain
<1>5. PassNoted'
  BY <1>2, <1>4 DEF PassNoted, Comparing, Having
<1>6. HandOrdered' /\ HandCurrent' /\ NewMeets'
  BY <1>1, <1>2, HandEmpty
<1>7. BaseMeets'
  <2> SUFFICES ASSUME NEW k \in {1, 2}, NEW i \in DOMAIN log', LastMine(i, k)'
               PROVE  base' # NoSnapshot /\ Meets(base'.age, End(i)')
    BY <1>1, BaseMeetsNext
  <2>1. i \in DOMAIN log /\ LastMine(i, k)
    BY <1>4
  <2>2. CASE kind \in Renewing
    BY <1>1, <1>4, <2>1, <2>2 DEF BaseMeets
  <2>3. CASE kind \notin Renewing
    <3>1. /\ base # NoSnapshot
          /\ log[i].pass = passes => log[i].was = base.age
          /\ log[i].pass # passes => Meets(base.age, End(i))
      BY <1>1, <2>1, <2>3 DEF NewMeets, Having
    <3>2. Meets(base.age, base.age)
      BY <3>1, AgesKnown, MeetsKnown
    <3> QED
      BY <1>1, <1>4, <2>1, <2>3, <3>1, <3>2
  <2> QED
    BY <2>2, <2>3
<1> QED
  BY <1>4, <1>5, <1>6, <1>7 DEF ChainInv

\* Once everything is compared, the new snapshot is where the comparisons end.
LEMMA NewTaken ==
    ASSUME DriftInv, ChainInv, Worker \in watcher, Hand.pc \in {"retake", "rekeep"},
           NEW k \in {1, 2}, NEW i \in DOMAIN log, LastMine(i, k)
    PROVE  /\ base # NoSnapshot
           /\ kind \in Renewing => Meets(base.age, End(i))
           /\ kind \notin Renewing => Meets(Hand.new.age, End(i))
<1>1. CASE kind \in Renewing
  BY <1>1 DEF ChainInv, BaseMeets
<1>2. CASE kind \notin Renewing
  <2>1. /\ base # NoSnapshot
        /\ log[i].pass = passes => Meets(Hand.new.age, log[i].is)
        /\ log[i].pass # passes => /\ Meets(base.age, End(i))
                                   /\ k <= Hand.stage => Meets(Hand.new.age, base.age)
    BY <1>2 DEF ChainInv, NewMeets, Having
  <2>2. log[i].pass = passes => End(i) = log[i].is
    BY DEF ChainInv, PassNoted, End, EndOf, BrokeOff
  <2>3. k <= Hand.stage
    <3>1. kind \in TwoStage => Hand.stage = 2
      BY <2>1 DEF ChainInv, HandOrdered
    <3>2. kind \notin TwoStage => k = 1
      BY StagesFew
    <3> QED
      BY <3>1, <3>2, HandKnown
  <2>4. /\ base.age \in Nat /\ Hand.new.age \in Nat /\ End(i) \in Nat
    BY <2>1, AgesKnown, HandKnown DEF CheckFits
  <2> QED
    BY <1>2, <2>1, <2>2, <2>3, <2>4, MeetsKnown
<1> QED
  BY <1>1, <1>2

LEMMA RetakeChain ==
    ASSUME DriftInv, ChainInv, Worker \in watcher, NEW s \in Sessions, Retake(s)
    PROVE  ChainInv'
<1>1. /\ s = Worker /\ Hand.pc = "retake" /\ session[s] = Hand /\ since < passes
      /\ UNCHANGED <<kind, watcher, live, age, log, cold, passes, since, life>>
      /\ HandOrdered /\ HandCurrent /\ BaseMeets /\ NewMeets
  BY WorkersHand DEF Retake, IsAt, Rest, ChainInv, HandOrdered
<1>2. /\ Taken(Hand.new) /\ Hand.new.age \in Nat /\ Hand.new.age <= age /\ age \in Nat
      /\ base # NoSnapshot => base.age \in Nat /\ base.age <= age
      /\ Taken(Snapshot) /\ Snapshot.age = age
      /\ \A i \in DOMAIN log : End(i) \in Nat /\ log[i].is \in Nat
  BY <1>1, HandKnown, AgesKnown, NumbersKnown, SnapshotTaken DEF CheckFits, DriftInv
<1>3. CASE kind \in Suspending
  <2>1. /\ session' = [session EXCEPT ![s].pc = "rekeep", ![s].new = Snapshot]
        /\ base' = base /\ Gaps /\ kind # "governance"
    BY <1>3, Suspends DEF Retake
  <2>2. Hand'.pc = "rekeep" /\ Hand'.new = Snapshot /\ Hand'.stage = Hand.stage
    BY <1>1, <2>1 DEF Hand, DriftInv, ChecksFit, DriftSession, Sessions
  <2>3. /\ ComparisonsMeet' /\ PassesOrdered' /\ PassNoted' /\ since' < passes'
        /\ \A i, k : LastMine(i, k)' <=> LastMine(i, k)
        /\ \A i : End(i)' = End(i)
    BY <1>1, <2>1, <2>2, NothingNoted DEF Comparing, Having
  <2>4. HandOrdered'
    BY <1>1, <2>1, <2>2, <2>3 DEF HandOrdered
  <2>5. HandCurrent'
    <3>1. Gaps'
      BY <1>1, <2>1 DEF Gaps, Meets
    <3> QED
      BY <1>1, <1>2, <2>1, <2>2, <3>1 DEF HandCurrent
  <2>6. BaseMeets'
    BY <1>1, <2>1, <2>2, <2>3 DEF BaseMeets, Meets, Having
  <2>7. NewMeets'
    <3> SUFFICES ASSUME kind \notin Renewing, NEW k \in {1, 2}, NEW i \in DOMAIN log, LastMine(i, k)
                 PROVE  /\ base # NoSnapshot
                        /\ log[i].pass = passes =>
                              log[i].was = base.age /\ Meets(age, log[i].is)
                        /\ log[i].pass # passes => /\ Meets(base.age, End(i))
                                                   /\ k <= Hand.stage => Meets(age, base.age)
      BY <1>1, <1>2, <2>1, <2>2, <2>3 DEF NewMeets, Meets
    <3>1. /\ base # NoSnapshot
          /\ log[i].pass = passes =>
                log[i].was = base.age /\ Meets(Hand.new.age, log[i].is)
          /\ log[i].pass # passes => /\ Meets(base.age, End(i))
                                     /\ k <= Hand.stage => Meets(Hand.new.age, base.age)
      BY <1>1 DEF NewMeets, Having
    <3> QED
      BY <1>2, <2>1, <3>1, MeetsLater
  <2> QED
    BY <2>3, <2>4, <2>5, <2>6, <2>7 DEF ChainInv
<1>4. CASE kind \notin Suspending
  <2>1. /\ Goes(Worker, "settle")
        /\ base' = IF kind = "governance" THEN Hand.new ELSE Snapshot
    BY <1>1, <1>4 DEF Retake, Ends
  <2>2. Hand'.pc = "settle"
    BY <2>1, HandGoes DEF Points
  <2>3. /\ ComparisonsMeet' /\ PassesOrdered' /\ PassNoted' /\ since' < passes'
        /\ \A i, k : LastMine(i, k)' <=> LastMine(i, k)
        /\ \A i : End(i)' = End(i)
    BY <1>1, <2>2, NothingNoted DEF Comparing, Having
  <2>4. HandOrdered' /\ HandCurrent' /\ NewMeets'
    BY <2>2, <2>3, HandEmpty
  <2>5. BaseMeets'
    <3> SUFFICES ASSUME NEW k \in {1, 2}, NEW i \in DOMAIN log, LastMine(i, k)
                 PROVE  base' # NoSnapshot /\ Meets(base'.age, End(i))
      BY <1>1, <2>3, BaseMeetsNext
    <3>1. base' # NoSnapshot
      BY <1>2, <2>1, NoSnapshotAssumption DEF Taken
    <3>2. /\ base # NoSnapshot
          /\ kind \in Renewing => Meets(base.age, End(i))
          /\ kind \notin Renewing => Meets(Hand.new.age, End(i))
      BY <1>1, NewTaken
    <3>3. CASE kind \in Renewing
      <4>1. (base.age = age \/ Gaps) /\ kind # "governance"
        BY <1>1, <3>2, <3>3 DEF HandCurrent, Renewing
      <4> QED
        BY <1>2, <2>1, <3>1, <3>2, <3>3, <4>1, MeetsLater
    <3>4. CASE kind \notin Renewing /\ kind = "governance"
      BY <2>1, <3>1, <3>2, <3>4
    <3>5. CASE kind \notin Renewing /\ kind # "governance"
      <4>1. Hand.new.age = age \/ Gaps
        BY <1>1, <3>5 DEF HandCurrent, Having
      <4> QED
        BY <1>2, <2>1, <3>1, <3>2, <3>5, <4>1, MeetsLater
    <3> QED
      BY <3>3, <3>4, <3>5
  <2> QED
    BY <2>3, <2>4, <2>5 DEF ChainInv
<1> QED
  BY <1>3, <1>4

LEMMA RekeepChain ==
    ASSUME DriftInv, ChainInv, Worker \in watcher, NEW s \in Sessions, Rekeep(s)
    PROVE  ChainInv'
<1>1. /\ s = Worker /\ Hand.pc = "rekeep" /\ session[s] = Hand /\ since < passes
      /\ UNCHANGED <<kind, watcher, live, age, log, cold, passes, since, life>>
      /\ base' = Hand.new /\ Goes(Worker, "settle") /\ HandCurrent
  BY WorkersHand DEF Rekeep, IsAt, Rest, Ends, ChainInv, HandOrdered
<1>2. /\ Taken(Hand.new) /\ Hand.new.age \in Nat /\ Gaps
      /\ base # NoSnapshot => base.age \in Nat
      /\ \A i \in DOMAIN log : End(i) \in Nat
  BY <1>1, HandKnown, AgesKnown, Suspends DEF CheckFits
<1>3. Hand'.pc = "settle"
  BY <1>1, HandGoes DEF Points
<1>4. /\ ComparisonsMeet' /\ PassesOrdered' /\ PassNoted' /\ since' < passes'
      /\ \A i, k : LastMine(i, k)' <=> LastMine(i, k)
      /\ \A i : End(i)' = End(i)
  BY <1>1, <1>3, NothingNoted DEF Comparing, Having
<1>5. HandOrdered' /\ HandCurrent' /\ NewMeets'
  BY <1>3, <1>4, HandEmpty
<1>6. BaseMeets'
  <2> SUFFICES ASSUME NEW k \in {1, 2}, NEW i \in DOMAIN log, LastMine(i, k)
               PROVE  base' # NoSnapshot /\ Meets(base'.age, End(i))
    BY <1>1, <1>4, BaseMeetsNext
  <2>1. base' # NoSnapshot
    BY <1>1, <1>2, NoSnapshotAssumption DEF Taken
  <2>2. /\ base # NoSnapshot
        /\ kind \in Renewing => Meets(base.age, End(i))
        /\ kind \notin Renewing => Meets(Hand.new.age, End(i))
    BY <1>1, NewTaken
  <2>3. kind \in Renewing => base.age <= Hand.new.age
    BY <1>1, <2>2 DEF HandCurrent
  <2> QED
    BY <1>1, <1>2, <2>1, <2>2, <2>3, MeetsLater
<1> QED
  BY <1>4, <1>5, <1>6 DEF ChainInv

\* A pass ends, or the worker does, and its events are stored or lost.
LEMMA PassEnds ==
    ASSUME DriftInv, ChainInv, Worker \in watcher, NEW fate \in {"lost", "stored"},
           Fate(Worker, fate), UNCHANGED <<kind, watcher, passes, since>>, Hand'.pc = "idle",
           \/ UNCHANGED <<base, life>> /\ Hand.pc \in {"settle", "broken"}
           \/ life' = life + 1
    PROVE  ChainInv'
<1>1. /\ PassesOrdered /\ PassNoted /\ BaseMeets /\ life' \in Nat /\ life' >= life /\ life \in Nat
  BY NumbersKnown DEF ChainInv
<1>2. /\ ComparisonsMeet' /\ PassesOrdered' /\ DOMAIN log' = DOMAIN log
      /\ \A i \in DOMAIN log :
            /\ log'[i].pass = log[i].pass /\ log'[i].life = log[i].life
            /\ log'[i].fate = IF log[i].fate = "pending" THEN fate ELSE log[i].fate
            /\ End(i)' = End(i)
      /\ UNCHANGED <<life, since>> => \A i, k : LastMine(i, k)' <=> LastMine(i, k)
  BY <1>1, FateChain
<1>3. PassNoted'
  BY <1>1, <1>2 DEF PassNoted, Comparing, Having
<1>4. HandOrdered' /\ HandCurrent' /\ NewMeets'
  BY HandEmpty
<1>5. BaseMeets'
  <2>1. CASE UNCHANGED <<base, life>> /\ Hand.pc \in {"settle", "broken"}
    <3>1. \A k \in {1, 2} : \A i \in DOMAIN log : LastMine(i, k) =>
             base # NoSnapshot /\ Meets(base.age, End(i))
      BY <1>1, <2>1 DEF BaseMeets, Having
    <3> QED
      BY <1>2, <2>1, <3>1, BaseMeetsNext
  <2>2. CASE life' = life + 1
    <3>1. \A k \in {1, 2}, i \in DOMAIN log' : ~LastMine(i, k)'
      <4> SUFFICES ASSUME NEW k \in {1, 2}, NEW i \in DOMAIN log, LastMine(i, k)'
                   PROVE  FALSE
        BY <1>2
      <4>1. log[i].life = life + 1
        BY <1>2, <2>2 DEF LastMine, Mine
      <4>2. log[i].life <= life
        BY <1>1 DEF PassesOrdered
      <4> QED
        BY <1>1, <4>1, <4>2
    <3> QED
      BY <3>1, BaseMeetsNext
  <2> QED
    BY <2>1, <2>2
<1> QED
  BY <1>2, <1>3, <1>4, <1>5 DEF ChainInv

LEMMA BootChain ==
    ASSUME DriftInv, ChainInv, Worker \in watcher, Boot
    PROVE  ChainInv'
<1>1. /\ Hand.pc = "idle" /\ Hand' = Hand /\ since' = passes
      /\ UNCHANGED <<kind, watcher, log, passes, life>>
      /\ kind \in Bootstrapped \/ base' = base
      /\ PassesOrdered /\ PassNoted /\ BaseMeets
  BY DEF Boot, IsAt, Hand, ChainInv
<1>2. /\ ComparisonsMeet' /\ \A i : End(i)' = End(i)
      /\ kind \notin Bootstrapped => \A i, k : LastMine(i, k)' <=> LastMine(i, k)
  BY <1>1, EntriesKept DEF ChainInv
<1>3. PassesOrdered' /\ PassNoted'
  BY <1>1 DEF PassesOrdered, PassNoted
<1>4. HandOrdered' /\ HandCurrent' /\ NewMeets'
  BY <1>1, HandEmpty
<1>5. BaseMeets'
  <2>1. CASE kind \in Bootstrapped
    <3>1. \A k \in {1, 2}, i \in DOMAIN log' : ~LastMine(i, k)'
      <4> SUFFICES ASSUME NEW k \in {1, 2}, NEW i \in DOMAIN log, LastMine(i, k)'
                   PROVE  FALSE
        BY <1>1
      <4>1. log[i].since = passes
        BY <1>1, <2>1 DEF LastMine, Mine
      <4>2. log[i].since < log[i].pass /\ log[i].pass <= passes
        BY <1>1 DEF PassesOrdered
      <4> QED
        BY <4>1, <4>2, LogKnown, NumbersKnown
    <3> QED
      BY <1>1, <3>1, BaseMeetsNext
  <2>2. CASE kind \notin Bootstrapped
    <3>1. \A k \in {1, 2} : \A i \in DOMAIN log : LastMine(i, k) =>
             base # NoSnapshot /\ Meets(base.age, End(i))
      BY <1>1 DEF BaseMeets, Having
    <3> QED
      BY <1>1, <1>2, <2>2, <3>1, BaseMeetsNext
  <2> QED
    BY <2>1, <2>2
<1> QED
  BY <1>2, <1>3, <1>4, <1>5 DEF ChainInv

LEMMA PassChain ==
    ASSUME DriftInv, ChainInv, Worker \in watcher, Pass
    PROVE  ChainInv'
<1>1. /\ Hand.pc = "idle" /\ passes' = passes + 1
      /\ UNCHANGED <<kind, watcher, log, base, since, life>>
      /\ PassesOrdered /\ PassNoted /\ BaseMeets
      /\ passes \in Nat /\ since \in Nat /\ since <= passes
  BY NumbersKnown DEF Pass, IsAt, Hand, ChainInv
<1>2. Hand'.pc = "look"
  <2>1. Hand' = [Idle EXCEPT !.pc = "look"]
    BY HandTakes DEF Pass
  <2> QED
    BY <2>1 DEF Idle
<1>3. /\ ComparisonsMeet'
      /\ \A i, k : LastMine(i, k)' <=> LastMine(i, k)
      /\ \A i : End(i)' = End(i)
  BY <1>1, EntriesKept DEF ChainInv
<1>4. \A i \in DOMAIN log : log[i].pass \in Nat /\ log[i].pass <= passes
  BY <1>1, LogKnown DEF PassesOrdered
<1>5. PassesOrdered' /\ PassNoted'
  <2>1. \A i \in DOMAIN log : log[i].pass < passes'
    BY <1>1, <1>4
  <2>2. PassesOrdered'
    <3>1. \A i \in DOMAIN log : log[i].pass <= passes'
      BY <1>1, <1>4
    <3> QED
      BY <1>1, <3>1 DEF PassesOrdered
  <2>3. PassNoted'
    <3>1. \A i \in DOMAIN log : log[i].pass # passes' /\ log[i].fate # "pending"
      BY <1>1, <1>4, <2>1 DEF PassNoted
    <3> QED
      BY <1>1, <3>1 DEF PassNoted
  <2> QED
    BY <2>2, <2>3
<1>6. HandOrdered' /\ HandCurrent' /\ NewMeets'
  BY <1>1, <1>2, HandEmpty
<1>7. BaseMeets'
  <2>1. \A k \in {1, 2} : \A i \in DOMAIN log : LastMine(i, k) =>
           base # NoSnapshot /\ Meets(base.age, End(i))
    BY <1>1 DEF BaseMeets, Having
  <2> QED
    BY <1>1, <1>3, <2>1, BaseMeetsNext
<1> QED
  BY <1>3, <1>5, <1>6, <1>7 DEF ChainInv

\* What changes while a pass goes on is in the database: the comparisons of
\* those kinds may leave something out.
LEMMA ChangeChain ==
    ASSUME DriftInv, ChainInv, Worker \in watcher,
           \/ Change
           \/ UNCHANGED driftVars
    PROVE  ChainInv'
<1>1. /\ UNCHANGED <<kind, watcher, base, session, log, cold, passes, since, life>>
      /\ Hand' = Hand /\ PassesOrdered /\ PassNoted /\ HandOrdered /\ HandCurrent
      /\ BaseMeets /\ NewMeets
  BY DEF Change, driftVars, Rest, Hand, ChainInv
<1>2. /\ ComparisonsMeet'
      /\ \A i, k : LastMine(i, k)' <=> LastMine(i, k)
      /\ \A i : End(i)' = End(i)
  BY <1>1, EntriesKept DEF ChainInv
<1>3. PassesOrdered' /\ PassNoted' /\ HandOrdered'
  BY <1>1 DEF PassesOrdered, PassNoted, HandOrdered
<1>4. HandCurrent'
  <2>1. (Gaps' <=> Gaps) /\ (age' = age \/ Gaps \/ kind = "governance")
    BY <1>1 DEF Change, driftVars, Gaps, Meets
  <2>2. kind = "governance" => kind \notin Renewing
    BY DEF Renewing
  <2> QED
    BY <1>1, <2>1, <2>2 DEF HandCurrent
<1>5. BaseMeets' /\ NewMeets'
  BY <1>1, <1>2 DEF BaseMeets, NewMeets, Meets
<1> QED
  BY <1>2, <1>3, <1>4, <1>5 DEF ChainInv

LEMMA ChainStep ==
    ASSUME DriftInv, ChainInv, [DriftNext]_driftVars, Worker \in watcher
    PROVE  ChainInv'
<1>1. CASE Settle
  <2>1. Goes(Worker, "idle") /\ Hand.pc = "settle"
    BY <1>1 DEF Settle, IsAt, Hand
  <2>2. Hand'.pc = "idle"
    BY <2>1, HandGoes DEF Points
  <2> QED
    BY <1>1, <2>1, <2>2, PassEnds DEF Settle, Watched, Rest
<1>2. CASE SettleFails
  <2>1. Goes(Worker, "idle") /\ Hand.pc \in {"settle", "broken"}
    BY <1>2 DEF SettleFails, IsAt, Hand
  <2>2. Hand'.pc = "idle"
    BY <2>1, HandGoes DEF Points
  <2> QED
    BY <1>2, <2>1, <2>2, PassEnds DEF SettleFails, Watched
<1>3. CASE Restart
  <2>1. Hand'.pc = "idle"
    BY <1>3, HandTakes, IdleFits DEF Restart
  <2> QED
    BY <1>3, <2>1, PassEnds DEF Restart
<1>4. \A c \in Calls : ~Request(c) /\ ~Refresh(c)
  BY OnlyWorker, DriftAssumption DEF Request, Refresh
<1> QED
  BY <1>1, <1>2, <1>3, <1>4, ChangeChain, BootChain, PassChain, LookChain, RenewChain, KeepChain,
     CompareChain, EmitChain, EmitFailsChain, RetakeChain, RekeepChain
     DEF DriftNext

\* In the API process no comparison is the worker's.
LEMMA NoWorker ==
    ASSUME DriftInv, Worker \notin watcher
    PROVE  ChainInv
BY LogKnown DEF ChainInv, ComparisonsMeet, Follows, SameWatch, EntryTells

LEMMA NoWorkerNext == (DriftInv /\ Worker \notin watcher)' => ChainInv'
<1>1. DriftInv /\ Worker \notin watcher => ChainInv
  BY NoWorker
<1> QED
  BY <1>1, PTL

LEMMA ChainInit == DriftInit => ChainInv
<1> SUFFICES ASSUME DriftInit PROVE ChainInv
  OBVIOUS
<1>1. log = <<>> /\ DOMAIN log = {} /\ Hand.pc = "idle"
  BY DEF DriftInit, Hand, Idle, Sessions
<1>2. ComparisonsMeet /\ PassesOrdered /\ PassNoted
  BY <1>1 DEF ComparisonsMeet, PassesOrdered, PassNoted
<1>3. HandOrdered /\ HandCurrent /\ BaseMeets /\ NewMeets
  BY <1>1 DEF HandOrdered, HandCurrent, BaseMeets, NewMeets, Having
<1> QED
  BY <1>2, <1>3 DEF ChainInv

LEMMA WatcherStays == [DriftNext]_driftVars => watcher' = watcher
BY DEF DriftNext, driftVars, Change, Boot, Pass, Settle, SettleFails, Restart, Request, Refresh,
       Look, Renew, Keep, Compare, Emit, EmitFails, Retake, Rekeep, Rest

\* In a worker every comparison starts where the last one of that process
\* ended, so that a pass of the workflow neither reports a change twice nor
\* skips one, through failed statements, refused commits and restarts.
THEOREM ComparisonsAlwaysMeet == DriftSpec => []ComparisonsMeet
<1>1. DriftInit => DriftInv /\ ChainInv
  BY DriftInvInit, ChainInit
<1>2. DriftInv /\ ChainInv /\ [DriftNext]_driftVars => (DriftInv /\ ChainInv)'
  <2> SUFFICES ASSUME DriftInv, ChainInv, [DriftNext]_driftVars PROVE (DriftInv /\ ChainInv)'
    OBVIOUS
  <2>1. DriftInv'
    BY DriftInvStep
  <2>2. CASE Worker \in watcher
    BY <2>1, <2>2, ChainStep
  <2>3. CASE Worker \notin watcher
    BY <2>1, <2>3, WatcherStays, NoWorkerNext
  <2> QED
    BY <2>2, <2>3
<1>3. ChainInv => ComparisonsMeet
  BY DEF ChainInv
<1> QED
  BY <1>1, <1>2, <1>3, PTL DEF DriftSpec

\* The snapshots, the checks and the log of the drift services have their types,
\* and an event is quiet just when its comparison told nothing.
THEOREM DriftTypeCorrect == DriftSpec => []DriftTypeOK
<1>1. DriftInv => DriftTypeOK
  <2> SUFFICES ASSUME DriftInv PROVE DriftTypeOK
    OBVIOUS
  <2>1. live \in Facts /\ base \in Snapshots \cup {NoSnapshot}
    BY DEF DriftInv, WatchFits, Possible, Taken
  <2>2. session \in [Sessions -> [pc: Points, prev: Snapshots \cup {NoSnapshot},
                                  new: Snapshots \cup {NoSnapshot}, stage: {1, 2}]]
    BY DEF DriftInv, ChecksFit, DriftSession
  <2>3. \A i \in DOMAIN log : /\ log[i].by \in watcher /\ log[i].fate \in Fates
                              /\ log[i].fate = "quiet" <=> log[i].drifts = {}
    BY LogKnown DEF EntryTells, LogEntry
  <2>4. life \in 0..MaxTroubles
    BY NumbersKnown DEF DriftInv, CountsFit
  <2> QED
    BY <2>1, <2>2, <2>3, <2>4 DEF DriftInv, WatchFits, CountsFit, DriftTypeOK
<1> QED
  BY <1>1, DriftAlwaysInv, PTL
=============================================================================
