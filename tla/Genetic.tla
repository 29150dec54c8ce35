-------------------------------- MODULE Genetic --------------------------------
(***************************************************************************)
(* GeneticSchedulerService.evolve: a population of schedules is ranked by  *)
(* fitness and bred again, generation after generation; what the user says *)
(* between two runs weighs in the next.  evolve is synchronous: nothing    *)
(* else happens between its steps.  Random choices are free ones.          *)
(***************************************************************************)
EXTENDS Integers, Sequences, FiniteSets, SequencesExt, FiniteSetsExt

CONSTANTS
    GeneTasks,       \* ids of the tasks of the request
    TaskOf,          \* [GeneTasks -> needed, weight, due, dependsOn, locked, at]
    FreeSlots,       \* the free slots, a sequence of intervals
    TopoOrder,       \* the tasks, prerequisites first
    PopulationSize, EliteCount,
    MaxGenerations,  \* generations of a run
    Shifts,          \* how far a mutation may move a task: half an hour each way
    Scores,          \* what a user may say
    MaxFeedbacks     \* bound: feedback before a run

ASSUME GeneticBounds ==
    /\ PopulationSize \in Nat \ {0} /\ EliteCount \in 1..PopulationSize
    /\ MaxGenerations \in Nat /\ MaxFeedbacks \in Nat
ASSUME GenesHaveTypes ==
    /\ IsFiniteSet(GeneTasks) /\ DOMAIN TaskOf = GeneTasks
    /\ \A t \in GeneTasks : /\ {TaskOf[t].needed, TaskOf[t].weight, TaskOf[t].due, TaskOf[t].at} \subseteq Int
                            /\ IsFiniteSet(TaskOf[t].dependsOn)
    /\ FreeSlots \in Seq([start: Int, end: Int]) /\ TopoOrder \in Seq(GeneTasks)
    /\ Scores \subseteq Int /\ Shifts \subseteq Int

VARIABLES
    phase,        \* "idle", "ranked", "bred" or "done"
    population,   \* chromosomes: sequences of genes
    nextGen,      \* those of the next generation so far
    history,      \* the best fitness of each generation
    preference,   \* userPreferences, in fifths
    feedbacks

geneVars == <<phase, population, nextGen, history, preference, feedbacks>>

GeneticInit ==
    /\ phase = "idle" /\ population = <<>> /\ nextGen = <<>> /\ history = <<>>
    /\ preference = [t \in GeneTasks |-> 0] /\ feedbacks = 0

-----------------------------------------------------------------------------
(* initialize: each task takes the first slot it fits in. *)

Gene(t, start) == [task |-> t, start |-> start, end |-> start + TaskOf[t].needed]

AssignSlot(acc, t) ==
    LET fits == {i \in DOMAIN acc.slots : acc.slots[i].end - acc.slots[i].start >= TaskOf[t].needed}
    IN  IF TaskOf[t].locked THEN [acc EXCEPT !.genes = Append(@, Gene(t, TaskOf[t].at))]
        ELSE IF fits = {} THEN acc
        ELSE LET i == Min(fits)
                 gene == Gene(t, acc.slots[i].start)
             IN  [slots |-> [acc.slots EXCEPT ![i].start = gene.end],
                  genes |-> Append(acc.genes, gene)]

Schedule(order) == FoldLeft(AssignSlot, [slots |-> FreeSlots, genes |-> <<>>], order).genes

(* The first follows the order of the prerequisites, the others are shuffled. *)
Initialize ==
    {[i \in 1..PopulationSize |-> IF i = 1 THEN Schedule(TopoOrder) ELSE Schedule(orders[i])]
       : orders \in [2..PopulationSize -> SetToSeqs(GeneTasks)]}

-----------------------------------------------------------------------------
(* fitness, times the length of the free slots; slot preferences are left
   out. *)
Length(s)  == FoldLeft(LAMBDA sum, i : sum + i.end - i.start, 0, s)
Late(n)    == IF n > 0 THEN n ELSE 0
Placed(ch) == {ch[i].task : i \in DOMAIN ch}
FirstOf(ch, t) == ch[Min({i \in DOMAIN ch : ch[i].task = t})]

Worth(liked, ch, gene) ==
    LET task == TaskOf[gene.task]
        broken == {d \in task.dependsOn : d \in Placed(ch) /\ FirstOf(ch, d).end > gene.start}
    IN  task.weight + 2 * liked[gene.task] - 20 * Late(gene.end - task.due)
          - 200 * Cardinality(broken)

FitnessBy(liked, ch) ==
    LET worth == FoldLeft(LAMBDA sum, gene : sum + Worth(liked, ch, gene), 1000, ch)
        missing == Cardinality(GeneTasks \ Placed(ch))
    IN  Length(FreeSlots) * (worth - 100 * missing) + 50 * Length(ch)

Fitness(ch) == FitnessBy(preference, ch)

Ranked(pop) ==
    LET before(i, j) == \/ Fitness(pop[i]) > Fitness(pop[j])
                        \/ Fitness(pop[i]) = Fitness(pop[j]) /\ i < j
        places == CHOOSE s \in SetToSeqs(DOMAIN pop) :
                    \A i, j \in DOMAIN s : i < j => before(s[i], s[j])
    IN  [i \in DOMAIN pop |-> pop[places[i]]]

-----------------------------------------------------------------------------
(* Breeding *)

(* The draws are with replacement: any member may win a tournament. *)
TournamentSelect == {population[i] : i \in DOMAIN population}

Crossover(a, b) ==
    LET shorter == IF Len(a) < Len(b) THEN Len(a) ELSE Len(b)
    IN  {SubSeq(a, 1, cut) \o SubSeq(b, cut + 1, Len(b))
           : cut \in 0..(IF shorter = 0 THEN 0 ELSE shorter - 1)}

InASlot(start, end) ==
    \E i \in DOMAIN FreeSlots : FreeSlots[i].start <= start /\ end <= FreeSlots[i].end

Moved(ch, i, d) == [ch EXCEPT ![i].start = @ + d, ![i].end = @ + d]

Mutate(ch) ==
    {ch} \cup UNION {{Moved(ch, i, d) : d \in {s \in Shifts : InASlot(ch[i].start + s, ch[i].end + s)}}
                       : i \in {j \in DOMAIN ch : ~TaskOf[ch[j].task].locked}}

Children ==
    LET parents == TournamentSelect
        kept == parents \cup UNION {Crossover(a, b) : a, b \in parents}
    IN  kept \cup UNION {Mutate(ch) : ch \in kept}

-----------------------------------------------------------------------------
(* recordFeedback *)
Clamped(score) == IF score < 1 THEN 1 ELSE IF score > 5 THEN 5 ELSE score

RecordFeedback(t) ==
    /\ phase = "idle" /\ feedbacks < MaxFeedbacks
    /\ \E score \in Scores : preference' = [preference EXCEPT ![t] = @ + 5 * Clamped(score)]
    /\ feedbacks' = feedbacks + 1
    /\ UNCHANGED <<phase, population, nextGen, history>>

(* evolve, with a rating in the request. *)
Evolve ==
    /\ phase = "idle"
    /\ \E t \in GeneTasks, score \in Scores \cup {0} :
         preference' = [preference EXCEPT ![t] = @ + score]
    /\ population' \in Initialize
    /\ phase' = "bred" /\ nextGen' = <<>> /\ history' = <<>>
    /\ UNCHANGED feedbacks

ElitesMutant(pop) == SubSeq(pop, 2, EliteCount + 1)

(* The best are kept as they are. *)
Elites(pop) == SubSeq(pop, 1, EliteCount)

Rank ==
    /\ phase = "bred" /\ Len(history) < MaxGenerations
    /\ LET sorted == Ranked(population)
       IN  /\ population' = sorted
           /\ history' = Append(history, Fitness(sorted[1]))
           /\ nextGen' = Elites(sorted)
    /\ phase' = "ranked"
    /\ UNCHANGED <<preference, feedbacks>>

Breed ==
    /\ phase = "ranked" /\ Len(nextGen) < PopulationSize
    /\ \E child \in Children : nextGen' = Append(nextGen, child)
    /\ UNCHANGED <<phase, population, history, preference, feedbacks>>

EndGeneration ==
    /\ phase = "ranked" /\ Len(nextGen) >= PopulationSize
    /\ population' = SubSeq(nextGen, 1, PopulationSize)
    /\ phase' = "bred"
    /\ UNCHANGED <<nextGen, history, preference, feedbacks>>

(* The last population is ranked and its best answered. *)
Answer ==
    /\ phase = "bred" /\ Len(history) = MaxGenerations
    /\ population' = Ranked(population)
    /\ phase' = "done"
    /\ UNCHANGED <<nextGen, history, preference, feedbacks>>

GeneticNext ==
    \/ \E t \in GeneTasks : RecordFeedback(t)
    \/ Evolve \/ Rank \/ Breed \/ EndGeneration \/ Answer

GeneticSpec == GeneticInit /\ [][GeneticNext]_geneVars

-----------------------------------------------------------------------------
(* Properties *)

GeneticTypeOK ==
    /\ phase \in {"idle", "ranked", "bred", "done"}
    /\ \A i \in DOMAIN population : Placed(population[i]) \subseteq GeneTasks
    /\ Len(history) <= MaxGenerations /\ Len(nextGen) <= PopulationSize

(* The best fitness never falls from one generation to the next, and the
   schedule that is answered is at least as good as every one before. *)
HistoryRises ==
    /\ \A i, j \in DOMAIN history : i < j => history[i] <= history[j]
    /\ phase = "done" => \A i \in DOMAIN history : history[i] <= Fitness(population[1])

(* What the theorem needs besides: the population that is bred next holds a
   schedule as good as the last that was best, first among the elite. *)
Chromosomes == Seq([task: GeneTasks, start: Int, end: Int])

GenerationsInv ==
    /\ preference \in [GeneTasks -> Int] /\ history \in Seq(Int)
    /\ phase # "idle" => population \in [1..PopulationSize -> Chromosomes]
    /\ phase = "idle" => history = <<>>
    /\ phase = "ranked" =>
         /\ nextGen \in Seq(Chromosomes) /\ nextGen # <<>> /\ history # <<>>
         /\ history[Len(history)] <= Fitness(nextGen[1])
    /\ phase = "bred" /\ history # <<>> => history[Len(history)] <= Fitness(population[1])
    /\ HistoryRises
=============================================================================
