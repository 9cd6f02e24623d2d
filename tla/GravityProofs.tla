---------------------------- MODULE GravityProofs ----------------------------
(***************************************************************************)
(* Surveys weigh with the densities that were given, and evaluations sum   *)
(* over the cells asked for, each with what is its own, for every model,   *)
(* every step of it and any number of calls.                               *)
(*                                                                         *)
(* The argument for the densities: the vector of a phase whose default was *)
(* given first and once has what was added where something was added, and  *)
(* that default elsewhere (DensitiesKept); a survey takes from the vector, *)
(* and told keeps what was given by then.  The argument for the            *)
(* evaluations: all that a survey, the cache of volumes and a region hold  *)
(* is by place in a numbering of the active cells, that of the surveys or  *)
(* the one of the moment of the first request (VolumesKept, RegionKept);   *)
(* where the two are the same, a place is one cell, since a numbering has  *)
(* each cell once.  A difference of sums over phases is the sum of         *)
(* differences by induction over the phases.                               *)
(***************************************************************************)
EXTENDS Gravity, SequenceTheorems, Induction, TLAPS

FileKept == init_file \in InitFiles /\ gi = init_file.active

DensitiesKept ==
    /\ default_density \in [Phases -> Int] /\ std_density \in [Phases -> Seq(Int)]
    /\ DOMAIN given = {"default", "added", "unordered"}
    /\ DOMAIN given.default = Phases /\ DOMAIN given.added = Phases
    /\ \A phase \in Phases :
           /\ given.default[phase] \subseteq {default_density[phase]}
           /\ DOMAIN given.added[phase] \subseteq 0 .. Len(std_density[phase]) - 1
           /\ given.added[phase] = <<>> => std_density[phase] = <<>>
           /\ phase \notin given.unordered =>
                  \A n \in DOMAIN std_density[phase] :
                      std_density[phase][n] \in DensitiesGiven(given, phase, n - 1)

SurveysKept ==
    /\ DOMAIN told = DOMAIN surveys
    /\ \A name \in DOMAIN surveys :
           /\ DOMAIN surveys[name] = DOMAIN ModelPhases
           /\ \A p \in DOMAIN ModelPhases :
                  /\ surveys[name][p].phase = ModelPhases[p]
                  /\ \A i \in DOMAIN gi : surveys[name][p].fluid_mass[i] \in Int

PressesKept ==
    \A name \in DOMAIN presses : \A i \in DOMAIN gi : presses[name].porv[i] = init_file.porv[gi[i]]

VolumesKept ==
    volume.of # <<>> /\ volume.grid = gi =>
        \A i \in DOMAIN gi : volume.of[i] = init_file.volume[gi[i]]

(* A region lists what the numbering on record has of its cells.           *)
Lists(of) == of.list = {i \in DOMAIN of.grid : of.grid[i] \in of.cells}

RegionKept ==
    region = NoRegion \/
        /\ DOMAIN region = {"cells", "valid", "list", "grid"}
        /\ region.valid => Lists(region)

IInv ==
    /\ FileKept /\ DensitiesKept /\ SurveysKept /\ PressesKept /\ VolumesKept /\ RegionKept
    /\ DensitiesAsGiven /\ EvaluationsOfCells

-----------------------------------------------------------------------------
(* The phases of the model do not change, and are phases.                  *)
LEMMA ModelPhasesShape == ModelPhases \in Seq(Phases)
  <1>1. \A phase \in Phases : PhaseIfThere(phase) \in Seq(Phases)
    BY DEF PhaseIfThere
  <1> HIDE DEF PhaseIfThere
  <1>2. \A s, t \in Seq(Phases) : s \o t \in Seq(Phases)
    BY ConcatProperties
  <1> QED BY <1>1, <1>2 DEF ModelPhases, Phases

LEMMA FileShape ==
    ASSUME FileKept
    PROVE  /\ gi \in Seq(Nat) /\ DOMAIN gi = 1 .. Len(gi) /\ Len(gi) \in Nat
           /\ \A i, j \in DOMAIN gi : gi[i] = gi[j] => i = j
           /\ \A i \in DOMAIN gi : init_file.pvtnum[i] \in Nat /\ init_file.porv[gi[i]] \in Int
           /\ \A step \in init_file.steps, i \in DOMAIN gi : \A k \in DOMAIN step : step[k][i] \in Int
  <1>1. gi \in Seq(Nat)
    BY FilesAssumption DEF FileKept
  <1>2. DOMAIN gi = 1 .. Len(gi) /\ Len(gi) \in Nat
    BY <1>1, LenProperties
  <1> QED BY <1>1, <1>2, FilesAssumption DEF FileKept

(* DensitiesAsGiven of some surveys.                                       *)
WeighedAsGiven(made, of, file, cells) ==
    \A name \in DOMAIN made : of[name].method = "FIP" =>
        \A p \in DOMAIN made[name], i \in DOMAIN cells :
            LET phase == made[name][p].phase
            IN  phase \in Phases \ of[name].given.unordered =>
                    made[name][p].fluid_mass[i]
                        \in {of[name].step[<<"FIP", phase>>][i] * d :
                                d \in DensitiesGiven(of[name].given, phase, file.pvtnum[i])}

(* What an operation leaves alone stays as it should be.                   *)
LEMMA Frame ==
    ASSUME IInv, UNCHANGED <<init_file, gi>>
    PROVE  /\ FileKept'
           /\ UNCHANGED <<default_density, std_density, given>> => DensitiesKept'
           /\ UNCHANGED <<surveys, told>> => SurveysKept' /\ DensitiesAsGiven'
           /\ UNCHANGED presses => PressesKept'
           /\ UNCHANGED volume => VolumesKept'
           /\ UNCHANGED region => RegionKept'
  <1>1. ModelPhases' = ModelPhases
    BY DEF ModelPhases, PhaseIfThere, HasPhase
  <1>2. FileKept'
    BY DEF IInv, FileKept
  <1>3. UNCHANGED <<default_density, std_density, given>> => DensitiesKept'
    BY DEF IInv, DensitiesKept, DensitiesGiven
  <1>4. UNCHANGED <<surveys, told>> => SurveysKept'
    BY <1>1 DEF IInv, SurveysKept
  <1>5. ASSUME UNCHANGED <<surveys, told>> PROVE DensitiesAsGiven'
    <2>1. surveys' = surveys /\ told' = told /\ init_file' = init_file /\ gi' = gi
      BY <1>5
    <2>2. WeighedAsGiven(surveys, told, init_file, gi)
      BY DEF IInv, DensitiesAsGiven, WeighsAsGiven, WeighedAsGiven
    <2>3. WeighedAsGiven(surveys', told', init_file', gi')
      BY <2>1, <2>2
    <2> QED BY <2>3 DEF DensitiesAsGiven, WeighsAsGiven, WeighedAsGiven
  <1>6. UNCHANGED presses => PressesKept'
    BY DEF IInv, PressesKept
  <1>7. UNCHANGED volume => VolumesKept'
    BY DEF IInv, VolumesKept
  <1>8. UNCHANGED region => RegionKept'
    BY DEF IInv, RegionKept, Lists
  <1> QED BY <1>2, <1>3, <1>4, <1>5, <1>6, <1>7, <1>8

(* An operation that is not an evaluation, or raises, answers nothing.     *)
LEMMA NoTerms ==
    ASSUME last'.op \notin {"eval", "eval_subsidence"} \/ last'.asked = <<>>
    PROVE  EvaluationsOfCells'
  <1> QED BY DEF EvaluationsOfCells, Answered

LEMMA DoneShape ==
    ASSUME NEW op, NEW result, Done(op, result)
    PROVE  last'.op = op /\ last'.asked = <<>>
  <1> QED BY DEF Done, Nothing

-----------------------------------------------------------------------------
(* The densities.                                                          *)

LEMMA NewDensityStep ==
    ASSUME IInv, NEW phase, NEW density \in Densities, NewStdDensity(phase, density)
    PROVE  IInv'
  <1>1. EvaluationsOfCells'
    BY DoneShape, NoTerms DEF NewStdDensity
  <1>2. UNCHANGED <<init_file, active, gi, volume, std_density, surveys, told, presses, region>>
    BY DEF NewStdDensity
  <1>3. DensitiesKept'
    <2>1. density \in Int
      BY ClientAssumption
    <2> DEFINE unordered == IF given.added[phase] = <<>> THEN given.unordered
                            ELSE given.unordered \cup {phase}
    <2>2. /\ given' = [given EXCEPT !.default[phase] = {density}, !.unordered = unordered]
          /\ default_density' = [default_density EXCEPT ![phase] = density]
      BY DEF NewStdDensity
    <2> HIDE DEF unordered
    <2>3. /\ DOMAIN given' = {"default", "added", "unordered"} /\ given'.added = given.added
          /\ DOMAIN given'.default = Phases /\ given'.unordered = unordered
          /\ \A f \in Phases :
                given'.default[f] = IF f = phase THEN {density} ELSE given.default[f]
      BY <2>2 DEF IInv, DensitiesKept
    <2>4. /\ default_density' \in [Phases -> Int]
          /\ \A f \in Phases : default_density'[f] = IF f = phase THEN density ELSE default_density[f]
      BY <2>1, <2>2 DEF IInv, DensitiesKept
    <2>5. ASSUME NEW f \in Phases, f \notin given'.unordered, NEW n \in DOMAIN std_density[f]
          PROVE  std_density[f][n] \in DensitiesGiven(given', f, n - 1)
      <3>1. f \notin given.unordered /\ (f = phase => given.added[f] = <<>>)
        BY <2>3, <2>5 DEF unordered
      <3>2. f # phase
        <4>1. DOMAIN <<>> = {}
          BY EmptySeq
        <4> QED BY <2>5, <3>1, <4>1 DEF IInv, DensitiesKept
      <3>3. DensitiesGiven(given', f, n - 1) = DensitiesGiven(given, f, n - 1)
        BY <2>3, <3>2 DEF DensitiesGiven
      <3> QED BY <2>5, <3>1, <3>3 DEF IInv, DensitiesKept
    <2> QED BY <1>2, <2>3, <2>4, <2>5 DEF IInv, DensitiesKept
  <1> QED BY <1>1, <1>2, <1>3, Frame DEF IInv

LEMMA AddDensityStep ==
    ASSUME IInv, NEW phase, NEW pvtnum \in Pvtnums, NEW density \in Densities,
           AddStdDensity(phase, pvtnum, density)
    PROVE  IInv'
  <1>1. EvaluationsOfCells'
    BY DoneShape, NoTerms DEF AddStdDensity
  <1>2. UNCHANGED <<init_file, active, gi, volume, default_density, surveys, told, presses, region>>
    BY DEF AddStdDensity
  <1>3. DensitiesKept'
    <2> DEFINE new(f) == Resized(std_density[f], pvtnum, default_density[f], density)
    <2>1. density \in Int /\ pvtnum \in Nat
      BY ClientAssumption
    <2> DEFINE unordered == IF given.default[phase] = {} THEN given.unordered \cup {phase}
                            ELSE given.unordered
    <2>2. /\ std_density' = [std_density EXCEPT ![phase] = new(phase)]
          /\ given' = [given EXCEPT !.added[phase] =
                    [n \in DOMAIN given.added[phase] \cup {pvtnum} |->
                        IF n = pvtnum THEN density ELSE given.added[phase][n]],
                                     !.unordered = unordered]
      BY DEF AddStdDensity
    <2> HIDE DEF unordered
    <2>3. /\ DOMAIN given' = {"default", "added", "unordered"} /\ given'.default = given.default
          /\ DOMAIN given'.added = Phases /\ given'.unordered = unordered
          /\ \A f \in Phases :
                given'.added[f] = IF f # phase THEN given.added[f]
                                  ELSE [n \in DOMAIN given.added[f] \cup {pvtnum} |->
                                           IF n = pvtnum THEN density ELSE given.added[f][n]]
      BY <2>2 DEF IInv, DensitiesKept
    <2> DEFINE size(f) == Larger(Len(std_density[f]), pvtnum + 1)
    <2>4. ASSUME NEW f \in Phases
          PROVE  /\ new(f) \in Seq(Int) /\ Len(new(f)) = size(f) /\ DOMAIN new(f) = 1 .. size(f)
                 /\ size(f) \in Nat /\ size(f) >= pvtnum + 1 /\ size(f) >= Len(std_density[f])
                 /\ Len(std_density[f]) \in Nat /\ DOMAIN std_density[f] = 1 .. Len(std_density[f])
                 /\ \A n \in 1 .. size(f) :
                       new(f)[n] = IF n = pvtnum + 1 THEN density
                                   ELSE IF n > Len(std_density[f]) THEN default_density[f]
                                   ELSE std_density[f][n]
      <3>1. /\ Len(std_density[f]) \in Nat /\ DOMAIN std_density[f] = 1 .. Len(std_density[f])
            /\ \A n \in 1 .. Len(std_density[f]) : std_density[f][n] \in Int
        BY LenProperties DEF IInv, DensitiesKept
      <3>2. size(f) \in Nat /\ size(f) >= pvtnum + 1 /\ size(f) >= Len(std_density[f])
        BY <2>1, <3>1 DEF Larger
      <3>3. default_density[f] \in Int
        BY DEF IInv, DensitiesKept
      <3> HIDE DEF size
      <3>4. \A n \in 1 .. size(f) : (IF n = pvtnum + 1 THEN density
                                     ELSE IF n > Len(std_density[f]) THEN default_density[f]
                                     ELSE std_density[f][n]) \in Int
        BY <2>1, <3>1, <3>2, <3>3
      <3>5. new(f) = [n \in 1 .. size(f) |-> IF n = pvtnum + 1 THEN density
                                     ELSE IF n > Len(std_density[f]) THEN default_density[f]
                                     ELSE std_density[f][n]]
        BY DEF Resized, size
      <3>6. new(f) \in [1 .. size(f) -> Int]
        BY <3>4, <3>5
      <3>7. new(f) \in Seq(Int)
        BY <3>2, <3>6, SeqDef
      <3>8. Len(new(f)) = size(f)
        <4>1. DOMAIN new(f) = 1 .. Len(new(f)) /\ Len(new(f)) \in Nat
          BY <3>7, LenProperties
        <4>2. DOMAIN new(f) = 1 .. size(f)
          BY <3>6
        <4> QED BY <3>2, <4>1, <4>2
      <3> QED BY <3>1, <3>2, <3>5, <3>6, <3>7, <3>8
    <2>5. std_density' \in [Phases -> Seq(Int)]
      BY <2>2, <2>4 DEF IInv, DensitiesKept
    <2>6. ASSUME NEW f \in Phases
          PROVE  /\ given'.default[f] \subseteq {default_density'[f]}
                 /\ DOMAIN given'.added[f] \subseteq 0 .. Len(std_density'[f]) - 1
                 /\ given'.added[f] = <<>> => std_density'[f] = <<>>
                 /\ f \notin given'.unordered =>
                        \A n \in DOMAIN std_density'[f] :
                            std_density'[f][n] \in DensitiesGiven(given', f, n - 1)
      <3>1. given'.default[f] \subseteq {default_density'[f]}
        BY <1>2, <2>3 DEF IInv, DensitiesKept
      <3>2. CASE f # phase
        <4>1. std_density'[f] = std_density[f] /\ given'.added[f] = given.added[f]
          BY <2>2, <2>3, <3>2 DEF IInv, DensitiesKept
        <4>2. f \notin given'.unordered => f \notin given.unordered
          BY <2>3 DEF unordered
        <4> QED BY <2>3, <3>1, <4>1, <4>2 DEF IInv, DensitiesKept, DensitiesGiven
      <3>3. CASE f = phase
        <4>1. std_density'[f] = new(f)
          BY <2>2, <3>3 DEF IInv, DensitiesKept
        <4> HIDE DEF new, size
        <4>2. /\ DOMAIN given'.added[f] = DOMAIN given.added[f] \cup {pvtnum}
              /\ given'.added[f][pvtnum] = density
              /\ \A n \in DOMAIN given.added[f] : n # pvtnum => given'.added[f][n] = given.added[f][n]
          BY <2>3, <3>3
        <4>3. DOMAIN given.added[f] \subseteq 0 .. Len(std_density[f]) - 1
          BY DEF IInv, DensitiesKept
        <4>4. DOMAIN given'.added[f] \subseteq 0 .. Len(std_density'[f]) - 1
          <5> SUFFICES ASSUME NEW m \in DOMAIN given'.added[f]
                       PROVE  m \in 0 .. Len(std_density'[f]) - 1
            OBVIOUS
          <5>1. Len(std_density'[f]) = size(f) /\ size(f) \in Nat
            BY <2>4, <4>1
          <5>2. pvtnum \in 0 .. size(f) - 1 /\ 0 .. Len(std_density[f]) - 1 \subseteq 0 .. size(f) - 1
            BY <2>1, <2>4
          <5> QED BY <4>2, <4>3, <5>1, <5>2
        <4>5. ASSUME f \notin given'.unordered, NEW n \in 1 .. size(f)
              PROVE  new(f)[n] \in DensitiesGiven(given', f, n - 1)
          <5>0. f \notin given.unordered /\ given'.default[f] = {default_density[f]}
            <6>1. f \notin given.unordered /\ given.default[f] # {}
              BY <2>3, <3>3, <4>5 DEF unordered
            <6> QED BY <2>3, <6>1 DEF IInv, DensitiesKept
          <5>1. CASE n = pvtnum + 1
            <6>1. n - 1 = pvtnum
              BY <2>1, <5>1
            <6> QED BY <2>4, <4>2, <5>1, <6>1 DEF DensitiesGiven
          <5>2. CASE n # pvtnum + 1 /\ n > Len(std_density[f])
            <6>1. n - 1 \notin DOMAIN given'.added[f]
              BY <2>1, <2>4, <4>2, <4>3, <5>2
            <6>2. new(f)[n] = default_density[f]
              BY <2>4, <5>2
            <6> QED BY <5>0, <6>1, <6>2 DEF DensitiesGiven
          <5>3. CASE n # pvtnum + 1 /\ ~(n > Len(std_density[f]))
            <6>1. n \in DOMAIN std_density[f] /\ n - 1 # pvtnum
              BY <2>1, <2>4, <5>3
            <6>2. new(f)[n] = std_density[f][n]
              BY <2>4, <5>3
            <6>3. std_density[f][n] \in DensitiesGiven(given, f, n - 1)
              BY <5>0, <6>1 DEF IInv, DensitiesKept
            <6>4. DensitiesGiven(given, f, n - 1) = DensitiesGiven(given', f, n - 1)
              BY <2>3, <4>2, <6>1 DEF DensitiesGiven
            <6> QED BY <6>2, <6>3, <6>4
          <5> QED BY <5>1, <5>2, <5>3
        <4>6. given'.added[f] # <<>>
          <5>1. DOMAIN <<>> = {}
            BY EmptySeq
          <5> QED BY <4>2, <5>1
        <4> QED BY <2>4, <3>1, <4>1, <4>4, <4>5, <4>6
      <3> QED BY <3>2, <3>3
    <2> HIDE DEF new, size
    <2> QED BY <1>2, <2>3, <2>5, <2>6 DEF IInv, DensitiesKept
  <1> QED BY <1>1, <1>2, <1>3, Frame DEF IInv

-----------------------------------------------------------------------------
(* The surveys.                                                            *)

(* The mass that a survey keeps of a phase is a number, in every cell.     *)
LEMMA MassIsNumber ==
    ASSUME IInv, NEW step \in init_file.steps, NEW method \in Methods, NEW phase \in Phases,
           ~PhaseFails(step, method, phase), ~PorvFails(step, method), NEW i \in DOMAIN gi
    PROVE  /\ FluidMass(step, method, phase)[i] \in Int
           /\ method = "FIP" =>
                  FluidMass(step, method, phase)[i]
                      = step[<<"FIP", phase>>][i] * std_density[phase][init_file.pvtnum[i] + 1]
  <1>1. /\ init_file.pvtnum[i] \in Nat /\ init_file.porv[gi[i]] \in Int
        /\ \A k \in DOMAIN step : step[k][i] \in Int
    BY FileShape DEF IInv
  <1>2. CASE method = "FIP"
    <2>1. <<"FIP", phase>> \in DOMAIN step /\ init_file.pvtnum[i] < Len(std_density[phase])
      <3>1. <<"FIP", phase>> \in DOMAIN step /\ ~(init_file.pvtnum[i] >= Len(std_density[phase]))
        BY <1>2 DEF PhaseFails
      <3>2. Len(std_density[phase]) \in Nat
        BY LenProperties DEF IInv, DensitiesKept
      <3> QED BY <1>1, <3>1, <3>2
    <2>2. std_density[phase][init_file.pvtnum[i] + 1] \in Int
      <3>1. std_density[phase] \in Seq(Int)
        BY DEF IInv, DensitiesKept
      <3>2. Len(std_density[phase]) \in Nat
        BY <3>1, LenProperties
      <3>3. init_file.pvtnum[i] + 1 \in 1 .. Len(std_density[phase])
        BY <1>1, <2>1, <3>2
      <3> QED BY <3>1, <3>3, ElementOfSeq
    <2>3. FluidMass(step, method, phase)[i]
              = step[<<"FIP", phase>>][i] * std_density[phase][init_file.pvtnum[i] + 1]
      BY <1>2 DEF FluidMass
    <2>4. step[<<"FIP", phase>>][i] \in Int
      BY <1>1, <2>1
    <2> QED BY <2>2, <2>3, <2>4
  <1>3. CASE method = "RFIP"
    <2>1. DenKw(phase) \in DOMAIN step /\ <<"RFIP", phase>> \in DOMAIN step
      BY <1>3 DEF PhaseFails
    <2>2. FluidMass(step, method, phase)[i] = step[DenKw(phase)][i] * step[<<"RFIP", phase>>][i]
      BY <1>3 DEF FluidMass
    <2> QED BY <1>1, <1>3, <2>1, <2>2
  <1>4. CASE method \in {"RPORV", "PORMOD"}
    <2>1. /\ DenKw(phase) \in DOMAIN step
          /\ <<"SAT", phase>> \in DOMAIN step \/ <<"SAT", "water">> \in DOMAIN step
      BY <1>4 DEF PhaseFails
    <2>2. Saturation(step, phase)[i] \in Int
      <3>1. CASE <<"SAT", phase>> \in DOMAIN step
        BY <1>1, <3>1 DEF Saturation
      <3>2. CASE <<"SAT", phase>> \notin DOMAIN step
        <4>1. step[<<"SAT", "water">>][i] \in Int
          BY <1>1, <2>1, <3>2
        <4>2. (IF <<"SAT", "gas">> \in DOMAIN step THEN step[<<"SAT", "gas">>][i] ELSE 0) \in Int
          BY <1>1
        <4>3. Saturation(step, phase)[i] = 10 - step[<<"SAT", "water">>][i]
                   - (IF <<"SAT", "gas">> \in DOMAIN step THEN step[<<"SAT", "gas">>][i] ELSE 0)
          BY <3>2 DEF Saturation, Full
        <4> QED BY <4>1, <4>2, <4>3
      <3> QED BY <3>1, <3>2
    <2>3. Porv(step, method)[i] \in Int
      <3>1. CASE method = "RPORV"
        <4>1. step[<<"RPORV">>][i] \in Int
          BY <1>1, <3>1 DEF PorvFails
        <4> QED BY <3>1, <4>1 DEF Porv
      <3>2. CASE method = "PORMOD"
        <4>1. step[<<"PORMOD">>][i] \in Int
          BY <1>1, <3>2 DEF PorvFails
        <4>2. Porv(step, method)[i] = step[<<"PORMOD">>][i] * init_file.porv[gi[i]]
          BY <3>2 DEF Porv
        <4> QED BY <1>1, <4>1, <4>2
      <3> QED BY <1>4, <3>1, <3>2
    <2>4. FluidMass(step, method, phase)[i]
              = step[DenKw(phase)][i] * Saturation(step, phase)[i] * Porv(step, method)[i]
      BY <1>4 DEF FluidMass
    <2>5. step[DenKw(phase)][i] \in Int
      BY <1>1, <2>1
    <2> QED BY <1>4, <2>2, <2>3, <2>4, <2>5
  <1> QED BY <1>2, <1>3, <1>4 DEF Methods

(* A survey of fluids in place takes what the vector has for the region,   *)
(* and the vector has what was given.                                      *)
LEMMA SurveyStep ==
    ASSUME IInv, NEW name, NEW step \in init_file.steps, NEW method \in Methods, NEW drawn,
           AddSurvey(name, step, method, drawn)
    PROVE  IInv'
  <1>1. UNCHANGED <<init_file, active, gi, volume, default_density, std_density, given, presses,
                    region>>
    BY DEF AddSurvey
  <1>2. EvaluationsOfCells'
    BY NoTerms DEF AddSurvey, Done, Nothing
  <1>3. CASE SurveyFails(step, method, drawn)
    <2>1. UNCHANGED <<surveys, told>>
      BY <1>3 DEF AddSurvey
    <2> QED BY <1>1, <1>2, <2>1, Frame DEF IInv
  <1>4. CASE ~SurveyFails(step, method, drawn)
    <2> DEFINE list == [p \in DOMAIN ModelPhases |->
                            [phase |-> ModelPhases[p],
                             fluid_mass |-> FluidMass(step, method, ModelPhases[p])]]
    <2>1. /\ surveys' = [n \in DOMAIN surveys \cup {name} |-> IF n # name THEN surveys[n] ELSE list]
          /\ told' = [n \in DOMAIN told \cup {name} |->
                   IF n # name THEN told[n] ELSE [method |-> method, step |-> step, given |-> given]]
      BY <1>4 DEF AddSurvey
    <2>2. ModelPhases' = ModelPhases
      BY <1>1 DEF ModelPhases, PhaseIfThere, HasPhase
    <2>3. DOMAIN told = DOMAIN surveys
      BY DEF IInv, SurveysKept
    <2>4. ASSUME NEW p \in DOMAIN ModelPhases
          PROVE  ModelPhases[p] \in Phases /\ ~PhaseFails(step, method, ModelPhases[p])
      <3>1. ModelPhases[p] \in Phases
        BY ModelPhasesShape, LenProperties
      <3>2. ModelPhases[p] \in Range(ModelPhases)
        BY DEF Range
      <3> QED BY <1>4, <3>1, <3>2 DEF SurveyFails
    <2>5. ~PorvFails(step, method)
      BY <1>4 DEF SurveyFails
    <2>6. SurveysKept'
      <3>1. ASSUME NEW p \in DOMAIN ModelPhases
            PROVE  /\ list[p].phase = ModelPhases[p]
                   /\ \A i \in DOMAIN gi : list[p].fluid_mass[i] \in Int
        BY <2>4, <2>5, MassIsNumber
      <3>2. DOMAIN list = DOMAIN ModelPhases
        OBVIOUS
      <3> HIDE DEF list
      <3> QED BY <1>1, <2>1, <2>2, <2>3, <3>1, <3>2 DEF IInv, SurveysKept
    <2>7. DensitiesAsGiven'
      <3>1. ASSUME NEW n \in DOMAIN surveys', told'[n].method = "FIP",
                   NEW p \in DOMAIN surveys'[n], NEW i \in DOMAIN gi
            PROVE  surveys'[n][p].phase \in Phases \ told'[n].given.unordered =>
                   surveys'[n][p].fluid_mass[i]
                      \in {told'[n].step[<<"FIP", surveys'[n][p].phase>>][i] * d :
                              d \in DensitiesGiven(told'[n].given, surveys'[n][p].phase,
                                                   init_file.pvtnum[i])}
        <4>1. CASE n # name
          <5>1. n \in DOMAIN surveys /\ surveys'[n] = surveys[n] /\ told'[n] = told[n]
            BY <2>1, <2>3, <4>1
          <5>2. \A q \in DOMAIN surveys[n], k \in DOMAIN gi :
                    told[n].method = "FIP"
                    /\ surveys[n][q].phase \in Phases \ told[n].given.unordered =>
                    surveys[n][q].fluid_mass[k]
                      \in {told[n].step[<<"FIP", surveys[n][q].phase>>][k] * d :
                              d \in DensitiesGiven(told[n].given, surveys[n][q].phase,
                                                   init_file.pvtnum[k])}
            BY <5>1 DEF IInv, DensitiesAsGiven, WeighsAsGiven
          <5> QED BY <3>1, <5>1, <5>2
        <4>2. CASE n = name
          <5>1. /\ surveys'[n] = list
                /\ told'[n] = [method |-> method, step |-> step, given |-> given]
            BY <2>1, <4>2
          <5>2. method = "FIP" /\ told'[n].step = step /\ told'[n].given = given
            BY <3>1, <5>1
          <5>3. p \in DOMAIN ModelPhases /\ list[p].phase = ModelPhases[p]
            BY <5>1
          <5> DEFINE phase == ModelPhases[p]
                     pvtnum == init_file.pvtnum[i]
          <5>4. list[p].fluid_mass[i] = step[<<"FIP", phase>>][i] * std_density[phase][pvtnum + 1]
            BY <2>4, <2>5, <5>2, <5>3, MassIsNumber
          <5>5. ASSUME phase \notin given.unordered
                PROVE  std_density[phase][pvtnum + 1] \in DensitiesGiven(given, phase, pvtnum)
            <6>1. phase \in Phases /\ ~(pvtnum >= Len(std_density[phase])) /\ pvtnum \in Nat
              BY <2>4, <5>2, <5>3, FileShape DEF PhaseFails, IInv
            <6>2. Len(std_density[phase]) \in Nat /\ DOMAIN std_density[phase] = 1 .. Len(std_density[phase])
              BY <6>1, LenProperties DEF IInv, DensitiesKept
            <6>3. pvtnum + 1 \in DOMAIN std_density[phase] /\ (pvtnum + 1) - 1 = pvtnum
              BY <6>1, <6>2
            <6> QED BY <5>5, <6>1, <6>3 DEF IInv, DensitiesKept
          <5> HIDE DEF list
          <5> QED BY <5>1, <5>2, <5>3, <5>4, <5>5
        <4> QED BY <4>1, <4>2
      <3> QED BY <1>1, <3>1 DEF DensitiesAsGiven, WeighsAsGiven
    <2> QED BY <1>1, <1>2, <2>6, <2>7, Frame DEF IInv
  <1> QED BY <1>3, <1>4

LEMMA PressureStep ==
    ASSUME IInv, NEW name, NEW step, AddSurveyPressure(name, step)
    PROVE  IInv'
  <1>1. UNCHANGED <<init_file, active, gi, volume, survey_vars, region>>
    BY DEF AddSurveyPressure
  <1>2. EvaluationsOfCells'
    BY DoneShape, NoTerms DEF AddSurveyPressure
  <1>3. PressesKept'
    BY <1>1 DEF AddSurveyPressure, IInv, PressesKept
  <1> QED BY <1>1, <1>2, <1>3, Frame DEF IInv, survey_vars

-----------------------------------------------------------------------------
(* The grid and the regions of it.                                         *)

LEMMA RenumberStep ==
    ASSUME IInv, NEW renumbered \in Actives, ResetActnum(renumbered)
    PROVE  IInv'
  <1>1. UNCHANGED <<init_file, gi, volume, survey_vars, presses, region>>
    BY DEF ResetActnum
  <1>2. EvaluationsOfCells'
    BY DoneShape, NoTerms DEF ResetActnum
  <1> QED BY <1>1, <1>2, Frame DEF IInv, survey_vars

LEMMA RegionStep ==
    ASSUME IInv, NEW cells, SelectRegion(cells)
    PROVE  IInv'
  <1>1. UNCHANGED <<init_file, active, gi, volume, survey_vars, presses>>
    BY DEF SelectRegion
  <1>2. RegionKept'
    BY DEF SelectRegion, RegionKept
  <1>3. EvaluationsOfCells'
    BY DoneShape, NoTerms DEF SelectRegion
  <1> QED BY <1>1, <1>2, <1>3, Frame DEF IInv, survey_vars

(* The indices of a region are those of the numbering on record, once they *)
(* were asked for.                                                         *)
LEMMA ListedShape ==
    ASSUME IInv, region # NoRegion
    PROVE  /\ DOMAIN Listed(region) = {"cells", "valid", "list", "grid"}
           /\ Lists(Listed(region))
  <1>1. DOMAIN region = {"cells", "valid", "list", "grid"} /\ (region.valid => Lists(region))
    BY DEF IInv, RegionKept
  <1>2. CASE region.valid
    BY <1>1, <1>2 DEF Listed
  <1>3. CASE ~region.valid
    <2> DEFINE listed == [region EXCEPT !.valid = TRUE, !.grid = active,
                              !.list = {i \in DOMAIN active : active[i] \in region.cells}]
    <2>1. Listed(region) = listed
      BY <1>3 DEF Listed
    <2>2. /\ DOMAIN listed = {"cells", "valid", "list", "grid"} /\ listed.grid = active
          /\ listed.cells = region.cells
          /\ listed.list = {i \in DOMAIN active : active[i] \in region.cells}
      BY <1>1
    <2> HIDE DEF listed
    <2> QED BY <2>1, <2>2 DEF Lists
  <1> QED BY <1>2, <1>3

LEMMA ListStep ==
    ASSUME IInv, ListRegion
    PROVE  IInv'
  <1>1. UNCHANGED <<init_file, active, gi, volume, survey_vars, presses>>
    BY DEF ListRegion
  <1>2. RegionKept'
    BY ListedShape DEF ListRegion, RegionKept, Lists
  <1>3. EvaluationsOfCells'
    BY DoneShape, NoTerms DEF ListRegion
  <1> QED BY <1>1, <1>2, <1>3, Frame DEF IInv, survey_vars

-----------------------------------------------------------------------------
(* Sums.                                                                   *)

(* A sum is the last of the partial sums.                                  *)
LEMMA PartialSums ==
    ASSUME NEW f \in Seq(Int)
    PROVE  \E u \in [0 .. Len(f) -> Int] :
              /\ u[0] = 0 /\ \A n \in 1 .. Len(f) : u[n] = u[n - 1] + f[n]
              /\ SumOf(f) = u[Len(f)]
  <1> DEFINE N == Len(f)
             step == [n \in 1 .. N |-> [v \in Int |-> v + f[n]]]
             Solves(u) == u = [n \in 0 .. N |-> IF n = 0 THEN 0 ELSE u[n - 1] + f[n]]
             u == CHOOSE u : Solves(u)
  <1>1. N \in Nat /\ \A n \in 1 .. N : f[n] \in Int
    BY LenProperties
  <1> HIDE DEF N
  <1>2. step \in [1 .. N -> [Int -> Int]] /\ \A n \in 1 .. N : \A v \in Int : step[n][v] = v + f[n]
    BY <1>1
  <1> HIDE DEF step
  <1>3. \E w : Solves(w)
    <2>0. N \in Nat /\ 0 \in Int /\ step \in [1 .. N -> [Int -> Int]]
      BY <1>1, <1>2
    <2>1. PICK w : Recurs(w, N, Int, 0, step)
      BY <2>0, RecursionSolved
    <2>2. ASSUME NEW n \in 1 .. N PROVE w[n] = w[n - 1] + f[n]
      <3>1. n - 1 \in 0 .. N
        BY <1>1
      <3>2. w[n - 1] \in Int
        BY <2>1, <3>1 DEF Recurs
      <3> QED BY <1>2, <2>1, <3>2 DEF Recurs
    <2>3. \A n \in 0 .. N : w[n] = IF n = 0 THEN 0 ELSE w[n - 1] + f[n]
      BY <2>1, <2>2 DEF Recurs
    <2>4. w = [n \in 0 .. N |-> w[n]]
      BY <2>1 DEF Recurs
    <2>5. Solves(w)
      BY <2>3, <2>4
    <2> HIDE DEF Solves
    <2> QED BY <2>5
  <1>4. Solves(u)
    BY <1>3
  <1>5. SumOf(f) = u[N]
    BY DEF SumOf, N
  <1> HIDE DEF u
  <1>6. u[0] = 0 /\ \A n \in 1 .. N : u[n] = u[n - 1] + f[n]
    BY <1>1, <1>4
  <1>7. u \in [0 .. N -> Int]
    <2> DEFINE Typed == {n \in 0 .. N : u[n] \in Int}
    <2>1. 0 \in Typed
      BY <1>1, <1>6
    <2>2. ASSUME NEW n \in 0 .. N - 1, n \in Typed PROVE n + 1 \in Typed
      <3>1. n + 1 \in 1 .. N /\ (n + 1) - 1 = n
        BY <1>1
      <3> QED BY <1>1, <1>6, <2>2, <3>1
    <2> HIDE DEF Typed
    <2>3. 0 .. N \subseteq Typed
      BY <1>1, <2>1, <2>2, UpToInduction
    <2>4. u = [n \in 0 .. N |-> u[n]]
      BY <1>4
    <2> QED BY <2>3, <2>4 DEF Typed
  <1> QED BY <1>5, <1>6, <1>7 DEF N

(* The sum of differences is the difference of the sums.                   *)
LEMMA SumOfDifferences ==
    ASSUME NEW f \in Seq(Int), NEW g \in Seq(Int), NEW h \in Seq(Int),
           Len(f) = Len(g), Len(h) = Len(g), \A n \in 1 .. Len(g) : h[n] = f[n] - g[n]
    PROVE  SumOf(h) = SumOf(f) - SumOf(g) /\ SumOf(f) \in Int /\ SumOf(g) \in Int
  <1> DEFINE N == Len(g)
  <1>1. N \in Nat /\ \A n \in 1 .. N : f[n] \in Int /\ g[n] \in Int
    BY LenProperties
  <1>2. PICK u \in [0 .. N -> Int] : /\ u[0] = 0 /\ \A n \in 1 .. N : u[n] = u[n - 1] + f[n]
                                    /\ SumOf(f) = u[N]
    BY PartialSums
  <1>3. PICK v \in [0 .. N -> Int] : /\ v[0] = 0 /\ \A n \in 1 .. N : v[n] = v[n - 1] + g[n]
                                    /\ SumOf(g) = v[N]
    BY PartialSums
  <1>4. PICK w \in [0 .. N -> Int] : /\ w[0] = 0 /\ \A n \in 1 .. N : w[n] = w[n - 1] + h[n]
                                    /\ SumOf(h) = w[N]
    BY PartialSums
  <1>5. \A n \in 1 .. N : h[n] = f[n] - g[n]
    OBVIOUS
  <1> HIDE DEF N
  <1> DEFINE Differ == {n \in 0 .. N : w[n] = u[n] - v[n]}
  <1>6. 0 \in Differ
    BY <1>1, <1>2, <1>3, <1>4
  <1>7. ASSUME NEW n \in 0 .. N - 1, n \in Differ PROVE n + 1 \in Differ
    <2>1. n + 1 \in 1 .. N /\ (n + 1) - 1 = n /\ n \in 0 .. N /\ n + 1 \in 0 .. N
      BY <1>1
    <2>2. /\ u[n + 1] = u[n] + f[n + 1] /\ v[n + 1] = v[n] + g[n + 1]
          /\ w[n + 1] = w[n] + h[n + 1] /\ h[n + 1] = f[n + 1] - g[n + 1]
      BY <1>2, <1>3, <1>4, <1>5, <2>1
    <2>3. u[n] \in Int /\ v[n] \in Int /\ f[n + 1] \in Int /\ g[n + 1] \in Int /\ w[n] = u[n] - v[n]
      BY <1>1, <1>2, <1>3, <1>7, <2>1
    <2>4. w[n + 1] = u[n + 1] - v[n + 1]
      BY <2>2, <2>3
    <2> QED BY <2>1, <2>4
  <1> HIDE DEF Differ
  <1>8. 0 .. N \subseteq Differ
    BY <1>1, <1>6, <1>7, UpToInduction
  <1>9. N \in 0 .. N
    BY <1>1
  <1> QED BY <1>2, <1>3, <1>4, <1>8, <1>9 DEF Differ

LEMMA SumOfZeros ==
    ASSUME NEW f \in Seq(Int), \A n \in 1 .. Len(f) : f[n] = 0
    PROVE  SumOf(f) = 0
  <1>1. SumOf(f) = SumOf(f) - SumOf(f) /\ SumOf(f) \in Int
    BY SumOfDifferences
  <1> QED BY <1>1

-----------------------------------------------------------------------------
(* The evaluations.                                                        *)

(* What an evaluation is limited to is listed, and stays so.               *)
LEMMA LimitShape ==
    ASSUME IInv, NEW limited \in {FALSE, region # NoRegion}
    PROVE  /\ Limit(limited) = NoRegion \/ Lists(Limit(limited))
           /\ region' = (IF limited THEN Listed(region) ELSE region) => RegionKept'
  <1>1. CASE limited
    <2>1. region # NoRegion /\ Limit(limited) = Listed(region)
      BY <1>1 DEF Limit
    <2> QED BY <1>1, <2>1, ListedShape DEF RegionKept, Lists
  <1>2. CASE ~limited
    BY <1>2 DEF Limit, IInv, RegionKept, Lists
  <1> QED BY <1>1, <1>2

(* The terms are those of the cells asked for, each from its own place, of *)
(* a region that was listed in the numbering of the surveys.               *)
LEMMA TermsOfCells ==
    ASSUME IInv, NEW of, of = NoRegion \/ Lists(of), of # NoRegion => of.grid = gi, NEW weight
    PROVE  /\ ~PastTheEnd(of)
           /\ Terms(of, weight) = [cell \in CellsOf(of) |-> weight[PlaceOf(cell)]]
           /\ \A cell \in CellsOf(of) : PlaceOf(cell) \in DOMAIN gi /\ gi[PlaceOf(cell)] = cell
  <1>1. \A i, j \in DOMAIN gi : gi[i] = gi[j] => i = j
    BY FileShape DEF IInv
  <1>2. of # NoRegion => of.list = {i \in DOMAIN gi : gi[i] \in of.cells}
    BY DEF Lists
  <1>3. Indices(of) = {i \in DOMAIN gi : (of # NoRegion => gi[i] \in of.cells) /\ ~init_file.aquifer[i]}
    BY <1>2 DEF Indices
  <1>4. {gi[i] : i \in Indices(of)} = CellsOf(of)
    <2>1. ASSUME NEW i \in Indices(of) PROVE gi[i] \in CellsOf(of)
      BY <1>1, <1>3 DEF CellsOf, Range
    <2>2. ASSUME NEW cell \in CellsOf(of) PROVE \E i \in Indices(of) : gi[i] = cell
      <3>1. PICK i \in DOMAIN gi : gi[i] = cell
        BY DEF CellsOf, Range
      <3> QED BY <1>3, <3>1 DEF CellsOf
    <2> QED BY <2>1, <2>2
  <1>5. ASSUME NEW cell \in CellsOf(of)
        PROVE  /\ (CHOOSE i \in Indices(of) : gi[i] = cell) = PlaceOf(cell)
               /\ PlaceOf(cell) \in DOMAIN gi /\ gi[PlaceOf(cell)] = cell
    <2> DEFINE i == CHOOSE i \in Indices(of) : gi[i] = cell
    <2>1. \E k \in Indices(of) : gi[k] = cell
      BY <1>4
    <2>2. i \in Indices(of) /\ gi[i] = cell
      BY <2>1
    <2> HIDE DEF i
    <2>3. i \in DOMAIN gi
      BY <1>3, <2>2
    <2>4. PlaceOf(cell) \in DOMAIN gi /\ gi[PlaceOf(cell)] = cell
      BY <2>2, <2>3 DEF PlaceOf
    <2>5. i = PlaceOf(cell)
      BY <1>1, <2>2, <2>3, <2>4
    <2> QED BY <2>4, <2>5 DEF i
  <1>6. Terms(of, weight) = [cell \in CellsOf(of) |-> weight[CHOOSE i \in Indices(of) : gi[i] = cell]]
    BY <1>4 DEF Terms
  <1>7. ~PastTheEnd(of)
    BY <1>2 DEF PastTheEnd
  <1> QED BY <1>5, <1>6, <1>7

(* The mass of the phases asked for that a survey has at a place.          *)
MassOf(name, mask, i) ==
    SumOf([p \in DOMAIN surveys[name] |->
        IF surveys[name][p].phase \notin mask THEN 0 ELSE surveys[name][p].fluid_mass[i]])

LEMMA WeightIsDifference ==
    ASSUME IInv, NEW base \in DOMAIN surveys, NEW monitor,
           monitor # NoSurvey => monitor \in DOMAIN surveys, NEW mask, NEW i \in DOMAIN gi
    PROVE  SumOf([p \in DOMAIN surveys[base] |->
               IF surveys[base][p].phase \notin mask THEN 0 ELSE MassDiff(p, base, monitor, i)])
               = (IF monitor = NoSurvey THEN 0 ELSE MassOf(monitor, mask, i)) - MassOf(base, mask, i)
  <1> DEFINE N == Len(ModelPhases)
             mass(name) == [p \in 1 .. N |->
                 IF ModelPhases[p] \notin mask THEN 0 ELSE surveys[name][p].fluid_mass[i]]
             zeros == [p \in 1 .. N |-> 0]
             later == IF monitor = NoSurvey THEN zeros ELSE mass(monitor)
             terms == [p \in 1 .. N |->
                 IF ModelPhases[p] \notin mask THEN 0 ELSE MassDiff(p, base, monitor, i)]
  <1>1. N \in Nat /\ DOMAIN ModelPhases = 1 .. N
    BY ModelPhasesShape, LenProperties
  <1>2. \A name \in DOMAIN surveys :
           /\ DOMAIN surveys[name] = 1 .. N
           /\ \A p \in 1 .. N : /\ surveys[name][p].phase = ModelPhases[p]
                                /\ surveys[name][p].fluid_mass[i] \in Int
    BY <1>1 DEF IInv, SurveysKept
  <1> HIDE DEF N
  <1>3. ASSUME NEW name \in DOMAIN surveys
        PROVE  mass(name) \in [1 .. N -> Int] /\ MassOf(name, mask, i) = SumOf(mass(name))
    <2>1. mass(name) \in [1 .. N -> Int]
      BY <1>2
    <2>2. [p \in DOMAIN surveys[name] |->
        IF surveys[name][p].phase \notin mask THEN 0 ELSE surveys[name][p].fluid_mass[i]] = mass(name)
      BY <1>2
    <2> QED BY <2>1, <2>2 DEF MassOf
  <1>4. zeros \in [1 .. N -> Int]
    OBVIOUS
  <1>5. later \in [1 .. N -> Int]
    BY <1>3, <1>4
  <1>6. \A p \in 1 .. N : terms[p] \in Int /\ terms[p] = later[p] - mass(base)[p]
    <2>1. ASSUME NEW p \in 1 .. N PROVE terms[p] \in Int /\ terms[p] = later[p] - mass(base)[p]
      <3>1. surveys[base][p].fluid_mass[i] \in Int
        BY <1>2
      <3>2. CASE monitor = NoSurvey
        BY <3>1, <3>2 DEF MassDiff
      <3>3. CASE monitor # NoSurvey
        <4>1. surveys[monitor][p].fluid_mass[i] \in Int
          BY <1>2, <3>3
        <4> QED BY <3>1, <3>3, <4>1 DEF MassDiff
      <3> QED BY <3>2, <3>3
    <2> QED BY <2>1
  <1>7. terms \in [1 .. N -> Int]
    BY <1>6
  <1>8. [p \in DOMAIN surveys[base] |->
               IF surveys[base][p].phase \notin mask THEN 0 ELSE MassDiff(p, base, monitor, i)] = terms
    BY <1>2
  <1>9. SumOf(later) = IF monitor = NoSurvey THEN 0 ELSE MassOf(monitor, mask, i)
    <2>1. CASE monitor = NoSurvey
      <3>1. zeros \in Seq(Int) /\ Len(zeros) = N
        BY <1>1, <1>4, WrittenOut
      <3>2. SumOf(zeros) = 0
        BY <3>1, SumOfZeros
      <3> QED BY <2>1, <3>2
    <2>2. CASE monitor # NoSurvey
      BY <1>3, <2>2
    <2> QED BY <2>1, <2>2
  <1>10. MassOf(base, mask, i) = SumOf(mass(base)) /\ mass(base) \in [1 .. N -> Int]
    BY <1>3
  <1> HIDE DEF terms, later, mass
  <1>11. SumOf(terms) = SumOf(later) - SumOf(mass(base))
    <2>1. /\ terms \in Seq(Int) /\ Len(terms) = N
          /\ later \in Seq(Int) /\ Len(later) = N
          /\ mass(base) \in Seq(Int) /\ Len(mass(base)) = N
      BY <1>1, <1>5, <1>7, <1>10, WrittenOut
    <2>2. /\ Len(later) = Len(mass(base)) /\ Len(terms) = Len(mass(base))
          /\ \A n \in 1 .. Len(mass(base)) : terms[n] = later[n] - mass(base)[n]
      BY <1>6, <2>1
    <2> QED BY <2>1, <2>2, SumOfDifferences, Zenon
  <1> QED BY <1>8, <1>9, <1>10, <1>11

(* A change of gravity is of the masses, in the cells of the region.       *)
LEMMA EvalStep ==
    ASSUME IInv, NEW base \in Names, NEW monitor \in Names \cup {NoSurvey},
           NEW limited \in {FALSE, region # NoRegion}, NEW mask, Eval(base, monitor, limited, mask)
    PROVE  IInv'
  <1>1. UNCHANGED <<init_file, active, gi, volume, survey_vars, presses>>
    BY DEF Eval
  <1>2. CASE region' = region /\ (Done("eval", "raises") \/ Done("eval", "fine"))
    <2>1. EvaluationsOfCells'
      BY <1>2, DoneShape, NoTerms
    <2> QED BY <1>1, <1>2, <2>1, Frame DEF IInv, survey_vars
  <1>3. CASE ~Missing(DOMAIN surveys, base, monitor)
             /\ ~(\A p \in DOMAIN surveys[base] : surveys[base][p].phase \notin mask)
    <2>0. PICK of : of = Limit(limited)
      OBVIOUS
    <2> DEFINE weight == [i \in DOMAIN gi |-> SumOf([p \in DOMAIN surveys[base] |->
                     IF surveys[base][p].phase \notin mask THEN 0 ELSE MassDiff(p, base, monitor, i)])]
               asked == <<base, monitor, mask, of>>
    <2>1. base \in DOMAIN surveys /\ (monitor # NoSurvey => monitor \in DOMAIN surveys)
      BY <1>3 DEF Missing
    <2>2. /\ Summed("eval", asked, of, weight)
          /\ region' = IF limited THEN Listed(region) ELSE region
      BY <1>3, <2>0, Zenon DEF Eval
    <2>3. RegionKept' /\ (of = NoRegion \/ Lists(of))
      BY <2>0, <2>2, LimitShape
    <2>4. \A i \in DOMAIN gi : weight[i] =
              (IF monitor = NoSurvey THEN 0 ELSE MassOf(monitor, mask, i)) - MassOf(base, mask, i)
      BY <2>1, WeightIsDifference
    <2> HIDE DEF weight
    <2>5. ASSUME of # NoRegion => of.grid = gi
          PROVE  /\ ~PastTheEnd(of)
                 /\ Terms(of, weight) = [cell \in CellsOf(of) |->
                        (IF monitor = NoSurvey THEN 0 ELSE Mass(monitor, mask, cell))
                        - Mass(base, mask, cell)]
      <3>1. /\ ~PastTheEnd(of)
            /\ Terms(of, weight) = [cell \in CellsOf(of) |-> weight[PlaceOf(cell)]]
            /\ \A cell \in CellsOf(of) : PlaceOf(cell) \in DOMAIN gi
        BY <2>3, <2>5, TermsOfCells
      <3>2. \A name, cell : Mass(name, mask, cell) = MassOf(name, mask, PlaceOf(cell))
        BY DEF Mass, MassOf
      <3> QED BY <2>4, <3>1, <3>2
    <2>6. ASSUME Answered', InNumbering' PROVE OfCells'
      <3>1. last'.op = "eval" /\ last'.asked = asked
        BY <2>2 DEF Summed
      <3>2. last'.asked[1] = base /\ last'.asked[2] = monitor /\ last'.asked[3] = mask /\ last'.asked[4] = of
        BY <3>1
      <3>3. of # NoRegion => of.grid = gi
        BY <1>1, <2>6, <3>2 DEF InNumbering
      <3>4. last'.result = "fine" /\ last'.terms = Terms(of, weight)
        BY <2>2, <2>5, <3>3 DEF Summed
      <3>5. last'.terms = [cell \in CellsOf(of) |->
                 (IF monitor = NoSurvey THEN 0 ELSE Mass(monitor, mask, cell))
                 - Mass(base, mask, cell)]
        BY <2>5, <3>3, <3>4
      <3> HIDE DEF asked
      <3> QED BY <1>1, <3>1, <3>2, <3>4, <3>5 DEF OfCells, CellsOf, Mass, PlaceOf, survey_vars
    <2>7. EvaluationsOfCells'
      BY <2>6 DEF EvaluationsOfCells
    <2> QED BY <1>1, <2>3, <2>7, Frame DEF IInv, survey_vars
  <1> QED BY <1>2, <1>3, Zenon DEF Eval

(* Volumes that are read in the numbering of the surveys are those of the  *)
(* cells.                                                                  *)
LEMMA VolumesOfGrid ==
    ASSUME IInv, NEW volumes \in VolumesRead, volumes.grid = gi
    PROVE  \A i \in DOMAIN gi : volumes.of[i] = init_file.volume[gi[i]]
  <1>1. CASE volume.of # <<>>
    <2>1. volumes = volume
      BY <1>1 DEF VolumesRead
    <2> QED BY <1>1, <2>1 DEF IInv, VolumesKept
  <1>2. CASE volume.of = <<>>
    <2>1. PICK past \in [DOMAIN gi \ DOMAIN active -> DOMAIN init_file.volume] :
              volumes = [of |-> [i \in DOMAIN gi |->
                            init_file.volume[IF i \in DOMAIN active THEN active[i] ELSE past[i]]],
                         grid |-> active]
      BY <1>2 DEF VolumesRead
    <2>2. active = gi
      BY <2>1
    <2> QED BY <2>1, <2>2
  <1> QED BY <1>1, <1>2

(* Pore volumes, pressures and volumes of a term are those of its cell.    *)
LEMMA SubsidenceStep ==
    ASSUME IInv, NEW kind \in {"biot", "geertsma", "rporv"},
           NEW base \in Names, NEW monitor \in Names \cup {NoSurvey},
           NEW limited \in {FALSE, region # NoRegion}, EvalSubsidence(kind, base, monitor, limited)
    PROVE  IInv'
  <1>1. UNCHANGED <<init_file, active, gi, survey_vars, presses>>
    BY DEF EvalSubsidence
  <1>2. CASE EvalFails(kind, base, monitor)
    <2>1. UNCHANGED <<volume, region>>
      BY <1>2 DEF EvalSubsidence
    <2>2. EvaluationsOfCells'
      BY <1>2, DoneShape, NoTerms DEF EvalSubsidence
    <2> QED BY <1>1, <2>1, <2>2, Frame DEF IInv, survey_vars
  <1>3. CASE ~EvalFails(kind, base, monitor)
    <2>1. PICK volumes \in VolumesRead :
              /\ volume' = IF kind = "geertsma" THEN volumes ELSE volume
              /\ Summed("eval_subsidence", <<base, monitor, kind, Limit(limited)>>, Limit(limited),
                     [i \in DOMAIN gi |->
                          Quantity(kind, base, base, volumes, i)
                          - IF monitor = NoSurvey THEN 0
                            ELSE Quantity(kind, monitor, base, volumes, i)])
              /\ region' = IF limited THEN Listed(region) ELSE region
      BY <1>3, Zenon DEF EvalSubsidence
    <2>0. PICK of : of = Limit(limited)
      OBVIOUS
    <2> DEFINE asked == <<base, monitor, kind, of>>
               weight == [i \in DOMAIN gi |->
                   Quantity(kind, base, base, volumes, i)
                   - IF monitor = NoSurvey THEN 0 ELSE Quantity(kind, monitor, base, volumes, i)]
    <2>2. RegionKept' /\ (of = NoRegion \/ Lists(of))
      BY <2>0, <2>1, LimitShape
    <2>3. VolumesKept'
      <3>1. CASE kind = "geertsma"
        BY <1>1, <2>1, <3>1, VolumesOfGrid DEF VolumesKept
      <3>2. CASE kind # "geertsma"
        BY <1>1, <2>1, <3>2 DEF VolumesKept, IInv
      <3> QED BY <3>1, <3>2
    <2>4. base \in DOMAIN presses /\ (monitor # NoSurvey => monitor \in DOMAIN presses)
      BY <1>3 DEF EvalFails, Missing
    <2>5. Summed("eval_subsidence", asked, of, weight)
      BY <2>0, <2>1
    <2>6. ASSUME of # NoRegion => of.grid = gi, kind = "geertsma" => volumes.grid = gi
          PROVE  /\ ~PastTheEnd(of)
                 /\ Terms(of, weight) = [cell \in CellsOf(of) |->
                        Held(base, kind, cell)
                        - (IF monitor = NoSurvey THEN 0 ELSE Held(monitor, kind, cell))]
      <3> HIDE DEF weight
      <3>1. /\ ~PastTheEnd(of)
            /\ Terms(of, weight) = [cell \in CellsOf(of) |-> weight[PlaceOf(cell)]]
            /\ \A cell \in CellsOf(of) : PlaceOf(cell) \in DOMAIN gi /\ gi[PlaceOf(cell)] = cell
        BY <2>2, <2>6, TermsOfCells
      <3>2. ASSUME NEW cell \in CellsOf(of), NEW name \in DOMAIN presses
            PROVE  Quantity(kind, name, base, volumes, PlaceOf(cell)) = Held(name, kind, cell)
        <4> DEFINE i == PlaceOf(cell)
        <4>1. i \in DOMAIN gi /\ gi[i] = cell
          BY <3>1
        <4>2. presses[base].porv[i] = init_file.porv[cell]
          BY <2>4, <4>1 DEF IInv, PressesKept
        <4>3. kind = "geertsma" => volumes.of[i] = init_file.volume[cell]
          BY <2>6, <4>1, VolumesOfGrid
        <4> HIDE DEF i
        <4> QED BY <4>2, <4>3 DEF Quantity, Held, i
      <3>3. ASSUME NEW cell \in CellsOf(of)
            PROVE  weight[PlaceOf(cell)] = Held(base, kind, cell)
                       - (IF monitor = NoSurvey THEN 0 ELSE Held(monitor, kind, cell))
        <4>1. weight[PlaceOf(cell)] = Quantity(kind, base, base, volumes, PlaceOf(cell))
                 - IF monitor = NoSurvey THEN 0
                   ELSE Quantity(kind, monitor, base, volumes, PlaceOf(cell))
          BY <3>1 DEF weight
        <4> QED BY <2>4, <3>2, <4>1
      <3> QED BY <3>1, <3>3
    <2> HIDE DEF weight
    <2>7. ASSUME Answered', InNumbering' PROVE OfCells'
      <3>1. last'.op = "eval_subsidence" /\ last'.asked = asked
        BY <2>5 DEF Summed
      <3>2. last'.asked[1] = base /\ last'.asked[2] = monitor /\ last'.asked[3] = kind /\ last'.asked[4] = of
        BY <3>1
      <3>3. (of # NoRegion => of.grid = gi) /\ (kind = "geertsma" => volumes.grid = gi)
        BY <1>1, <2>1, <2>7, <3>1, <3>2 DEF InNumbering
      <3>4. last'.result = "fine" /\ last'.terms = Terms(of, weight)
        BY <2>5, <2>6, <3>3 DEF Summed
      <3>5. last'.terms = [cell \in CellsOf(of) |->
                 Held(base, kind, cell)
                 - (IF monitor = NoSurvey THEN 0 ELSE Held(monitor, kind, cell))]
        BY <2>6, <3>3, <3>4
      <3>6. last'.op # "eval"
        BY <3>1
      <3> HIDE DEF asked
      <3> QED BY <1>1, <3>2, <3>4, <3>5, <3>6 DEF OfCells, CellsOf, Held, PlaceOf
    <2>8. EvaluationsOfCells'
      BY <2>7 DEF EvaluationsOfCells
    <2> QED BY <1>1, <2>2, <2>3, <2>8, Frame DEF IInv, survey_vars
  <1> QED BY <1>2, <1>3

-----------------------------------------------------------------------------
LEMMA InductiveInvariant == GravitySpec => []IInv
  <1>1. GravityInit => IInv
    <2> SUFFICES ASSUME GravityInit PROVE IInv
      OBVIOUS
    <2>1. FileKept
      BY DEF GravityInit, FileKept
    <2>2. DensitiesKept
      <3>1. <<>> \in Seq(Int) /\ Len(<<>>) = 0 /\ DOMAIN <<>> = {}
        BY EmptySeq
      <3> QED BY <3>1 DEF GravityInit, DensitiesKept
    <2>3. SurveysKept /\ PressesKept /\ DensitiesAsGiven
      BY DEF GravityInit, SurveysKept, PressesKept, DensitiesAsGiven
    <2>4. VolumesKept /\ RegionKept
      BY DEF GravityInit, VolumesKept, RegionKept
    <2>5. EvaluationsOfCells
      BY DEF GravityInit, Nothing, EvaluationsOfCells, Answered
    <2> QED BY <2>1, <2>2, <2>3, <2>4, <2>5 DEF IInv
  <1>2. IInv /\ [GravityNext]_gravityVars => IInv'
    <2> SUFFICES ASSUME IInv, [GravityNext]_gravityVars PROVE IInv'
      OBVIOUS
    <2>1. CASE Change
      BY <2>1, SurveyStep, PressureStep, NewDensityStep, AddDensityStep, RenumberStep, RegionStep
      DEF Change, Methods
    <2>2. CASE Ask
      BY <2>2, EvalStep, SubsidenceStep, ListStep DEF Ask
    <2>3. CASE UNCHANGED gravityVars
      <3>1. /\ UNCHANGED <<active, region>>
            /\ init_file' = init_file /\ gi' = gi /\ volume' = volume /\ presses' = presses
            /\ last' = last
            /\ UNCHANGED <<default_density, std_density, given, told>> /\ surveys' = surveys
        BY <2>3 DEF gravityVars, survey_vars
      <3>2. OfCells' = OfCells /\ InNumbering' = InNumbering /\ Answered' = Answered
        BY <3>1 DEF OfCells, CellsOf, Mass, Held, PlaceOf, InNumbering, Answered
      <3>3. EvaluationsOfCells'
        BY <3>2 DEF IInv, EvaluationsOfCells
      <3> QED BY <3>1, <3>3, Frame DEF IInv
    <2> QED BY <2>1, <2>2, <2>3 DEF GravityNext
  <1> QED BY <1>1, <1>2, PTL DEF GravitySpec

(* For however many PVT regions, whatever densities are added and in       *)
(* whatever order: if the default of a phase is given before and once, a   *)
(* survey of fluids in place weighs each cell with the density that was    *)
(* added for its region before, or else with that default.                 *)
THEOREM SurveysWeighAsGiven == GravitySpec => []DensitiesAsGiven
  <1>1. IInv => DensitiesAsGiven BY DEF IInv
  <1> QED BY <1>1, InductiveInvariant, PTL

(* For every model, renumbered in any way and to any number of active      *)
(* cells: an evaluation is of the cells asked for, each with its own       *)
(* masses, pressures and volumes, and reads nothing past the end, if the   *)
(* grid had the numbering of the surveys when the region was first listed  *)
(* and when the volumes were first read, whatever it has at the time of    *)
(* the evaluation.                                                         *)
THEOREM EvaluationsAreOfCells == GravitySpec => []EvaluationsOfCells
  <1>1. IInv => EvaluationsOfCells BY DEF IInv
  <1> QED BY <1>1, InductiveInvariant, PTL
=============================================================================
