------------------------------ MODULE Gravity ------------------------------
(***************************************************************************)
(* Change of gravity and subsidence between surveys (rd_grav.cpp,          *)
(* rd_subsidence.cpp, rd_grav_common.cpp, rd_grid_cache.cpp).  A survey is *)
(* what one restart step says of the active cells; an evaluation weights   *)
(* the difference of two surveys cell by cell with a function of where the *)
(* cell is, and adds up.  The sum is kept here as its terms, place by      *)
(* place, without the function of the distance.                            *)
(*                                                                         *)
(* A keyword is a tuple, <<"FIP", "oil">> for FIPOIL; saturations are in   *)
(* parts of Full.                                                          *)
(***************************************************************************)
EXTENDS Integers, Sequences, Functions

CONSTANTS
    InitFiles,   \* [version, iphs, active, porv, pvtnum, aquifer, volume, steps,
                 \* calls]; calls is a bound on those that change something
    Names,       \* of surveys
    Actives,     \* renumberings of the active cells, of any number of them
    Densities, Pvtnums,
    Regions,     \* sets of cells
    Masks,       \* sets of phases
    NoSurvey, NoRegion

(* The active cells of a file are each there once; keywords of active      *)
(* cells have a number for each.                                           *)
ASSUME FilesAssumption ==
    \A file \in InitFiles :
        /\ file.active \in Seq(Nat)
        /\ \A i, j \in DOMAIN file.active : file.active[i] = file.active[j] => i = j
        /\ \A i \in DOMAIN file.active :
               /\ file.pvtnum[i] \in Nat /\ file.aquifer[i] \in BOOLEAN
               /\ file.porv[file.active[i]] \in Int
        /\ \A step \in file.steps : \A k \in DOMAIN step, i \in DOMAIN file.active : step[k][i] \in Int

ASSUME ClientAssumption ==
    /\ Pvtnums \subseteq Nat /\ Densities \subseteq Int
    /\ NoSurvey \notin Names

VARIABLES
    init_file,   \* the INIT file and the steps of its restart file
    active,      \* the grid: sequence of its active cells
    gi, volume,  \* the cache of the grid: cells, and their volumes once they were
                 \* asked for: [of, grid], with the grid they are of as a ghost
    default_density, std_density,
    surveys,     \* [names -> phase_list]
    presses,     \* surveys of the pressure: [names -> [porv, pressure, rporv]]
    region,      \* [cells, valid, list, grid]: the cells it selects; once they were
                 \* asked for, its active indices and (ghost) the numbering they are of
    given,       \* ghost: the densities that clients gave: [default, added, unordered],
                 \* with the default in a set that is empty until there is one, and the
                 \* phases whose default was not given before their densities
    told,        \* ghost: what each survey was made of: [method, step, given]
    last, calls

survey_vars == <<default_density, std_density, surveys, given, told>>
gravityVars == <<init_file, active, gi, volume, survey_vars, presses, region, last, calls>>

Phases == {"oil", "gas", "water"}
Bit == [oil |-> 1, gas |-> 2, water |-> 4]
Full == 10
Methods == {"FIP", "RFIP", "RPORV", "PORMOD"}

Nothing == [op |-> "none", result |-> "fine", asked |-> <<>>, terms |-> <<>>]
Done(op, result) == last' = [Nothing EXCEPT !.op = op, !.result = result]
Counted == calls < init_file.calls /\ calls' = calls + 1

-----------------------------------------------------------------------------
(* get_phases, as bits of rd_phase_enum, in the order of add_phases.       *)
HasPhase(phase) == (init_file.iphs \div Bit[phase]) % 2 = 1
PhaseIfThere(phase) == IF HasPhase(phase) THEN <<phase>> ELSE <<>>
ModelPhases == PhaseIfThere("oil") \o PhaseIfThere("gas") \o PhaseIfThere("water")

(* get_den_kw: the two simulators name the densities differently.          *)
DenFails == init_file.version \notin {"E100", "E300", "E300THERMAL"}
DenKw(phase) == <<"DEN", IF init_file.version = "E100" THEN "E100" ELSE "E300", phase>>

(* The saturation that a step does not give is what the others leave.      *)
Saturation(step, phase) ==
    IF <<"SAT", phase>> \in DOMAIN step THEN step[<<"SAT", phase>>]
    ELSE [i \in DOMAIN gi |->
             Full - step[<<"SAT", "water">>][i]
             - (IF <<"SAT", "gas">> \in DOMAIN step THEN step[<<"SAT", "gas">>][i] ELSE 0)]

(* alloc_RPORV, alloc_PORMOD: the pore volume of INIT is of all cells.     *)
Porv(step, method) ==
    [i \in DOMAIN gi |-> IF method = "RPORV" THEN step[<<"RPORV">>][i]
                         ELSE step[<<"PORMOD">>][i] * init_file.porv[gi[i]]]

FluidMass(step, method, phase) ==
    [i \in DOMAIN gi |->
        CASE method = "FIP"  -> step[<<"FIP", phase>>][i] * std_density[phase][init_file.pvtnum[i] + 1]
          [] method = "RFIP" -> step[DenKw(phase)][i] * step[<<"RFIP", phase>>][i]
          [] OTHER -> step[DenKw(phase)][i] * Saturation(step, phase)[i] * Porv(step, method)[i]]

PhaseFails(step, method, phase) ==
    CASE method = "FIP" ->
             \/ <<"FIP", phase>> \notin DOMAIN step
             \/ \E i \in DOMAIN gi : init_file.pvtnum[i] >= Len(std_density[phase])
      [] method = "RFIP" -> DenFails \/ ~{DenKw(phase), <<"RFIP", phase>>} \subseteq DOMAIN step
      [] OTHER -> \/ DenFails \/ DenKw(phase) \notin DOMAIN step
                  \/ {<<"SAT", phase>>, <<"SAT", "water">>} \cap DOMAIN step = {}

PorvFails(step, method) ==
    \/ method = "RPORV" /\ <<"RPORV">> \notin DOMAIN step
    \/ method = "PORMOD" /\ <<"PORMOD">> \notin DOMAIN step

(* assert_RPORV: off by more than a factor of ten, in one of the cells     *)
(* that are drawn.                                                         *)
WayOff(step, i) ==
    LET porv == init_file.porv[gi[i]]
        rporv == step[<<"RPORV">>][i]
    IN  porv > 0 /\ (rporv > 10 * porv \/ 10 * rporv < porv)

SurveyFails(step, method, drawn) ==
    \/ PorvFails(step, method)
    \/ method = "RPORV" /\ <<"RPORV">> \in DOMAIN step /\ \E i \in drawn : WayOff(step, i)
    \/ \E phase \in Range(ModelPhases) : PhaseFails(step, method, phase)

(* rd_grav_add_survey: only a whole survey takes the name, and the place   *)
(* of a survey of that name.                                               *)
AddSurvey(name, step, method, drawn) ==
    /\ IF SurveyFails(step, method, drawn)
       THEN /\ last' = [Nothing EXCEPT !.op = "add_survey", !.result = "raises",
                                   !.asked = <<step, method>>]
            /\ UNCHANGED <<surveys, told, calls>>
       ELSE /\ Counted
            /\ surveys' = [n \in DOMAIN surveys \cup {name} |->
                   IF n # name THEN surveys[n]
                   ELSE [p \in DOMAIN ModelPhases |->
                            [phase |-> ModelPhases[p],
                             fluid_mass |-> FluidMass(step, method, ModelPhases[p])]]]
            /\ told' = [n \in DOMAIN told \cup {name} |->
                   IF n # name THEN told[n]
                   ELSE [method |-> method, step |-> step, given |-> given]]
            /\ Done("add_survey", "fine")
    /\ UNCHANGED <<init_file, active, gi, volume, default_density, std_density, given, presses,
                   region>>

(* new_std_density does not touch the densities of the regions.            *)
NewStdDensity(phase, density) ==
    /\ Counted
    /\ default_density' = [default_density EXCEPT ![phase] = density]
    /\ given' = [given EXCEPT !.default[phase] = {density},
                               !.unordered = IF given.added[phase] = <<>> THEN @ ELSE @ \cup {phase}]
    /\ Done("new_std_density", "fine")
    /\ UNCHANGED <<init_file, active, gi, volume, std_density, surveys, told, presses, region>>

Larger(a, b) == IF a < b THEN b ELSE a

(* add_std_density: regions up to this one that have none get the default. *)
(* Mutant: they get the density of this one.                               *)
ResizedWith(densities, pvtnum, fill, density) ==
    [n \in 1 .. Larger(Len(densities), pvtnum + 1) |->
        IF n = pvtnum + 1 \/ n > Len(densities) THEN density ELSE densities[n]]

Resized(densities, pvtnum, fill, density) ==
    [n \in 1 .. Larger(Len(densities), pvtnum + 1) |->
        IF n = pvtnum + 1 THEN density
        ELSE IF n > Len(densities) THEN fill ELSE densities[n]]

AddStdDensity(phase, pvtnum, density) ==
    /\ Counted
    /\ std_density' = [std_density EXCEPT ![phase] =
                          Resized(@, pvtnum, default_density[phase], density)]
    /\ given' = [given EXCEPT
                    !.added[phase] =
                        [n \in DOMAIN @ \cup {pvtnum} |-> IF n = pvtnum THEN density ELSE @[n]],
                    !.unordered = IF given.default[phase] = {} THEN @ \cup {phase} ELSE @]
    /\ Done("add_std_density", "fine")
    /\ UNCHANGED <<init_file, active, gi, volume, default_density, surveys, told, presses, region>>

-----------------------------------------------------------------------------
(* eval_biot_savart, eval_geertsma: all cells or those of a region, which  *)
(* lists active indices, and no numerical aquifer.                         *)

(* rd_region_get_active_list: the indices that the grid gives to the cells *)
(* when it is first asked, and from then on those.                         *)
Listed(of) ==
    IF of.valid THEN of
    ELSE [of EXCEPT !.valid = TRUE, !.grid = active,
                    !.list = {i \in DOMAIN active : active[i] \in of.cells}]
Limit(limited) == IF limited THEN Listed(region) ELSE NoRegion

(* Mutant: the region may list numerical aquifers.                         *)
AquifersOfRegion(of) ==
    IF of = NoRegion THEN {i \in DOMAIN gi : ~init_file.aquifer[i]} ELSE of.list

Indices(of) ==
    {i \in IF of = NoRegion THEN DOMAIN gi ELSE of.list : ~init_file.aquifer[i]}

(* A region that lists more than the surveys have cells.                   *)
PastTheEnd(of) == of # NoRegion /\ ~(of.list \subseteq DOMAIN gi)

Terms(of, weight) == [cell \in {gi[i] : i \in Indices(of)} |->
                         weight[CHOOSE i \in Indices(of) : gi[i] = cell]]

(* The sum over the cells; what is read past the end of the arrays is      *)
(* undefined.                                                              *)
Summed(op, asked, of, weight) ==
    last' = IF PastTheEnd(of)
            THEN [op |-> op, result |-> "undefined", asked |-> asked, terms |-> <<>>]
            ELSE [op |-> op, result |-> "fine", asked |-> asked, terms |-> Terms(of, weight)]

MassDiff(p, base, monitor, i) ==
    (IF monitor = NoSurvey THEN 0 ELSE surveys[monitor][p].fluid_mass[i])
    - surveys[base][p].fluid_mass[i]

Missing(held, base, monitor) == base \notin held \/ (monitor # NoSurvey /\ monitor \notin held)

(* The loops that add up.                                                  *)
SumOf(f) ==
    LET upto[n \in 0 .. Len(f)] == IF n = 0 THEN 0 ELSE upto[n - 1] + f[n]
    IN  upto[Len(f)]

(* rd_grav_eval, with a mask of phases, of all cells or those of the       *)
(* region, which nobody asks when there is no such phase.                  *)
Eval(base, monitor, limited, mask) ==
    /\ IF Missing(DOMAIN surveys, base, monitor)
       THEN Done("eval", "raises") /\ UNCHANGED region
       ELSE LET list == surveys[base]
                Weight(i) == SumOf([p \in DOMAIN list |->
                                 IF list[p].phase \notin mask THEN 0
                                 ELSE MassDiff(p, base, monitor, i)])
            IN  IF \A p \in DOMAIN list : list[p].phase \notin mask
                THEN Done("eval", "fine") /\ UNCHANGED region
                ELSE /\ Summed("eval", <<base, monitor, mask, Limit(limited)>>, Limit(limited),
                               [i \in DOMAIN gi |-> Weight(i)])
                     /\ region' = IF limited THEN Listed(region) ELSE region
    /\ UNCHANGED <<init_file, active, gi, volume, survey_vars, presses, calls>>

-----------------------------------------------------------------------------
(* rd_subsidence.cpp.                                                      *)
AddSurveyPressure(name, step) ==
    /\ IF <<"PRESSURE">> \notin DOMAIN step
       THEN /\ Done("add_survey_PRESSURE", "raises")
            /\ UNCHANGED <<presses, calls>>
       ELSE /\ Counted
            /\ presses' = [n \in DOMAIN presses \cup {name} |->
                   IF n # name THEN presses[n]
                   ELSE [porv |-> [i \in DOMAIN gi |-> init_file.porv[gi[i]]],
                         pressure |-> step[<<"PRESSURE">>],
                         rporv |-> IF <<"RPORV">> \in DOMAIN step THEN step[<<"RPORV">>] ELSE <<>>]]
            /\ Done("add_survey_PRESSURE", "fine")
    /\ UNCHANGED <<init_file, active, gi, volume, survey_vars, region>>

(* rd_grid_cache::volume, of the grid as it is when they are first needed. *)
(* Where the grid has fewer active cells by then, what it read past its    *)
(* end is undefined, the volume of any cell.                               *)
VolumesRead ==
    IF volume.of # <<>> THEN {volume}
    ELSE {[of |-> [i \in DOMAIN gi |->
                      init_file.volume[IF i \in DOMAIN active THEN active[i] ELSE past[i]]],
           grid |-> active] :
              past \in [DOMAIN gi \ DOMAIN active -> DOMAIN init_file.volume]}

(* What is compared: PV x pressure, volume x pressure, or the pore volumes *)
(* of the steps.                                                           *)
Quantity(kind, name, base, volumes, i) ==
    CASE kind = "biot"     -> presses[base].porv[i] * presses[name].pressure[i]
      [] kind = "geertsma" -> volumes.of[i] * presses[name].pressure[i]
      [] OTHER             -> presses[name].rporv[i]

(* Two surveys can be compared by the pore volumes that both have.         *)
PoresMissing(base, monitor) ==
    \E name \in {base, monitor} \ {NoSurvey} : presses[name].rporv = <<>>

EvalFails(kind, base, monitor) ==
    \/ Missing(DOMAIN presses, base, monitor)
    \/ /\ kind = "rporv" /\ ~Missing(DOMAIN presses, base, monitor)
       /\ PoresMissing(base, monitor)

EvalSubsidence(kind, base, monitor, limited) ==
    /\ IF EvalFails(kind, base, monitor)
       THEN Done("eval_subsidence", "raises") /\ UNCHANGED <<volume, region>>
       ELSE \E volumes \in VolumesRead :
            /\ volume' = IF kind = "geertsma" THEN volumes ELSE volume
            /\ Summed("eval_subsidence", <<base, monitor, kind, Limit(limited)>>, Limit(limited),
                      [i \in DOMAIN gi |->
                          Quantity(kind, base, base, volumes, i)
                          - IF monitor = NoSurvey THEN 0
                            ELSE Quantity(kind, monitor, base, volumes, i)])
            /\ region' = IF limited THEN Listed(region) ELSE region
    /\ UNCHANGED <<init_file, active, gi, survey_vars, presses, calls>>

-----------------------------------------------------------------------------
(* The grid is the client's, who may renumber it, and the region too.      *)
ResetActnum(renumbered) ==
    /\ Counted
    /\ active' = renumbered
    /\ Done("reset_actnum", "fine")
    /\ UNCHANGED <<init_file, gi, volume, survey_vars, presses, region>>

SelectRegion(cells) ==
    /\ Counted
    /\ region' = [cells |-> cells, valid |-> FALSE, list |-> {}, grid |-> <<>>]
    /\ Done("region", "fine")
    /\ UNCHANGED <<init_file, active, gi, volume, survey_vars, presses>>

(* A client asks for the indices.                                          *)
ListRegion ==
    /\ region # NoRegion /\ region' = Listed(region)
    /\ Done("list", "fine")
    /\ UNCHANGED <<init_file, active, gi, volume, survey_vars, presses, calls>>

(* rd_grav_alloc, rd_subsidence_alloc.                                     *)
GravityInit ==
    /\ init_file \in InitFiles
    /\ active = init_file.active /\ gi = active /\ volume = [of |-> <<>>, grid |-> <<>>]
    /\ default_density = [p \in Phases |-> 0]
    /\ std_density = [p \in Phases |-> <<>>]
    /\ given = [default |-> [p \in Phases |-> {}], added |-> [p \in Phases |-> <<>>],
                unordered |-> {}]
    /\ surveys = <<>> /\ told = <<>> /\ presses = <<>>
    /\ region = NoRegion /\ last = Nothing /\ calls = 0

Change ==
    \/ \E name \in Names, step \in init_file.steps :
           \/ \E method \in Methods \ {"RPORV"} : AddSurvey(name, step, method, {})
           \/ \E drawn \in SUBSET DOMAIN gi : drawn # {} /\ AddSurvey(name, step, "RPORV", drawn)
           \/ AddSurveyPressure(name, step)
    \/ \E phase \in Range(ModelPhases), density \in Densities :
           \/ NewStdDensity(phase, density)
           \/ \E pvtnum \in Pvtnums : AddStdDensity(phase, pvtnum, density)
    \/ \E renumbered \in Actives : ResetActnum(renumbered)
    \/ \E cells \in Regions : SelectRegion(cells)

Ask ==
    \/ \E base \in Names, monitor \in Names \cup {NoSurvey} :
           \E limited \in {FALSE, region # NoRegion} :
               \/ \E mask \in Masks : Eval(base, monitor, limited, mask)
               \/ \E kind \in {"biot", "geertsma", "rporv"} :
                      EvalSubsidence(kind, base, monitor, limited)
    \/ ListRegion

GravityNext == Change \/ Ask
GravitySpec == GravityInit /\ [][GravityNext]_gravityVars

-----------------------------------------------------------------------------
(* The density that clients gave for a PVT region: the one added for it,   *)
(* or else the default.                                                    *)
DensitiesGiven(g, phase, pvtnum) ==
    IF pvtnum \in DOMAIN g.added[phase] THEN {g.added[phase][pvtnum]} ELSE g.default[phase]

(* A survey of fluids in place has these masses of the given phases.       *)
WeighsAsGiven(name, phases) ==
    \A p \in DOMAIN surveys[name], i \in DOMAIN gi :
        LET phase == surveys[name][p].phase
        IN  phase \in phases =>
                surveys[name][p].fluid_mass[i]
                    \in {told[name].step[<<"FIP", phase>>][i] * d :
                            d \in DensitiesGiven(told[name].given, phase, init_file.pvtnum[i])}

(* A survey of fluids in place weighs every cell with the density added    *)
(* for its PVT region before the survey was made, and where none was added *)
(* with the default, whatever is given later, to whatever other regions    *)
(* and in whatever order densities were added: of the phases whose default *)
(* was given before their densities and not again after (rd_grav.cpp:248-  *)
(* 275, 717-746).                                                          *)
DensitiesAsGiven ==
    \A name \in DOMAIN surveys : told[name].method = "FIP" =>
        WeighsAsGiven(name, Phases \ told[name].given.unordered)

(* rd_grav.cpp:706-709: a survey of fluids in place for which densities    *)
(* were not given fails; so does rd_grav.py:199-207: a region to which     *)
(* none was added falls back to the default.  In whatever order they were  *)
(* given, no other density is weighed with.                                *)
NoOtherDensity ==
    \A name \in DOMAIN surveys : told[name].method = "FIP" => WeighsAsGiven(name, Phases)

(* The cells that an answer is about.                                      *)
CellsOf(of) ==
    {cell \in Range(gi) :
        /\ of # NoRegion => cell \in of.cells
        /\ \A i \in DOMAIN gi : gi[i] = cell => ~init_file.aquifer[i]}

(* What the cells have, each of its own: the mass of the phases asked for; *)
(* the pore volume of INIT or the volume times the pressure, or the pore   *)
(* volume of the step.                                                     *)
PlaceOf(cell) == CHOOSE i \in DOMAIN gi : gi[i] = cell

Mass(name, mask, cell) ==
    SumOf([p \in DOMAIN surveys[name] |->
        IF surveys[name][p].phase \notin mask THEN 0
        ELSE surveys[name][p].fluid_mass[PlaceOf(cell)]])

Held(name, kind, cell) ==
    CASE kind = "biot"     -> init_file.porv[cell] * presses[name].pressure[PlaceOf(cell)]
      [] kind = "geertsma" -> init_file.volume[cell] * presses[name].pressure[PlaceOf(cell)]
      [] OTHER             -> presses[name].rporv[PlaceOf(cell)]

(* last sums over the cells asked for, each with what is its own.          *)
OfCells ==
    LET base == last.asked[1]
        monitor == last.asked[2]
        what == last.asked[3]
        of == last.asked[4]
    IN  /\ last.result = "fine"
        /\ last.terms =
              IF last.op = "eval"
              THEN [cell \in CellsOf(of) |->
                       (IF monitor = NoSurvey THEN 0 ELSE Mass(monitor, what, cell))
                       - Mass(base, what, cell)]
              ELSE [cell \in CellsOf(of) |->
                       Held(base, what, cell)
                       - (IF monitor = NoSurvey THEN 0 ELSE Held(monitor, what, cell))]

Answered == last.op \in {"eval", "eval_subsidence"} /\ last.asked # <<>>

(* The grid had the numbering of the surveys when the indices of the       *)
(* region were asked for, and when the volumes were read.                  *)
InNumbering ==
    /\ last.asked[4] # NoRegion => last.asked[4].grid = gi
    /\ last.op = "eval_subsidence" /\ last.asked[3] = "geertsma" => volume.grid = gi

(* Change of gravity and subsidence sum over the cells asked for, each     *)
(* with the masses, the pore volume, the pressure and the volume of the    *)
(* very cell, whatever the numbering is by now and however many active     *)
(* cells it has, if it was that of the surveys when the region was listed  *)
(* and the volumes were read (rd_grav.cpp:139-177, 586-608,                *)
(* rd_subsidence.cpp:108-196, rd_grav_common.cpp:40-85).                   *)
EvaluationsOfCells == Answered /\ InNumbering => OfCells

(* rd_grav.cpp:609, rd_subsidence.cpp:203: the grid is only used when the  *)
(* instance is made, so that nothing that happens to it later              *)
(* changes what is summed over.                                            *)
GridOnlyAtConstruction == Answered => OfCells
=============================================================================
