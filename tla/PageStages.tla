------------------------------ MODULE PageStages ------------------------------
(***************************************************************************)
(* What the task of a page does (core runtime/stages.rs, table.rs,         *)
(* formula.rs; ocr engine.rs; common lease.rs). A page passes layout, text *)
(* recognition, tables and formulas. The last three send regions of the    *)
(* page to models shared by all pages: text detection, text lines, tables  *)
(* and formulas each have a budget of crops whose pixels may exist. A crop *)
(* keeps its unit of the budget until its last owner has let go: the page, *)
(* the CPU pool or the model, which may both outlast the page's deadline.  *)
(* Table rules run first (TableMode::Fallback), models serve as a fallback.*)
(***************************************************************************)
EXTENDS Lines

CONSTANTS
  PageTasks, \* page tasks that run at the same time, of any documents
  Regions,   \* bound: regions <<page, kind, n>> the pages may send to a model
  Capacity   \* Capacity[k]: crops of kind k that may have pixels

Kinds == {"detect", "line", "table", "formula"}

ASSUME StagesAssumption ==
  /\ Regions \subseteq PageTasks \X Kinds \X Nat
  /\ Capacity \in [Kinds -> Nat \ {0}]

VARIABLES
  stage,   \* stage[p]: layout, one of Kinds, done or failed
  plain,   \* pages whose layout failed: blocks from geometry, no tables, no formulas
  text,    \* text[p]: native, recognized, or native after recognition failed
  phase,   \* phase[r]: idle, probing, queued, cropping, inferring, finishing, done
  answer,  \* answer[r]: none, model, rules, or kept (the source text stays)
  warned,  \* regions with a warning in their page
  queue,   \* queue[k]: regions waiting for admission, oldest first
  lease,   \* lease[r]: owners of the unit of budget of r
  cpu,     \* regions with work in the CPU pool on their crop
  model    \* regions with a request in a model

cropVars == <<phase, answer, warned, queue, lease, cpu, model>>
pageVars == <<stage, plain, text>>
stagesVars == <<pageVars, cropVars>>

PageOf(r) == r[1]
KindOf(r) == r[2]
Recognizing == {"detect", "line"}
Over == {"done", "failed"}
Todo(p, k) == {r \in Regions : PageOf(r) = p /\ KindOf(r) = k
                 /\ ~(p \in plain /\ k \in {"table", "formula"})}
InHand(p, k) == {r \in Todo(p, k) : phase[r] \notin {"idle", "done"}}
Admitted(k) == {r \in Regions : KindOf(r) = k /\ lease[r] # {}}

StagesInit ==
  /\ stage = [p \in PageTasks |-> "layout"] /\ plain = {} /\ text = [p \in PageTasks |-> "native"]
  /\ phase = [r \in Regions |-> "idle"] /\ answer = [r \in Regions |-> "none"] /\ warned = {}
  /\ queue = [k \in Kinds |-> <<>>] /\ lease = [r \in Regions |-> {}]
  /\ cpu = {} /\ model = {}

-----------------------------------------------------------------------------
(* Leaving a region.                                                        *)

\* The futures of the regions in S are dropped: they stop waiting for admission and
\* let go of their share of the budget, what they started goes on.
LetGo(S) ==
  /\ queue' = [k \in Kinds |-> Without(queue[k], S)]
  /\ lease' = [r \in Regions |-> IF r \in S THEN lease[r] \ {"caller"} ELSE lease[r]]

\* The page takes a as the answer for r.
Settle(r, a) ==
  /\ phase' = [phase EXCEPT ![r] = "done"]
  /\ answer' = [answer EXCEPT ![r] = a]
  /\ warned' = IF a = "kept" THEN warned \cup {r} ELSE warned

\* The page ends, or its recognition ends, with regions in hand.
Drop(S) ==
  /\ phase' = [r \in Regions |-> IF r \in S THEN "done" ELSE phase[r]]
  /\ UNCHANGED <<answer, warned>>

\* A CPU task of the page panicked, or the task was aborted: the page has no result.
FailPage(p) ==
  /\ stage' = [stage EXCEPT ![p] = "failed"]
  /\ Drop({r \in Regions : PageOf(r) = p})
  /\ UNCHANGED <<plain, text>>

\* Recognition is given up as a whole and the native text stays.
FailText(p) ==
  /\ text' = [text EXCEPT ![p] = "failed"]
  /\ stage' = [stage EXCEPT ![p] = "table"]
  /\ Drop({r \in Regions : PageOf(r) = p /\ KindOf(r) \in Recognizing})
  /\ UNCHANGED plain

\* Which regions lose their caller when r fails: all of the page's recognition, or r.
Peers(r) == IF KindOf(r) \in Recognizing
            THEN {s \in Regions : PageOf(s) = PageOf(r) /\ KindOf(s) \in Recognizing}
            ELSE {r}
Fail(r) ==
  IF KindOf(r) \in Recognizing THEN FailText(PageOf(r))
  ELSE Settle(r, "kept") /\ UNCHANGED pageVars

-----------------------------------------------------------------------------
(* The page.                                                                *)

\* Detection of the layout, or its fallback; then what recognition has to do.
Layout(p) ==
  /\ stage[p] = "layout"
  /\ plain' \in {plain, plain \cup {p}}
  /\ \E next \in {"detect", "table", "failed"} : stage' = [stage EXCEPT ![p] = next]
  /\ UNCHANGED <<text, cropVars>>

\* Every region of a stage is done; composition on the CPU may fail.
NextStage(p) ==
  /\ stage[p] \in Kinds /\ \A r \in Todo(p, stage[p]) : phase[r] = "done"
  /\ \E ok \in BOOLEAN :
       stage' = [stage EXCEPT ![p] =
         IF stage[p] = "detect" THEN "line" ELSE IF ~ok THEN "failed"
         ELSE IF stage[p] = "line" THEN "table" ELSE IF stage[p] = "table" THEN "formula"
         ELSE "done"]
  /\ text' = IF stage[p] = "line" THEN [text EXCEPT ![p] = "recognized"] ELSE text
  /\ UNCHANGED <<plain, cropVars>>

\* The deadline of recognition covers the waiting, the crops and the models.
TextDeadline(p) ==
  /\ stage[p] \in Recognizing
  /\ FailText(p)
  /\ LetGo({r \in Regions : PageOf(r) = p /\ KindOf(r) \in Recognizing})
  /\ UNCHANGED <<cpu, model>>

\* The task is aborted, at any of its awaits.
AbortPage(p) ==
  /\ stage[p] \notin Over
  /\ FailPage(p)
  /\ LetGo({r \in Regions : PageOf(r) = p})
  /\ UNCHANGED <<cpu, model>>

-----------------------------------------------------------------------------
(* A region.                                                                *)

\* The window of a page is as wide as the budget.
Begin(r) ==
  LET p == PageOf(r)
      k == KindOf(r)
  IN /\ stage[p] = k /\ r \in Todo(p, k) /\ phase[r] = "idle"
     /\ Cardinality(InHand(p, k)) < Capacity[k]
     /\ phase' = [phase EXCEPT ![r] = IF k = "table" THEN "probing" ELSE "queued"]
     /\ queue' = IF k = "table" THEN queue ELSE [queue EXCEPT ![k] = Append(@, r)]
     /\ UNCHANGED <<pageVars, answer, warned, lease, cpu, model>>

\* Local rules find the table's structure, or give way to the model, or panic.
Probe(r) ==
  /\ phase[r] = "probing"
  /\ \/ Settle(r, "rules") /\ UNCHANGED <<pageVars, queue, lease>>
     \/ /\ phase' = [phase EXCEPT ![r] = "queued"]
        /\ queue' = [queue EXCEPT !["table"] = Append(@, r)]
        /\ UNCHANGED <<pageVars, answer, warned, lease>>
     \/ FailPage(PageOf(r)) /\ LetGo({s \in Regions : PageOf(s) = PageOf(r)})
  /\ UNCHANGED <<cpu, model>>

\* Admission is first come, first served; then the crop is cut on the CPU.
Admit(r) ==
  LET k == KindOf(r) IN
  /\ phase[r] = "queued" /\ Head(queue[k]) = r
  /\ Cardinality(Admitted(k)) < Capacity[k]
  /\ queue' = [queue EXCEPT ![k] = Tail(@)]
  /\ phase' = [phase EXCEPT ![r] = "cropping"]
  /\ lease' = [lease EXCEPT ![r] = {"caller", "cpu"}]
  /\ cpu' = cpu \cup {r}
  /\ UNCHANGED <<pageVars, answer, warned, model>>

\* The CPU is done with the crop and nobody waits for it: its output is destroyed.
CropUnwanted(r) ==
  /\ r \in cpu /\ phase[r] = "done"
  /\ cpu' = cpu \ {r}
  /\ lease' = [lease EXCEPT ![r] = @ \ {"cpu"}]
  /\ UNCHANGED <<pageVars, phase, answer, warned, queue, model>>

\* The crop goes to the model.
CropReady(r) ==
  /\ r \in cpu /\ phase[r] = "cropping"
  /\ cpu' = cpu \ {r} /\ model' = model \cup {r}
  /\ phase' = [phase EXCEPT ![r] = "inferring"]
  /\ lease' = [lease EXCEPT ![r] = (@ \ {"cpu"}) \cup {"model"}]
  /\ UNCHANGED <<pageVars, answer, warned, queue>>

\* CPU work of a region someone waits for fails. A panic over a table fails the page;
\* over text or a formula it is an error like any other.
CpuFails(r) ==
  /\ r \in cpu /\ phase[r] \in {"cropping", "finishing"}
  /\ cpu' = cpu \ {r}
  /\ \E panic \in IF KindOf(r) = "table" THEN BOOLEAN ELSE {FALSE} :
       LET S == IF panic THEN {s \in Regions : PageOf(s) = PageOf(r)} ELSE Peers(r) IN
       /\ IF panic THEN FailPage(PageOf(r)) ELSE Fail(r)
       /\ queue' = [k \in Kinds |-> Without(queue[k], S)]
       /\ lease' = [s \in Regions |->
            lease[s] \ ((IF s \in S THEN {"caller"} ELSE {}) \cup (IF s = r THEN {"cpu"} ELSE {}))]
  /\ UNCHANGED model

\* Mutant of Deadline: the deadline begins when the crop is admitted.
DeadlineOnceAdmitted(r) ==
  /\ KindOf(r) \in {"table", "formula"} /\ phase[r] \in {"cropping", "inferring"}
  /\ Settle(r, "kept") /\ LetGo({r})
  /\ UNCHANGED <<pageVars, cpu, model>>

\* Mutant of Deadline: the whole lease is returned, whoever shares it.
DeadlineReleases(r) ==
  /\ KindOf(r) \in {"table", "formula"} /\ phase[r] \in {"queued", "cropping", "inferring"}
  /\ Settle(r, "kept")
  /\ queue' = [k \in Kinds |-> Without(queue[k], {r})]
  /\ lease' = [lease EXCEPT ![r] = {}]
  /\ UNCHANGED <<pageVars, cpu, model>>

\* The deadline of one table or formula covers its waiting, its crop and its model.
Deadline(r) ==
  /\ KindOf(r) \in {"table", "formula"} /\ phase[r] \in {"queued", "cropping", "inferring"}
  /\ Settle(r, "kept") /\ LetGo({r})
  /\ UNCHANGED <<pageVars, cpu, model>>

\* Mutant of Answer: the reply is taken without asking who still waits.
AnswerAnyway(r) ==
  /\ r \in model
  /\ model' = model \ {r}
  /\ lease' = [lease EXCEPT ![r] = @ \ {"model", "caller"}]
  /\ Settle(r, "model") /\ UNCHANGED <<pageVars, queue, cpu>>

\* The model replies, or drops a request whose caller has left. A detection and a
\* table go on to the CPU, with their pixels; an error leaves the source text.
Answer(r) ==
  /\ r \in model
  /\ model' = model \ {r}
  /\ \/ /\ phase[r] = "done"
        /\ lease' = [lease EXCEPT ![r] = @ \ {"model"}]
        /\ UNCHANGED <<pageVars, phase, answer, warned, queue, cpu>>
     \/ /\ phase[r] = "inferring" /\ KindOf(r) \in {"detect", "table"}
        /\ phase' = [phase EXCEPT ![r] = "finishing"]
        /\ lease' = [lease EXCEPT ![r] = (@ \ {"model"}) \cup {"cpu"}]
        /\ cpu' = cpu \cup {r}
        /\ UNCHANGED <<pageVars, answer, warned, queue>>
     \/ /\ phase[r] = "inferring" /\ KindOf(r) \in {"line", "formula"}
        /\ Settle(r, "model")
        /\ lease' = [lease EXCEPT ![r] = @ \ {"model", "caller"}]
        /\ UNCHANGED <<pageVars, queue, cpu>>
     \/ /\ phase[r] = "inferring"
        /\ Fail(r)
        /\ queue' = [k \in Kinds |-> Without(queue[k], Peers(r))]
        /\ lease' = [s \in Regions |->
             lease[s] \ ((IF s \in Peers(r) THEN {"caller"} ELSE {})
                           \cup (IF s = r THEN {"model"} ELSE {}))]
        /\ UNCHANGED cpu

\* A detection is decoded, a table's cells are filled; no deadline covers the filling.
FinishCrop(r) ==
  /\ r \in cpu /\ phase[r] = "finishing"
  /\ cpu' = cpu \ {r}
  /\ Settle(r, "model")
  /\ lease' = [lease EXCEPT ![r] = {}]
  /\ UNCHANGED <<pageVars, queue, model>>

-----------------------------------------------------------------------------
PageStep(p) == Layout(p) \/ NextStage(p) \/ TextDeadline(p)
CpuStep(r) == Probe(r) \/ CropUnwanted(r) \/ CropReady(r) \/ CpuFails(r) \/ FinishCrop(r)
RegionStep(r) == Begin(r) \/ Admit(r) \/ Deadline(r)

StagesNext ==
  \/ \E p \in PageTasks : PageStep(p) \/ AbortPage(p)
  \/ \E r \in Regions : RegionStep(r) \/ CpuStep(r) \/ Answer(r)

StagesSpec == StagesInit /\ [][StagesNext]_stagesVars

\* The layout engine has no deadline and must answer; CPU work ends; deadlines pass.
\* The other models owe nothing: a request may stay in one for ever.
FairStagesSpec ==
  /\ StagesSpec
  /\ \A p \in PageTasks : WF_stagesVars(PageStep(p))
  /\ \A r \in Regions : WF_stagesVars(CpuStep(r)) /\ WF_stagesVars(RegionStep(r))

-----------------------------------------------------------------------------
\* Type correctness; only regions that wait for admission are in a queue, once.
StagesTypeOK ==
  /\ stage \in [PageTasks -> {"layout"} \cup Kinds \cup Over] /\ plain \subseteq PageTasks
  /\ text \in [PageTasks -> {"native", "recognized", "failed"}]
  /\ phase \in [Regions -> {"idle", "probing", "queued", "cropping", "inferring",
                            "finishing", "done"}]
  /\ answer \in [Regions -> {"none", "model", "rules", "kept"}]
  /\ warned \subseteq Regions /\ cpu \subseteq Regions /\ model \subseteq Regions
  /\ lease \in [Regions -> SUBSET {"caller", "cpu", "model"}]
  /\ queue \in [Kinds -> Seq(Regions)]
  /\ \A k \in Kinds :
       /\ ToSet(queue[k]) = {r \in Regions : KindOf(r) = k /\ phase[r] = "queued"}
       /\ IsInjective(queue[k])

\* Crops with pixels: being cut or used on the CPU, in a model, or in the page's hands.
CropPixels(k) == {r \in Regions : KindOf(r) = k /\
  (r \in cpu \/ r \in model \/ phase[r] \in {"cropping", "inferring", "finishing"})}

\* However pages time out, fail or are aborted, the crops that exist keep to the
\* budget, those nobody waits for any more included, and no unit of it is lost: a
\* region waits at the head of a queue only while the budget is used up by pixels.
PixelsAdmitted ==
  /\ StagesTypeOK
  /\ \A k \in Kinds : Cardinality(CropPixels(k)) <= Capacity[k] /\ Admitted(k) = CropPixels(k)

\* A finished page has one answer for each of its regions: a structure or formula from
\* the rules or the model, or its source text and a warning, never both and never an
\* answer that came after the deadline; and it holds nothing and waits for nothing.
PageIsWhole ==
  \A p \in PageTasks : stage[p] = "done" => \A r \in Todo(p, "table") \cup Todo(p, "formula") :
    /\ answer[r] # "none" /\ (answer[r] = "kept" <=> r \in warned)
    /\ "caller" \notin lease[r] /\ (answer[r] # "kept" => lease[r] = {})

\* Every page ends, though text, table and formula models may never answer and keep
\* units of the budgets others wait for.
PagesEnd == \A p \in PageTasks : (stage[p] \notin Over) ~> (stage[p] \in Over)
=============================================================================
