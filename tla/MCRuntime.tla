------------------------------ MODULE MCRuntime ------------------------------
(***************************************************************************)
(* Small instances of what the Core rests on: the models it asks, the      *)
(* tools that reach outside, and the start of its processes on one         *)
(* database.  focus names what a behaviour is about; the components it is  *)
(* not about stand still.                                                  *)
(***************************************************************************)
EXTENDS ModelGateway, OutsideTools, Storage

CONSTANT u1  \* the member of the utility pool that pays

VARIABLE focus

ModelFoci == {"budget", "pool", "traces", "seeing"}
OutsideFoci == {"plain", "browser", "mcp"}
StorageFoci == {"replicas", "copy", "demo"}

\* Only one component moves in a behaviour, so one set of interchangeable values serves as the
\* requests and the processes.
Interchangeable == Permutations(Proc)

RuntimeInit ==
  /\ focus \in ModelFoci \cup OutsideFoci \cup StorageFoci
  /\ keyed \in IF focus = "pool" THEN SUBSET Member ELSE {{u1}}
  /\ paying \in IF focus = "budget" THEN BOOLEAN ELSE {FALSE}
  /\ ModelGatewayInit
  /\ OutsideInit
  /\ dialect \in IF focus = "replicas" THEN {"postgresql", "sqlite"} ELSE {"postgresql"}
  /\ production \in IF focus \in {"replicas", "copy"} THEN BOOLEAN ELSE {TRUE}
  /\ ddl \in IF focus \in {"replicas", "copy"} THEN {{}, {"tables"}} ELSE {{}}
  /\ source \in [fp : {1}, served : IF focus = "copy" THEN BOOLEAN ELSE {FALSE},
                 dups : IF focus = "copy" THEN BOOLEAN ELSE {FALSE}, current : {focus = "copy"}]
  /\ shelf \in [cards : IF focus = "demo" THEN {Names} ELSE {{}}, ver : {1}]
  /\ StorageInit
  /\ focus = "copy" => ~privacy.unsafe /\ ~dups /\ legacy = production /\ (ddl = {"tables"}) = production
  /\ focus = "copy" /\ production => ~source.served /\ ~source.dups

----------------------------------------------------------------------------
AskedOf ==
  [budget |-> {"utility"}, pool |-> {"utility", "director"}, traces |-> {"utility", "director", "character"},
   seeing |-> {"vision", "compare", "utility"}]
AllModes == {"schema", "object", "prompt"}
ModelNext ==
  /\ ModelGatewayNext
  /\ \A a \in Asker : ask'[a].kind \in AskedOf[focus] \cup {"none"}
  /\ focus \in {"budget", "pool"} => UNCHANGED trace /\ strays' = 0
  /\ focus # "seeing" => \A m \in Member : can'[m] = AllModes
  /\ focus # "budget" => asked' <= 2 /\ UNCHANGED paying
  /\ focus # "pool" => UNCHANGED keyed /\ \A m \in Member : health'[m].reset = "none"
  /\ focus = "seeing" => UNCHANGED <<health, spent, strays>> /\ can'[u1] # AllModes \ {"schema", "object"}
  /\ focus = "traces" => \A m \in Member : health'[m].cool # "past"

ToolKinds == [plain |-> {"fetch", "search", "weather", "messages", "file"}, browser |-> {"image", "collect"}]
OutsideToolNext ==
  \/ /\ focus = "mcp" /\ McpStep
  \/ /\ focus \in DOMAIN ToolKinds /\ BrowserStep
     /\ \A o \in Op : op'[o].kind \in ToolKinds[focus] \cup {"none"}
     /\ focus = "plain" => calls' <= 2 /\ opened' <= 1

\* A process that stops where nothing it did can matter is left out.
Inert(p) ==
  IF proc[p].pc = "ledger" THEN proc[p].i \notin {1, 13} /\ ~proc[p].looked
  ELSE IF focus = "demo" THEN proc[p].pc \notin {"off", "serving"} /\ ~Syncing(p)
  ELSE /\ focus = "copy" /\ ~proc[p].looked
       /\ proc[p].pc \in {"schema", "columns", "identity", "local", "system", "admin", "profile", "demo"}
StartNext ==
  /\ StorageNext
  /\ \A p \in Proc : Inert(p) => proc'[p].pc # "off"
  /\ (focus = "replicas" \/ (focus = "copy" /\ production) \/ source.dups \/ source.served) => starts' <= 2
  /\ focus = "demo" => starts' <= shelf.ver + 1
  /\ focus = "copy" => \A p \in Proc : proc'[p].kind # "worker"
  /\ focus # "demo" => shelf' = shelf
  /\ focus = "demo" =>
       /\ chosen' = chosen /\ \A p \in Proc : proc'[p].kind \in {"none", "api"}
       /\ \A p, q \in Proc : p # q /\ proc[p].pc \notin {"off", "serving", "services", "demoRead"} /\ ~Syncing(p)
                             => proc'[q] = proc[q]

RuntimeNext ==
  /\ UNCHANGED focus
  /\ \/ focus \in ModelFoci /\ ModelNext /\ UNCHANGED <<outsideVars, storageVars>>
     \/ focus \in OutsideFoci /\ OutsideToolNext /\ UNCHANGED <<gatewayVars, storageVars>>
     \/ focus \in StorageFoci /\ StartNext /\ UNCHANGED <<gatewayVars, outsideVars>>

RuntimeSpec == RuntimeInit /\ [][RuntimeNext]_<<gatewayVars, outsideVars, storageVars, focus>>
=============================================================================
