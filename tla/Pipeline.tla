------------------------------ MODULE Pipeline ------------------------------
(***************************************************************************)
(* From a user's words to a job: one conversation of the web API, its      *)
(* agent, and the three tools that turn a shipping command into a pending  *)
(* job.  The agent is free to call any tool in any order with any intent   *)
(* and any spec it was handed; what protects the user is what the tools    *)
(* check.  The bridge is the tools' memory between calls.  The data source *)
(* is shared by the whole process, so it may be replaced at every await of *)
(* ship_command_pipeline; the tools that wait once are one step.           *)
(***************************************************************************)
EXTENDS FilterResolver, FiniteSetsExt

CONSTANTS
  Commands,   \* shipping requests a user may type
  Score,      \* _command_specificity_score of every message
  Implies,    \* _command_implies_filter
  Needs,      \* [Commands -> SUBSET TierB]: the region and predicates it names
  Wants,      \* [Commands -> [Enforced -> SUBSET Values]]: states, bounds, status
  Enforced,   \* the columns of those: a subset of Columns
  Bounds,     \* those of them whose bounds must agree exactly
  Intents,    \* filter intents the agent may form
  Sources,    \* data sources, their rows and their signatures
  RowsOf,
  SigOf,
  Initially,  \* the source connected when the conversation starts
  Stable,     \* the sources with a stable row order (deterministic_ready)
  None,
  Limit,      \* the limit argument, and SHIP_PIPELINE_MAX_FETCH_ROWS
  MaxFetch,
  MaxMessages, MaxTools, MaxSwitches, MaxTime   \* bounds

Yes  == "yes"    \* a confirmation reply
Chat == "chat"   \* anything else
Messages == Commands \cup {Yes, Chat}

AllIntents ==
  [logic : {"AND", "OR"}, conds : SUBSET Conditions, refs : SUBSET (TierB \cup {Unknown})]

ASSUME PipelineAssumption ==
  /\ Score \in [Messages -> Nat]
  /\ Implies \in [Commands -> BOOLEAN]
  /\ Needs \in [Commands -> SUBSET TierB]
  /\ Enforced \subseteq Columns
  /\ Wants \in [Commands -> [Enforced -> SUBSET Values]]
  /\ Intents \subseteq AllIntents
  /\ RowsOf \in [Sources -> SUBSET Orders]
  /\ \A s \in Sources : IsFiniteSet(RowsOf[s])
  /\ Stable \subseteq Sources
  /\ SigOf \in [Sources -> Signatures]
  /\ Initially \in Sources \cup {None}
  /\ None \notin Sources \cup Messages

VARIABLES
  current,    \* the gateway's source
  session,    \* the conversation: turn, message count, agent's source, confirmed
  bridge,     \* EventEmitterBridge of the agent
  held,       \* the specs the tools gave this agent
  call,       \* the ship_command_pipeline call under way
  jobs,       \* the jobs it created
  approved,   \* history: the references confirmed, with their schema
  spent       \* tool calls, source switches and ticks so far

vars == <<current, session, bridge, held, call, jobs, approved, spent>>

AllRows == [logic |-> "AND", conds |-> {}]
Idle    ==
  [stage |-> "idle", arg |-> None, command |-> None, spec |-> None,
   recovered |-> FALSE, calm |-> TRUE, src |-> None, sig |-> None,
   root |-> AllRows, added |-> {}, total |-> 0, rows |-> {}, from |-> None]
NewBridge ==
  [message |-> None, shipping |-> None, spec |-> None, command |-> None]

Init ==
  /\ current = Initially
  /\ session = [messages |-> 0, source |-> None, started |-> FALSE, confirmed |-> {}]
  /\ bridge = NewBridge
  /\ held = {}
  /\ call = Idle
  /\ jobs = {}
  /\ approved = {}
  /\ spent = [tools |-> 0, switches |-> 0, now |-> 0]

Now == spent.now
Tool == /\ session.started
        /\ call = Idle
        /\ spent.tools < MaxTools
        /\ spent' = [spent EXCEPT !.tools = @ + 1]

-----------------------------------------------------------------------------
\* Mutant of Kept: the new agent works with the old one's memory.
KeptAlways(rebuilt) == bridge

Kept(rebuilt) == IF rebuilt THEN NewBridge ELSE bridge

\* A message takes the session's lock; a changed source rebuilds the agent and
\* its bridge, and clears the confirmations, which otherwise outlive a turn.
Message(text) ==
  LET rebuilt == ~session.started \/ session.source # current
  IN  /\ call = Idle
      /\ session.messages < MaxMessages
      /\ session' = [session EXCEPT !.messages = @ + 1, !.started = TRUE,
                                    !.source = current,
                                    !.confirmed = IF rebuilt THEN {} ELSE @]
      /\ bridge' = [Kept(rebuilt) EXCEPT
           !.message  = text,
           !.shipping = CASE text \in Commands -> text
                          [] text = Yes -> @
                          [] OTHER -> None]
      /\ held' = IF rebuilt THEN {} ELSE held
      /\ UNCHANGED <<current, call, jobs, approved, spent>>

\* Another conversation, a route or the CLI connects or disconnects a source.
SwitchSource(s) ==
  /\ s # current
  /\ spent.switches < MaxSwitches
  /\ current' = s
  /\ spent' = [spent EXCEPT !.switches = @ + 1]
  /\ call' = IF call = Idle THEN call ELSE [call EXCEPT !.calm = FALSE]
  /\ UNCHANGED <<session, bridge, held, jobs, approved>>

Tick ==
  /\ Now < MaxTime
  /\ spent' = [spent EXCEPT !.now = @ + 1]
  /\ UNCHANGED <<current, session, bridge, held, call, jobs, approved>>

-----------------------------------------------------------------------------
\* A confirmation reply keeps the command it answers.
CommandForCache ==
  IF bridge.message # Yes THEN bridge.message
  ELSE IF bridge.shipping # None THEN bridge.shipping
  ELSE IF bridge.command # None THEN bridge.command
  ELSE bridge.message

Remember(spec) == [bridge EXCEPT !.spec = spec, !.command = CommandForCache]
Forget         == [bridge EXCEPT !.spec = None, !.command = None]

\* resolve_filter_intent.
ResolveIntent(intent) ==
  /\ Tool
  /\ current # None
  /\ bridge.message \in Commands => current \in Stable
  /\ Resolvable(intent, SigOf[current])
  /\ LET spec == Resolve(intent, session.confirmed, SigOf[current], Now)
     IN  /\ held' = held \cup {spec}
         /\ bridge' = IF spec.status = "RESOLVED" THEN Remember(spec) ELSE Forget
  /\ UNCHANGED <<current, session, call, jobs, approved>>

\* Mutant of Confirmable: a token confirms whatever intent comes with it.
ConfirmableAny(token, intent) ==
  /\ current \in Stable
  /\ ValidToken(token, SigOf[current], Now)
  /\ token.status = "NEEDS_CONFIRMATION"
  /\ Resolvable(intent, SigOf[current])

\* The token is live, was made for this schema, asks for a confirmation, and
\* this intent resolves to the conditions it binds.
Confirmable(token, intent) ==
  /\ current \in Stable
  /\ ValidToken(token, SigOf[current], Now)
  /\ token.status = "NEEDS_CONFIRMATION"
  /\ Resolvable(intent, SigOf[current])
  /\ Expanded(intent) = token.root

\* confirm_filter_interpretation: the confirmation is stored, then the intent
\* is resolved again; when terms are still open, only the confirmation stays.
Confirm(old, intent) ==
  /\ Tool
  /\ current # None
  /\ old \in held
  /\ Confirmable(old.token, intent)
  /\ LET sig       == SigOf[current]
         initial   == Resolve(intent, {}, sig, Now)
         confirmed == session.confirmed \cup
                        {[token |-> old.token, pending |-> initial.pending]}
         spec      == Resolve(intent, confirmed, sig, Now)
         done      == spec.status = "RESOLVED"
     IN  /\ session' = [session EXCEPT !.confirmed = confirmed]
         /\ held' = IF done THEN held \cup {spec} ELSE held
         /\ bridge' = IF done THEN Remember(spec) ELSE bridge
         /\ approved' = approved \cup ((old.refs \cap TierB) \X {sig})
  /\ UNCHANGED <<current, call, jobs>>

-----------------------------------------------------------------------------
\* _select_validation_command: the most specific of the texts at hand, the
\* first of them on a tie.
Candidates(arg) ==
  <<arg, bridge.shipping, bridge.message, bridge.command>>

ValidationCommand(arg) ==
  LET texts == Candidates(arg)
      known == {i \in DOMAIN texts : texts[i] # None}
      best  == {i \in known : \A j \in known : Score[texts[j]] <= Score[texts[i]]}
  IN  texts[Min(best)]

Fingerprint(command) == <<Needs[command], Wants[command]>>

\* _commands_filter_equivalent_for_cache, or the same words.
SameFilter(a, b) ==
  \/ a = b
  \/ /\ {a, b} \subseteq Commands
     /\ Implies[a]
     /\ Implies[b]
     /\ Fingerprint(a) = Fingerprint(b)

MayRecover(command) ==
  /\ bridge.spec # None
  /\ bridge.command # None
  /\ SameFilter(bridge.command, command)

\* The name the agent calls the tool by: client.py registers it with the server
\* "orchestrator", while the hook knows it by its bare name.
PipelineTool == "mcp__orchestrator__ship_command_pipeline"
HookSees(tool) == tool \in {"ship_command_pipeline", "fetch_rows"}

\* validate_filter_spec_on_pipeline: the spec passed carries a live token that
\* proves it resolved.  The pipeline itself looks at no token.
HookAllows(spec) ==
  /\ Now <= spec.token.expires
  /\ spec.token.status = "RESOLVED"
  /\ spec.token.root = spec.root

\* The agent's own arguments: the command it serves, and a spec, all rows or
\* neither.  Refusals before the first await change nothing and are no step.
StartPipeline(arg, spec, all) ==
  LET command == ValidationCommand(arg)
      used    == IF spec = None /\ ~all THEN bridge.spec ELSE spec
  IN  /\ Tool
      /\ arg \in {bridge.message, bridge.shipping} \cap Commands
      /\ command \in Commands
      /\ ~(spec # None /\ all)
      /\ spec # None /\ HookSees(PipelineTool) => HookAllows(spec)
      /\ (spec = None /\ ~all) => MayRecover(command)
      /\ all => ~Implies[command]
      /\ call' = [Idle EXCEPT !.stage = "info", !.arg = arg, !.command = command,
                              !.spec = used, !.recovered = spec = None /\ ~all]
      /\ UNCHANGED <<current, session, bridge, held, jobs, approved>>

\* The conditions of a root on a column, and the values they list: the test is
\* whether the operator's name ends in "eq" or "in", so neq and not_in count.
On(root, col)     == {c \in root.conds : c.col = col /\ c.vals # {}}
Listed(root, col) == UNION {c.vals : c \in On(root, col)}

\* _spec_includes_region, _spec_includes_business_filter.
Includes(root, r) ==
  \E c \in root.conds : c.vals # {} /\ c.vals \subseteq Expansion[r].vals

\* A filter on the column the command constrains, saying something else.
Mismatch(root, col, want) ==
  /\ want # {}
  /\ On(root, col) # {}
  /\ IF col \in Bounds THEN Listed(root, col) # want
                       ELSE ~(want \subseteq Listed(root, col))

\* Mutant of Missing: trusts the spec about every column.
MissingNothing(root, wants) == {}

\* _append_state_filter and its siblings: what the spec leaves out is appended
\* to the root group, whatever its logic.
Missing(root, wants) ==
  {[col |-> col, vals |-> wants[col], neg |-> FALSE] :
     col \in {k \in Enforced : wants[k] # {} /\ On(root, k) = {}}}

Enforcing(root, extra) == [logic |-> root.logic, conds |-> root.conds \cup extra]

\* The checks of the pipeline between get_source_info and the compiler.
Accepts(spec, command, sig) ==
  /\ \A r \in Needs[command] : Includes(spec.root, r)
  /\ \A col \in Enforced :
       /\ Wants[command][col] # {} => col \in SchemaOf[sig]
       /\ ~Mismatch(spec.root, col, Wants[command][col])
  /\ Compiles(spec, sig)

Refuse == call' = Idle

\* get_source_info answers: the source the job will record, and the filter.
ReadInfo ==
  /\ call.stage = "info"
  /\ LET sig   == SigOf[current]
         extra == Missing(call.spec.root, Wants[call.command])
     IN  IF current \notin Stable THEN Refuse
         ELSE IF call.spec = None
           THEN call' = [call EXCEPT !.stage = "rows", !.calm = TRUE,
                                     !.src = current, !.sig = sig]
         ELSE IF call.recovered /\ call.spec.sig # sig THEN Refuse
         ELSE IF ~Accepts(call.spec, call.command, sig) THEN Refuse
         ELSE call' = [call EXCEPT !.stage = "rows", !.calm = TRUE,
                                   !.src = current, !.sig = sig, !.added = extra,
                                   !.root = Enforcing(call.spec.root, extra)]
  /\ UNCHANGED <<current, session, bridge, held, jobs, approved, spent>>

\* The rows of the source that is connected when the query runs; a query on
\* columns it lacks fails, and so does one with no source.
Queryable == current # None /\ \A c \in call.root.conds : c.col \in SchemaOf[SigOf[current]]
Matching  == {o \in RowsOf[current] : Selects(call.root, o)}

\* Mutant of FetchRows: the first page is all there is.
FetchFirstPage ==
  /\ call.stage = "rows"
  /\ IF ~Queryable \/ Matching = {} THEN Refuse
     ELSE \E rows \in SUBSET Matching :
            /\ Cardinality(rows) <= Limit
            /\ call' = [call EXCEPT !.stage = "job", !.rows = rows, !.from = current]
  /\ UNCHANGED <<current, session, bridge, held, jobs, approved, spent>>

\* get_rows_with_count: one page and the size of the match set.
FetchRows ==
  /\ call.stage = "rows"
  /\ IF ~Queryable \/ Matching = {} \/ Cardinality(Matching) > MaxFetch THEN Refuse
     ELSE IF Cardinality(Matching) <= Limit
       THEN call' = [call EXCEPT !.stage = "job", !.rows = Matching, !.from = current]
       ELSE call' = [call EXCEPT !.stage = "more", !.total = Cardinality(Matching)]
  /\ UNCHANGED <<current, session, bridge, held, jobs, approved, spent>>

\* get_rows_by_filter with the size just counted as its limit.
FetchMore ==
  /\ call.stage = "more"
  /\ IF ~Queryable \/ Matching = {} THEN Refuse
     ELSE \E rows \in SUBSET Matching :
            /\ Cardinality(rows) = Min({call.total, Cardinality(Matching)})
            /\ call' = [call EXCEPT !.stage = "job", !.rows = rows, !.from = current]
  /\ UNCHANGED <<current, session, bridge, held, jobs, approved, spent>>

Job(state, rows) ==
  [arg |-> call.arg, command |-> call.command, root |-> call.root,
   added |-> call.added, src |-> call.src, sig |-> call.sig, from |-> call.from,
   refs |-> IF call.spec = None THEN {} ELSE call.spec.refs,
   rows |-> rows, calm |-> call.calm, state |-> state]

\* The job, its rows and its preview: the preview resets the shipping command;
\* when it fails the job stays; when the rows fail the job is deleted, unless
\* that fails too and an empty job stays.
CreateJob ==
  /\ call.stage = "job"
  /\ \/ /\ jobs' = jobs \cup {Job("previewed", call.rows)}
        /\ bridge' = [bridge EXCEPT !.shipping = None]
     \/ jobs' = jobs \cup {Job("unpriced", call.rows)} /\ UNCHANGED bridge
     \/ jobs' = jobs /\ UNCHANGED bridge
     \/ jobs' = jobs \cup {Job("empty", {})} /\ UNCHANGED bridge
  /\ call' = Idle
  /\ UNCHANGED <<current, session, held, approved, spent>>

PipelineStep == ReadInfo \/ FetchRows \/ FetchMore \/ CreateJob

Next ==
  \/ \E text \in Messages : Message(text)
  \/ \E s \in Sources \cup {None} : SwitchSource(s)
  \/ Tick
  \/ \E intent \in Intents : ResolveIntent(intent)
  \/ \E old \in held, intent \in Intents : Confirm(old, intent)
  \/ \E arg \in Commands, spec \in held \cup {None}, all \in BOOLEAN :
       StartPipeline(arg, spec, all)
  \/ PipelineStep

Spec == Init /\ [][Next]_vars

-----------------------------------------------------------------------------
Statuses == {"RESOLVED", "NEEDS_CONFIRMATION", "UNRESOLVED"}
Tokens ==
  [sig : Signatures, root : Roots, status : Statuses, expires : Nat]
Specs ==
  [status : Statuses, root : Roots, sig : Signatures, pending : SUBSET TierB,
   refs : SUBSET (TierB \cup {Unknown}), token : Tokens]
Calls ==
  [stage : {"idle", "info", "rows", "more", "job"}, arg : Commands \cup {None},
   command : Commands \cup {None}, spec : Specs \cup {None}, recovered : BOOLEAN,
   calm : BOOLEAN, src : Sources \cup {None}, sig : Signatures \cup {None},
   root : Roots, added : SUBSET Conditions, total : Nat, rows : SUBSET Orders,
   from : Sources \cup {None}]
Jobs ==
  [arg : Commands, command : Commands, root : Roots, added : SUBSET Conditions,
   src : Sources, sig : Signatures, from : Sources,
   refs : SUBSET (TierB \cup {Unknown}), rows : SUBSET Orders, calm : BOOLEAN,
   state : {"previewed", "unpriced", "empty"}]

TypeOK ==
  /\ current \in Sources \cup {None}
  /\ session \in [messages : Nat, source : Sources \cup {None}, started : BOOLEAN,
                  confirmed : SUBSET [token : Tokens, pending : SUBSET TierB]]
  /\ bridge \in [message : Messages \cup {None}, shipping : Commands \cup {None},
                 spec : Specs \cup {None}, command : Messages \cup {None}]
  /\ held \subseteq Specs
  /\ call \in Calls
  /\ jobs \subseteq Jobs
  /\ approved \subseteq TierB \X Signatures
  /\ spent \in [tools : Nat, switches : Nat, now : Nat]

\* Every spec the agent holds is the reading of an intent, and its token binds
\* what it says.  The bridge remembers none that another agent was given.
SpecInv ==
  /\ bridge.spec \in held \cup {None}
  /\ \A spec \in held :
       /\ spec.token.status = spec.status
       /\ spec.token.root = spec.root
       /\ spec.token.sig = spec.sig
       /\ \E intent \in Intents :
            spec.root = Expanded(intent) /\ spec.refs = intent.refs

\* What a call has settled at each await, and what of the source still holds
\* when nobody replaced it since.
CallInv ==
  /\ call.stage # "idle" =>
       /\ {call.arg, call.command} \subseteq Commands
       /\ call.spec \in held \cup {None}
       /\ call.spec = None => ~Implies[call.command]
  /\ call.stage = "info" => call.root = AllRows /\ call.added = {}
  /\ call.stage \in {"rows", "more", "job"} =>
       /\ call.src \in Sources
       /\ call.sig = SigOf[call.src]
       /\ call.calm => current = call.src
       /\ IF call.spec = None THEN call.root = AllRows /\ call.added = {}
          ELSE LET extra == Missing(call.spec.root, Wants[call.command])
               IN  /\ Accepts(call.spec, call.command, call.sig)
                   /\ call.added = extra
                   /\ call.root = Enforcing(call.spec.root, extra)
  /\ call.stage = "more" /\ call.calm => call.total = Cardinality(Matching)
  /\ call.stage = "job" =>
       /\ call.from \in Sources
       /\ \A o \in call.rows : Selects(call.root, o)
       /\ call.calm => call.rows = Matching

\* The types, the agent's specs and the call under way.
PipelineIsSound == TypeOK /\ SpecInv /\ CallInv

\* A call whose source stayed in place makes a job of every row of it that the
\* filter selects, and of no other: no page of a larger match set ships as if
\* it were all of it.
JobShipsItsMatchSet ==
  \A j \in jobs : j.calm /\ j.state # "empty" =>
    j.rows = {o \in RowsOf[j.src] : Selects(j.root, o)}

\* Every row of a job is one the command it records asked for: whatever spec
\* the agent passed or the bridge recovered, and whatever source came between,
\* the states, bounds, status, region and predicates named in the command hold
\* of the row.
JobRowsMatchCommand ==
  \A j \in jobs : \A o \in j.rows :
    /\ \A col \in Enforced :
         Wants[j.command][col] # {} => Attr[o][col] \in Wants[j.command][col]
    /\ \A r \in Needs[j.command] : Matches(o, Expansion[r])

\* A region or business predicate reaches a job only after the user was asked
\* about it, for the schema the job records: confirming one term never
\* confirms another.
OnlyApprovedTermsShip ==
  \A j \in jobs : (j.refs \cap TierB) \X {j.sig} \subseteq approved

\* What the audit of the pipeline calls enforced holds of every row it ships.
EnforcedConditionsHold ==
  \A j \in jobs : \A o \in j.rows : \A c \in j.added : Matches(o, c)

\* A spec recovered from the bridge serves the command the agent is serving.
JobServesItsCommand ==
  \A j \in jobs : \A o \in j.rows : \A col \in Enforced :
    Wants[j.arg][col] # {} => Attr[o][col] \in Wants[j.arg][col]
=============================================================================
