---------------------------- MODULE PipelineProofs ----------------------------
(***************************************************************************)
(* The way from a user's words to a job is sound for every set of sources, *)
(* commands and intents: a call's settled facts, the rows of its job, and, *)
(* for agents whose intents say what they mean, the filter of the command  *)
(* and the user's confirmations.                                           *)
(***************************************************************************)
EXTENDS Pipeline, FiniteSetTheorems, TLAPS

USE ResolverAssumption, PipelineAssumption

-----------------------------------------------------------------------------
\* What the resolver returns is a spec.

\* The expansion of an intent is a filter.
LEMMA ExpandedIsRoot ==
  ASSUME NEW intent \in AllIntents
  PROVE  Expanded(intent) \in Roots
<1>1. /\ intent.logic \in {"AND", "OR"}
      /\ intent.conds \subseteq Conditions
  BY DEF AllIntents
<1>2. \A r \in TierB : Expansion[r] \in Conditions
  OBVIOUS
<1>3. intent.conds \cup {Expansion[r] : r \in intent.refs \cap TierB} \subseteq Conditions
  BY <1>1, <1>2
<1> QED
  BY <1>1, <1>3 DEF Expanded, Roots

\* A resolution has the shape of a spec, and reads its intent.
LEMMA ResolveIsSpec ==
  ASSUME NEW intent \in AllIntents, NEW confirmed, NEW sig \in Signatures,
         NEW now \in Nat
  PROVE  LET spec == Resolve(intent, confirmed, sig, now)
         IN  /\ spec \in Specs
             /\ spec.status = Status(intent, confirmed, sig, now)
             /\ spec.pending = Pending(intent, confirmed, sig, now)
             /\ spec.root = Expanded(intent)
             /\ spec.refs = intent.refs
             /\ spec.sig = sig
             /\ spec.token.status = spec.status
             /\ spec.token.root = spec.root
             /\ spec.token.sig = spec.sig
<1> DEFINE status == Status(intent, confirmed, sig, now)
           pending == Pending(intent, confirmed, sig, now)
           root == Expanded(intent)
           token == [sig |-> sig, root |-> root, status |-> status, expires |-> now + TTL]
           spec == Resolve(intent, confirmed, sig, now)
<1>1. status \in Statuses
  BY DEF Status, Statuses
<1>2. pending \in SUBSET TierB
  BY DEF Pending
<1>3. root \in Roots
  BY ExpandedIsRoot
<1>4. intent.refs \in SUBSET (TierB \cup {Unknown})
  BY DEF AllIntents
<1>5. now + TTL \in Nat
  OBVIOUS
<1>6. spec = [status |-> status, root |-> root, sig |-> sig, pending |-> pending,
              refs |-> intent.refs, token |-> token]
  BY DEF Resolve
<1> HIDE DEF status, pending, root
<1>7. token \in Tokens
  BY <1>1, <1>3, <1>5 DEF Tokens
<1>8. spec \in Specs
  BY <1>1, <1>2, <1>3, <1>4, <1>6, <1>7 DEF Specs
<1>9. /\ spec.status = status
      /\ spec.pending = pending
      /\ spec.root = root
      /\ spec.refs = intent.refs
      /\ spec.sig = sig
      /\ spec.token.status = status
      /\ spec.token.root = root
      /\ spec.token.sig = sig
  BY <1>6
<1> HIDE DEF spec
<1> QED
  BY <1>8, <1>9 DEF status, pending, root, spec

\* The text of the command validated is one of those at hand.
LEMMA CommandForCacheType ==
  ASSUME TypeOK, bridge.message # None
  PROVE  CommandForCache \in Messages
BY DEF TypeOK, CommandForCache, Messages

\* What the pipeline appends is a set of conditions, and so is the filter with
\* it.
LEMMA EnforcingIsRoot ==
  ASSUME NEW root \in Roots, NEW command \in Commands
  PROVE  LET extra == Missing(root, Wants[command])
         IN  extra \subseteq Conditions /\ Enforcing(root, extra) \in Roots
<1> DEFINE extra == Missing(root, Wants[command])
<1>1. /\ root.logic \in {"AND", "OR"}
      /\ root.conds \subseteq Conditions
  BY DEF Roots
<1>2. \A col \in Enforced : col \in Columns /\ Wants[command][col] \in SUBSET Values
  OBVIOUS
<1>3. extra \subseteq Conditions
  <2> SUFFICES ASSUME NEW c \in extra PROVE c \in Conditions
    OBVIOUS
  <2>1. PICK col \in Enforced : c = [col |-> col, vals |-> Wants[command][col], neg |-> FALSE]
    BY DEF Missing
  <2> QED
    BY <1>2, <2>1 DEF Conditions
<1> HIDE DEF extra
<1>4. Enforcing(root, extra) \in Roots
  BY <1>1, <1>3 DEF Enforcing, Roots
<1> QED
  BY <1>3, <1>4 DEF extra

-----------------------------------------------------------------------------
\* The invariant of the call under way.

LEMMA AllRowsIsRoot == AllRows \in Roots
BY DEF AllRows, Roots

LEMMA IdleIsCall == Idle \in Calls /\ Idle.stage = "idle"
BY AllRowsIsRoot DEF Idle, Calls

LEMMA InitIsSound == Init => PipelineIsSound
<1> SUFFICES ASSUME Init PROVE PipelineIsSound
  OBVIOUS
<1>1. TypeOK
  <2>1. session \in [messages : Nat, source : Sources \cup {None}, started : BOOLEAN,
                     confirmed : SUBSET [token : Tokens, pending : SUBSET TierB]]
    BY DEF Init
  <2>2. bridge \in [message : Messages \cup {None}, shipping : Commands \cup {None},
                    spec : Specs \cup {None}, command : Messages \cup {None}]
    BY DEF Init, NewBridge
  <2>3. spent \in [tools : Nat, switches : Nat, now : Nat]
    BY DEF Init
  <2> QED
    BY <2>1, <2>2, <2>3, IdleIsCall DEF Init, TypeOK
<1>2. SpecInv
  BY DEF Init, SpecInv, NewBridge
<1>3. CallInv
  <2>1. call.stage = "idle"
    BY IdleIsCall DEF Init
  <2> QED
    BY <2>1 DEF CallInv
<1> QED
  BY <1>1, <1>2, <1>3 DEF PipelineIsSound

\* With no call under way there is nothing to show of it.
LEMMA IdleCallInv ==
  ASSUME call' = Idle
  PROVE  CallInv'
<1>1. call'.stage = "idle"
  BY IdleIsCall
<1> QED
  BY <1>1 DEF CallInv

LEMMA MessageIsSound ==
  ASSUME PipelineIsSound, NEW text \in Messages, Message(text)
  PROVE  PipelineIsSound'
<1> USE DEF PipelineIsSound
<1> DEFINE rebuilt == ~session.started \/ session.source # current
<1>1. TypeOK'
  <2>1. session' \in [messages : Nat, source : Sources \cup {None}, started : BOOLEAN,
                      confirmed : SUBSET [token : Tokens, pending : SUBSET TierB]]
    <3> DEFINE kept == IF rebuilt THEN {} ELSE session.confirmed
               Confirmations == SUBSET [token : Tokens, pending : SUBSET TierB]
    <3>1. session' = [session EXCEPT !.messages = session.messages + 1, !.started = TRUE,
                                     !.source = current, !.confirmed = kept]
      BY DEF Message
    <3>2. kept \in Confirmations
      BY DEF TypeOK
    <3>3. session \in [messages : Nat, source : Sources \cup {None}, started : BOOLEAN,
                       confirmed : Confirmations]
      BY DEF TypeOK
    <3>4. current \in Sources \cup {None}
      BY DEF TypeOK
    <3> HIDE DEF kept, Confirmations, rebuilt
    <3>5. session' \in [messages : Nat, source : Sources \cup {None}, started : BOOLEAN,
                        confirmed : Confirmations]
      <4> DEFINE counted == session.messages + 1
      <4>1. counted \in Nat
        BY <3>3
      <4> HIDE DEF counted
      <4>2. session' = [messages |-> counted, source |-> current, started |-> TRUE,
                        confirmed |-> kept]
        BY <3>1, <3>3 DEF counted
      <4> QED
        BY <3>2, <3>4, <4>1, <4>2
    <3> QED
      BY <3>5 DEF Confirmations
  <2>2. Kept(rebuilt) \in [message : Messages \cup {None}, shipping : Commands \cup {None},
                           spec : Specs \cup {None}, command : Messages \cup {None}]
    BY DEF Kept, NewBridge, TypeOK
  <2>3. bridge' \in [message : Messages \cup {None}, shipping : Commands \cup {None},
                     spec : Specs \cup {None}, command : Messages \cup {None}]
    <3> DEFINE kept == Kept(rebuilt)
               shipping == CASE text \in Commands -> text
                             [] text = Yes -> kept.shipping
                             [] OTHER -> None
    <3>1. bridge' = [kept EXCEPT !.message = text, !.shipping = shipping]
      BY DEF Message
    <3>2. kept.shipping \in Commands \cup {None}
      BY <2>2
    <3>3. shipping \in Commands \cup {None}
      BY <3>2
    <3> HIDE DEF shipping
    <3> QED
      BY <2>2, <3>1, <3>3
  <2>4. held' \subseteq Specs
    BY DEF Message, TypeOK
  <2> QED
    BY <2>1, <2>3, <2>4 DEF TypeOK, Message
<1>2. SpecInv'
  <2>1. Kept(rebuilt) \in [message : Messages \cup {None}, shipping : Commands \cup {None},
                           spec : Specs \cup {None}, command : Messages \cup {None}]
    BY DEF Kept, NewBridge, TypeOK
  <2>2. bridge'.spec = Kept(rebuilt).spec
    BY <2>1 DEF Message
  <2>3. bridge'.spec \in held' \cup {None}
    BY <2>2 DEF Message, Kept, NewBridge, SpecInv
  <2>4. held' \subseteq held
    BY DEF Message
  <2> QED
    BY <2>3, <2>4 DEF SpecInv
<1>3. CallInv'
  BY IdleCallInv DEF Message
<1> QED
  BY <1>1, <1>2, <1>3

LEMMA SwitchSourceIsSound ==
  ASSUME PipelineIsSound, NEW s \in Sources \cup {None}, SwitchSource(s)
  PROVE  PipelineIsSound'
<1> USE DEF PipelineIsSound
<1>1. call' \in Calls
  <2>1. call \in Calls /\ call' = IF call = Idle THEN call ELSE [call EXCEPT !.calm = FALSE]
    BY DEF SwitchSource, TypeOK
  <2> QED
    BY ONLY <2>1 DEF Calls
<1>2. spent' \in [tools : Nat, switches : Nat, now : Nat]
  BY DEF SwitchSource, TypeOK
<1>3. TypeOK'
  BY <1>1, <1>2 DEF SwitchSource, TypeOK
<1>4. SpecInv'
  BY DEF SwitchSource, SpecInv
<1>5. CallInv'
  <2>1. CASE call = Idle
    BY <2>1, IdleCallInv DEF SwitchSource
  <2>2. CASE call # Idle
    <3>1. /\ call'.stage = call.stage
          /\ call'.arg = call.arg
          /\ call'.command = call.command
          /\ call'.spec = call.spec
          /\ ~call'.calm
          /\ call'.src = call.src
          /\ call'.sig = call.sig
          /\ call'.root = call.root
          /\ call'.added = call.added
          /\ call'.rows = call.rows
          /\ call'.from = call.from
      BY <2>2 DEF SwitchSource, TypeOK, Calls
    <3> QED
      BY <3>1 DEF SwitchSource, CallInv
  <2> QED
    BY <2>1, <2>2
<1> QED
  BY <1>3, <1>4, <1>5

LEMMA TickIsSound ==
  ASSUME PipelineIsSound, Tick
  PROVE  PipelineIsSound'
<1> USE DEF PipelineIsSound
<1>1. spent' \in [tools : Nat, switches : Nat, now : Nat]
  BY DEF Tick, Now, TypeOK
<1>2. TypeOK'
  BY <1>1 DEF Tick, TypeOK
<1>3. SpecInv' /\ CallInv'
  BY DEF Tick, SpecInv, CallInv, Matching
<1> QED
  BY <1>2, <1>3

\* A tool call is counted.
LEMMA ToolSpends ==
  ASSUME TypeOK, Tool
  PROVE  spent' \in [tools : Nat, switches : Nat, now : Nat]
BY DEF TypeOK, Tool

LEMMA ResolveIntentIsSound ==
  ASSUME PipelineIsSound, NEW intent \in Intents, ResolveIntent(intent)
  PROVE  PipelineIsSound'
<1> USE DEF PipelineIsSound
<1> DEFINE sig  == SigOf[current]
           spec == Resolve(intent, session.confirmed, sig, Now)
<1>1. sig \in Signatures /\ Now \in Nat
  BY DEF ResolveIntent, TypeOK, Now
<1>2. /\ spec \in Specs
      /\ spec.token.status = spec.status
      /\ spec.token.root = spec.root
      /\ spec.token.sig = spec.sig
      /\ spec.root = Expanded(intent)
      /\ spec.refs = intent.refs
  BY <1>1, ResolveIsSpec
<1>3. /\ held' = held \cup {spec}
      /\ bridge' = IF spec.status = "RESOLVED" THEN Remember(spec) ELSE Forget
  BY DEF ResolveIntent
<1>4. bridge.message # None => CommandForCache \in Messages
  BY CommandForCacheType
<1>5. CommandForCache \in Messages \cup {None}
  BY DEF TypeOK, CommandForCache, Messages
<1> HIDE DEF spec, sig
<1>6. bridge' \in [message : Messages \cup {None}, shipping : Commands \cup {None},
                   spec : Specs \cup {None}, command : Messages \cup {None}]
  BY <1>2, <1>3, <1>5 DEF Remember, Forget, TypeOK
<1>7. bridge'.spec \in held' \cup {None}
  BY <1>3 DEF Remember, Forget, TypeOK
<1>8. spent' \in [tools : Nat, switches : Nat, now : Nat]
  BY ToolSpends DEF ResolveIntent
<1>9. TypeOK'
  BY <1>2, <1>3, <1>6, <1>8 DEF ResolveIntent, TypeOK
<1>10. SpecInv'
  BY <1>2, <1>3, <1>7 DEF SpecInv
<1>11. CallInv'
  BY IdleCallInv DEF ResolveIntent, Tool
<1> QED
  BY <1>9, <1>10, <1>11

LEMMA ConfirmIsSound ==
  ASSUME PipelineIsSound, NEW old \in held, NEW intent \in Intents, Confirm(old, intent)
  PROVE  PipelineIsSound'
<1> USE DEF PipelineIsSound
<1> DEFINE sig       == SigOf[current]
           initial   == Resolve(intent, {}, sig, Now)
           given     == [token |-> old.token, pending |-> initial.pending]
           confirmed == session.confirmed \cup {given}
           spec      == Resolve(intent, confirmed, sig, Now)
           done      == spec.status = "RESOLVED"
<1>1. sig \in Signatures /\ Now \in Nat
  BY DEF Confirm, TypeOK, Now
<1>2. /\ spec \in Specs
      /\ spec.token.status = spec.status
      /\ spec.token.root = spec.root
      /\ spec.token.sig = spec.sig
      /\ spec.root = Expanded(intent)
      /\ spec.refs = intent.refs
  BY <1>1, ResolveIsSpec
<1>3. initial.pending \in SUBSET TierB
  BY <1>1, ResolveIsSpec DEF Specs
<1>4. /\ session' = [session EXCEPT !.confirmed = confirmed]
      /\ held' = IF done THEN held \cup {spec} ELSE held
      /\ bridge' = IF done THEN Remember(spec) ELSE bridge
      /\ approved' = approved \cup ((old.refs \cap TierB) \X {sig})
  BY DEF Confirm
<1> HIDE DEF spec, initial, sig
<1>5. given \in [token : Tokens, pending : SUBSET TierB]
  BY <1>3 DEF TypeOK, Specs
<1> HIDE DEF given
<1>6. confirmed \in SUBSET [token : Tokens, pending : SUBSET TierB]
  BY <1>5 DEF TypeOK
<1> HIDE DEF confirmed
<1>7. session' \in [messages : Nat, source : Sources \cup {None}, started : BOOLEAN,
                    confirmed : SUBSET [token : Tokens, pending : SUBSET TierB]]
  BY <1>4, <1>6 DEF TypeOK
<1>8. CommandForCache \in Messages \cup {None}
  BY DEF TypeOK, CommandForCache, Messages
<1>9. bridge' \in [message : Messages \cup {None}, shipping : Commands \cup {None},
                   spec : Specs \cup {None}, command : Messages \cup {None}]
  BY <1>2, <1>4, <1>8 DEF Remember, TypeOK
<1>10. bridge'.spec \in held' \cup {None}
  BY <1>4 DEF Remember, TypeOK, SpecInv
<1>11. approved' \subseteq TierB \X Signatures
  BY <1>1, <1>4 DEF TypeOK
<1>12. spent' \in [tools : Nat, switches : Nat, now : Nat]
  BY ToolSpends DEF Confirm
<1>13. TypeOK'
  BY <1>2, <1>4, <1>7, <1>9, <1>11, <1>12 DEF Confirm, TypeOK
<1>14. SpecInv'
  BY <1>2, <1>4, <1>10 DEF SpecInv
<1>15. CallInv'
  BY IdleCallInv DEF Confirm, Tool
<1> QED
  BY <1>13, <1>14, <1>15

LEMMA StartPipelineIsSound ==
  ASSUME PipelineIsSound, NEW arg \in Commands, NEW spec \in held \cup {None},
         NEW all \in BOOLEAN, StartPipeline(arg, spec, all)
  PROVE  PipelineIsSound'
<1> USE DEF PipelineIsSound
<1> DEFINE command == ValidationCommand(arg)
           used    == IF spec = None /\ ~all THEN bridge.spec ELSE spec
           recovered == spec = None /\ ~all
<1>1. /\ command \in Commands
      /\ (spec = None /\ ~all) => bridge.spec # None
      /\ all => ~Implies[command]
      /\ call' = [Idle EXCEPT !.stage = "info", !.arg = arg, !.command = command,
                              !.spec = used, !.recovered = recovered]
  BY DEF StartPipeline, MayRecover
<1>2. used \in held \cup {None}
  BY DEF SpecInv
<1>3. used = None => ~Implies[command]
  BY <1>1
<1>4. used \in Specs \cup {None} /\ recovered \in BOOLEAN
  BY <1>2 DEF TypeOK
<1> HIDE DEF command, used, recovered
<1>5. call' \in Calls
  BY <1>1, <1>4, IdleIsCall DEF Calls
<1>6. spent' \in [tools : Nat, switches : Nat, now : Nat]
  BY ToolSpends DEF StartPipeline
<1>7. TypeOK'
  BY <1>5, <1>6 DEF StartPipeline, TypeOK
<1>8. SpecInv'
  BY DEF StartPipeline, SpecInv
<1>9. /\ call'.stage = "info"
      /\ call'.arg = arg
      /\ call'.command = command
      /\ call'.spec = used
      /\ call'.root = AllRows
      /\ call'.added = {}
  BY <1>1 DEF Idle
<1>10. held' = held
  BY DEF StartPipeline
<1>11. CallInv'
  BY <1>1, <1>2, <1>3, <1>9, <1>10 DEF CallInv
<1> QED
  BY <1>7, <1>8, <1>11

LEMMA ReadInfoIsSound ==
  ASSUME PipelineIsSound, ReadInfo
  PROVE  PipelineIsSound'
<1> USE DEF PipelineIsSound
<1> DEFINE sig   == SigOf[current]
           extra == Missing(call.spec.root, Wants[call.command])
<1>1. /\ call.stage = "info"
      /\ {call.arg, call.command} \subseteq Commands
      /\ call.spec \in held \cup {None}
      /\ call.spec = None => ~Implies[call.command]
      /\ call.root = AllRows
      /\ call.added = {}
  BY DEF ReadInfo, CallInv
<1>2. held' = held /\ UNCHANGED <<current, session, bridge, jobs, approved, spent>>
  BY DEF ReadInfo
<1>3. CASE call' = Idle
  <2>1. TypeOK'
    BY <1>2, <1>3, IdleIsCall DEF TypeOK
  <2>2. SpecInv'
    BY <1>2 DEF SpecInv
  <2> QED
    BY <1>3, <2>1, <2>2, IdleCallInv
<1>4. CASE /\ current \in Stable
           /\ call.spec = None
           /\ call' = [call EXCEPT !.stage = "rows", !.calm = TRUE,
                                   !.src = current, !.sig = sig]
  <2>1. current \in Sources /\ sig \in Signatures
    BY <1>4
  <2> DEFINE settled == [stage |-> "rows", arg |-> call.arg, command |-> call.command,
                         spec |-> call.spec, recovered |-> call.recovered, calm |-> TRUE,
                         src |-> current, sig |-> sig, root |-> call.root,
                         added |-> call.added, total |-> call.total, rows |-> call.rows,
                         from |-> call.from]
  <2> HIDE DEF sig
  <2>2. call' \in Calls
    <3>1. call' = settled
      BY <1>4 DEF TypeOK, Calls
    <3>2. settled \in Calls
      BY <2>1 DEF TypeOK, Calls
    <3> QED
      BY <3>1, <3>2
  <2>3. /\ call'.stage = "rows"
        /\ call'.arg = call.arg
        /\ call'.command = call.command
        /\ call'.spec = None
        /\ call'.src = current
        /\ call'.sig = sig
        /\ call'.root = AllRows
        /\ call'.added = {}
    BY <1>1, <1>4 DEF TypeOK, Calls
  <2>4. TypeOK'
    BY <1>2, <2>2 DEF TypeOK
  <2>5. SpecInv'
    BY <1>2 DEF SpecInv
  <2>6. CallInv'
    BY <1>1, <1>2, <1>4, <2>1, <2>3 DEF CallInv, sig
  <2> QED
    BY <2>4, <2>5, <2>6
<1>5. CASE /\ current \in Stable
           /\ call.spec # None
           /\ Accepts(call.spec, call.command, sig)
           /\ call' = [call EXCEPT !.stage = "rows", !.calm = TRUE,
                                   !.src = current, !.sig = sig, !.added = extra,
                                   !.root = Enforcing(call.spec.root, extra)]
  <2>1. current \in Sources /\ sig \in Signatures
    BY <1>5
  <2>2. call.spec \in Specs /\ call.spec.root \in Roots
    BY <1>1, <1>5 DEF TypeOK, Specs
  <2>3. extra \subseteq Conditions /\ Enforcing(call.spec.root, extra) \in Roots
    BY <1>1, <2>2, EnforcingIsRoot
  <2> DEFINE root == Enforcing(call.spec.root, extra)
             settled == [stage |-> "rows", arg |-> call.arg, command |-> call.command,
                         spec |-> call.spec, recovered |-> call.recovered, calm |-> TRUE,
                         src |-> current, sig |-> sig, root |-> root, added |-> extra,
                         total |-> call.total, rows |-> call.rows, from |-> call.from]
  <2>4. call' \in Calls
    <3>1. root \in Roots /\ extra \in SUBSET Conditions
      BY <2>3
    <3> HIDE DEF sig, extra, root
    <3>2. call' = settled
      BY <1>5 DEF root, TypeOK, Calls
    <3>3. settled \in Calls
      BY <2>1, <3>1 DEF TypeOK, Calls
    <3> QED
      BY <3>2, <3>3
  <2> HIDE DEF sig, extra
  <2>5. /\ call'.stage = "rows"
        /\ call'.arg = call.arg
        /\ call'.command = call.command
        /\ call'.spec = call.spec
        /\ call'.src = current
        /\ call'.sig = sig
        /\ call'.root = Enforcing(call.spec.root, extra)
        /\ call'.added = extra
    BY <1>5 DEF TypeOK, Calls
  <2>6. TypeOK'
    BY <1>2, <2>4 DEF TypeOK
  <2>7. SpecInv'
    BY <1>2 DEF SpecInv
  <2>8. CallInv'
    BY <1>1, <1>2, <1>5, <2>1, <2>5 DEF CallInv, sig, extra
  <2> QED
    BY <2>6, <2>7, <2>8
<1> QED
  BY <1>3, <1>4, <1>5 DEF ReadInfo, Refuse

\* The rows of a source that a filter selects are finitely many.
LEMMA MatchingIsFinite ==
  ASSUME TypeOK, current # None
  PROVE  IsFiniteSet(Matching) /\ Cardinality(Matching) \in Nat
         /\ Matching \in SUBSET Orders
<1>1. current \in Sources
  BY DEF TypeOK
<1>2. Matching \subseteq RowsOf[current] /\ IsFiniteSet(RowsOf[current])
  BY <1>1 DEF Matching
<1>3. IsFiniteSet(Matching)
  BY <1>2, FS_Subset
<1>4. Matching \in SUBSET Orders
  BY <1>1, <1>2
<1> QED
  BY <1>3, <1>4, FS_CardinalityType

\* The least of two equal numbers.
LEMMA MinOfEquals ==
  ASSUME NEW n \in Nat
  PROVE  Min({n, n}) = n
BY DEF Min

LEMMA FetchRowsIsSound ==
  ASSUME PipelineIsSound, FetchRows
  PROVE  PipelineIsSound'
<1> USE DEF PipelineIsSound
<1>1. UNCHANGED <<current, session, bridge, held, jobs, approved, spent>>
  BY DEF FetchRows
<1>2. SpecInv'
  BY <1>1 DEF SpecInv
<1>3. ASSUME call' \in Calls PROVE TypeOK'
  BY <1>1, <1>3 DEF TypeOK
<1>4. CASE call' = Idle
  BY <1>2, <1>3, <1>4, IdleIsCall, IdleCallInv
<1>5. CASE /\ Queryable
           /\ call' = [call EXCEPT !.stage = "job", !.rows = Matching, !.from = current]
  <2>1. current \in Sources /\ Matching \in SUBSET Orders
    BY <1>5, MatchingIsFinite DEF Queryable, TypeOK
  <2>2. call' \in Calls
    BY <1>5, <2>1 DEF TypeOK, Calls
  <2>3. /\ call'.stage = "job"
        /\ call'.arg = call.arg
        /\ call'.command = call.command
        /\ call'.spec = call.spec
        /\ call'.calm = call.calm
        /\ call'.src = call.src
        /\ call'.sig = call.sig
        /\ call'.root = call.root
        /\ call'.added = call.added
        /\ call'.rows = Matching
        /\ call'.from = current
    BY <1>5 DEF TypeOK, Calls
  <2>4. Matching' = Matching
    BY <1>1, <2>3 DEF Matching
  <2>5. \A o \in Matching : Selects(call.root, o)
    BY DEF Matching
  <2>6. CallInv'
    BY <1>1, <2>1, <2>3, <2>4, <2>5 DEF CallInv, FetchRows
  <2> QED
    BY <1>2, <1>3, <2>2, <2>6
<1>6. CASE /\ Queryable
           /\ call' = [call EXCEPT !.stage = "more", !.total = Cardinality(Matching)]
  <2>1. current \in Sources /\ Cardinality(Matching) \in Nat
    BY <1>6, MatchingIsFinite DEF Queryable, TypeOK
  <2>2. call' \in Calls
    BY <1>6, <2>1 DEF TypeOK, Calls
  <2>3. /\ call'.stage = "more"
        /\ call'.arg = call.arg
        /\ call'.command = call.command
        /\ call'.spec = call.spec
        /\ call'.calm = call.calm
        /\ call'.src = call.src
        /\ call'.sig = call.sig
        /\ call'.root = call.root
        /\ call'.added = call.added
        /\ call'.total = Cardinality(Matching)
    BY <1>6 DEF TypeOK, Calls
  <2>4. Matching' = Matching
    BY <1>1, <2>3 DEF Matching
  <2>5. CallInv'
    BY <1>1, <2>1, <2>3, <2>4 DEF CallInv, FetchRows
  <2> QED
    BY <1>2, <1>3, <2>2, <2>5
<1> QED
  BY <1>4, <1>5, <1>6 DEF FetchRows, Refuse

LEMMA FetchMoreIsSound ==
  ASSUME PipelineIsSound, FetchMore
  PROVE  PipelineIsSound'
<1> USE DEF PipelineIsSound
<1>1. UNCHANGED <<current, session, bridge, held, jobs, approved, spent>>
  BY DEF FetchMore
<1>2. SpecInv'
  BY <1>1 DEF SpecInv
<1>3. ASSUME call' \in Calls PROVE TypeOK'
  BY <1>1, <1>3 DEF TypeOK
<1>4. CASE call' = Idle
  BY <1>2, <1>3, <1>4, IdleIsCall, IdleCallInv
<1>5. CASE call' # Idle
  <2>1. Queryable
    BY <1>5 DEF FetchMore, Refuse
  <2>2. PICK rows \in SUBSET Matching :
          /\ Cardinality(rows) = Min({call.total, Cardinality(Matching)})
          /\ call' = [call EXCEPT !.stage = "job", !.rows = rows, !.from = current]
    BY <1>5 DEF FetchMore, Refuse
  <2>3. /\ current \in Sources
        /\ IsFiniteSet(Matching)
        /\ Cardinality(Matching) \in Nat
        /\ Matching \in SUBSET Orders
    BY <2>1, MatchingIsFinite DEF Queryable, TypeOK
  <2>4. call' \in Calls
    BY <2>2, <2>3 DEF TypeOK, Calls
  <2>5. /\ call'.stage = "job"
        /\ call'.arg = call.arg
        /\ call'.command = call.command
        /\ call'.spec = call.spec
        /\ call'.calm = call.calm
        /\ call'.src = call.src
        /\ call'.sig = call.sig
        /\ call'.root = call.root
        /\ call'.added = call.added
        /\ call'.rows = rows
        /\ call'.from = current
    BY <2>2 DEF TypeOK, Calls
  <2>6. call.calm => rows = Matching
    <3> SUFFICES ASSUME call.calm PROVE rows = Matching
      OBVIOUS
    <3>1. call.total = Cardinality(Matching)
      BY DEF CallInv, FetchMore
    <3>2. Cardinality(rows) = Cardinality(Matching)
      BY <2>2, <2>3, <3>1, MinOfEquals
    <3> QED
      BY <2>3, <3>2, FS_Subset
  <2>7. Matching' = Matching
    BY <1>1, <2>5 DEF Matching
  <2>8. \A o \in rows : Selects(call.root, o)
    BY DEF Matching
  <2>9. CallInv'
    BY <1>1, <2>3, <2>5, <2>6, <2>7, <2>8 DEF CallInv, FetchMore
  <2> QED
    BY <1>2, <1>3, <2>4, <2>9
<1> QED
  BY <1>4, <1>5

\* A job holds what its call settled.
LEMMA JobType ==
  ASSUME PipelineIsSound, call.stage = "job",
         NEW rows \in SUBSET Orders, NEW state \in {"previewed", "unpriced", "empty"}
  PROVE  Job(state, rows) \in Jobs
<1>1. /\ call.arg \in Commands /\ call.command \in Commands
      /\ call.root \in Roots /\ call.added \in SUBSET Conditions
      /\ call.src \in Sources /\ call.from \in Sources
      /\ call.sig \in Signatures /\ call.calm \in BOOLEAN
  BY DEF PipelineIsSound, TypeOK, CallInv, Calls
<1>2. (IF call.spec = None THEN {} ELSE call.spec.refs) \in SUBSET (TierB \cup {Unknown})
  BY DEF PipelineIsSound, TypeOK, Calls, Specs
<1> QED
  BY <1>1, <1>2 DEF Job, Jobs

LEMMA CreateJobIsSound ==
  ASSUME PipelineIsSound, CreateJob
  PROVE  PipelineIsSound'
<1> USE DEF PipelineIsSound
<1>1. UNCHANGED <<current, session, held, approved, spent>> /\ call' = Idle
  BY DEF CreateJob
<1>2. call.rows \in SUBSET Orders
  BY DEF TypeOK, Calls
<1>3. jobs' \subseteq Jobs
  BY <1>2, JobType DEF CreateJob, TypeOK
<1>4. bridge' \in [message : Messages \cup {None}, shipping : Commands \cup {None},
                   spec : Specs \cup {None}, command : Messages \cup {None}]
  BY DEF CreateJob, TypeOK
<1>5. bridge'.spec = bridge.spec
  BY DEF CreateJob, TypeOK
<1>6. TypeOK'
  BY <1>1, <1>3, <1>4, IdleIsCall DEF TypeOK
<1>7. SpecInv'
  BY <1>1, <1>5 DEF SpecInv
<1> QED
  BY <1>1, <1>6, <1>7, IdleCallInv

\* Every step of the conversation, its tools and its sources keeps it sound.
LEMMA StepIsSound ==
  ASSUME PipelineIsSound, [Next]_vars
  PROVE  PipelineIsSound'
<1>1. CASE UNCHANGED vars
  BY <1>1 DEF vars, PipelineIsSound, TypeOK, SpecInv, CallInv, Matching
<1>2. CASE \E text \in Messages : Message(text)
  BY <1>2, MessageIsSound
<1>3. CASE \E s \in Sources \cup {None} : SwitchSource(s)
  BY <1>3, SwitchSourceIsSound
<1>4. CASE \E intent \in Intents : ResolveIntent(intent)
  BY <1>4, ResolveIntentIsSound
<1>5. CASE \E old \in held, intent \in Intents : Confirm(old, intent)
  BY <1>5, ConfirmIsSound
<1>6. CASE \E arg \in Commands, spec \in held \cup {None}, all \in BOOLEAN :
             StartPipeline(arg, spec, all)
  BY <1>6, StartPipelineIsSound
<1>7. CASE Tick \/ PipelineStep
  BY <1>7, TickIsSound, ReadInfoIsSound, FetchRowsIsSound, FetchMoreIsSound,
     CreateJobIsSound DEF PipelineStep
<1> QED
  BY <1>1, <1>2, <1>3, <1>4, <1>5, <1>6, <1>7 DEF Next

\* At every await a call has settled what the code relies on after it, the
\* agent holds only specs that read an intent, and the bridge recovers none of
\* another agent's.
THEOREM PipelineStaysSound == Spec => []PipelineIsSound
<1>1. Init => PipelineIsSound
  BY InitIsSound
<1>2. PipelineIsSound /\ [Next]_vars => PipelineIsSound'
  BY StepIsSound
<1> QED
  BY <1>1, <1>2, PTL DEF Spec

-----------------------------------------------------------------------------
\* The rows of a job.

\* Only the last step of a call makes a job, and it records what the call
\* settled, with all its rows or none.
LEMMA OnlyCallsMakeJobs ==
  ASSUME [Next]_vars, NEW j \in jobs', j \notin jobs
  PROVE  /\ CreateJob
         /\ call.stage = "job"
         /\ \/ \E state \in {"previewed", "unpriced"} : j = Job(state, call.rows)
            \/ j = Job("empty", {})
<1>1. jobs' # jobs
  OBVIOUS
<1>2. CreateJob
  <2>1. \A text \in Messages : ~Message(text)
    BY <1>1 DEF Message
  <2>2. \A s \in Sources \cup {None} : ~SwitchSource(s)
    BY <1>1 DEF SwitchSource
  <2>3. ~Tick /\ ~ReadInfo /\ ~FetchRows /\ ~FetchMore /\ ~UNCHANGED vars
    BY <1>1 DEF Tick, ReadInfo, FetchRows, FetchMore, vars
  <2>4. \A intent \in Intents : ~ResolveIntent(intent)
    BY <1>1 DEF ResolveIntent
  <2>5. \A old \in held, intent \in Intents : ~Confirm(old, intent)
    BY <1>1 DEF Confirm
  <2>6. \A arg \in Commands, spec \in held \cup {None}, all \in BOOLEAN :
          ~StartPipeline(arg, spec, all)
    BY <1>1 DEF StartPipeline
  <2>7. Next
    BY <2>3
  <2>8. CASE \E text \in Messages : Message(text)
    BY <2>1, <2>8
  <2>9. CASE \E s \in Sources \cup {None} : SwitchSource(s)
    BY <2>2, <2>9
  <2>10. CASE \E intent \in Intents : ResolveIntent(intent)
    BY <2>4, <2>10
  <2>11. CASE \E old \in held, intent \in Intents : Confirm(old, intent)
    BY <2>5, <2>11
  <2>12. CASE \E arg \in Commands, spec \in held \cup {None}, all \in BOOLEAN :
               StartPipeline(arg, spec, all)
    BY <2>6, <2>12
  <2> QED
    BY <2>3, <2>7, <2>8, <2>9, <2>10, <2>11, <2>12 DEF Next, PipelineStep
<1> QED
  BY <1>2 DEF CreateJob

\* A call whose source stayed in place ships every row of it that its filter
\* selects and no other: the count taken with the first page, the second query
\* and the sources that come and go never make a page pass for the match set.
THEOREM JobsShipTheirMatchSet == Spec => []JobShipsItsMatchSet
<1> DEFINE Inv == PipelineIsSound /\ JobShipsItsMatchSet
<1>1. Init => Inv
  BY InitIsSound DEF Init, JobShipsItsMatchSet
<1>2. ASSUME Inv, [Next]_vars PROVE Inv'
  <2>1. PipelineIsSound'
    BY <1>2, StepIsSound
  <2>2. ASSUME NEW j \in jobs', j.calm, j.state # "empty"
        PROVE  j.rows = {o \in RowsOf[j.src] : Selects(j.root, o)}
    <3>1. CASE j \in jobs
      BY <1>2, <2>2, <3>1 DEF JobShipsItsMatchSet
    <3>2. CASE j \notin jobs
      <4>1. call.stage = "job" /\ \E state \in {"previewed", "unpriced"} : j = Job(state, call.rows)
        BY <1>2, <2>2, <3>2, OnlyCallsMakeJobs DEF Job
      <4>2. /\ j.calm = call.calm
            /\ j.rows = call.rows
            /\ j.src = call.src
            /\ j.root = call.root
        BY <4>1 DEF Job
      <4>3. call.rows = Matching /\ current = call.src
        BY <1>2, <2>2, <4>1, <4>2 DEF PipelineIsSound, CallInv
      <4> QED
        BY <4>2, <4>3 DEF Matching
    <3> QED
      BY <3>1, <3>2
  <2>3. JobShipsItsMatchSet'
    BY <2>2 DEF JobShipsItsMatchSet
  <2> QED
    BY <2>1, <2>3
<1>3. Inv => JobShipsItsMatchSet
  OBVIOUS
<1> QED
  BY <1>1, <1>2, <1>3, PTL DEF Spec

-----------------------------------------------------------------------------
\* The filter of the command.

\* What the words of a command ask for shows in them: _command_implies_filter
\* sees every filter the command names.  It misses a state given by its code.
WordsShowTheirFilter ==
  \A command \in Commands : ~Implies[command] =>
    /\ Needs[command] = {}
    /\ \A col \in Enforced : Wants[command][col] = {}

\* A careful agent's filters: conditions joined by AND that ask for values and
\* exclude none, for a single state or status (of a column whose bounds are
\* compared, for any), and no two columns share the values of a region.
OfIntents == UNION {i.conds : i \in Intents}
OfTerms   == {Expansion[r] : r \in TierB}
Asked     == OfIntents \cup OfTerms
CarefulIntents ==
  /\ \A i \in Intents : i.logic = "AND"
  /\ \A c \in Asked :
       ~c.neg /\ (c.col \in Enforced \ Bounds => \E v \in Values : c.vals = {v})
  /\ \A c \in Asked, r \in TierB :
       c.vals # {} /\ c.vals \subseteq Expansion[r].vals => c.col = Expansion[r].col

\* A condition that asks for part of what another asks for, on the same column,
\* implies it.
LEMMA NarrowerImplies ==
  ASSUME NEW o \in Orders, NEW c \in Conditions, NEW d \in Conditions,
         ~c.neg, ~d.neg, c.col = d.col, c.vals \subseteq d.vals, Matches(o, c)
  PROVE  Matches(o, d)
BY DEF Matches, Conditions

\* A condition that excludes nothing holds of the rows with one of its values.
LEMMA AskedHolds ==
  ASSUME NEW o \in Orders, NEW c \in Conditions, ~c.neg, Matches(o, c)
  PROVE  Attr[o][c.col] \in c.vals
BY DEF Matches, Conditions

\* Whatever an intent or a term stands for is asked.
LEMMA WhatIsAsked ==
  /\ \A i \in Intents : i.conds \subseteq Asked
  /\ \A r \in TierB : Expansion[r] \in Asked
  /\ Asked \subseteq Conditions
<1>1. \A i \in Intents : i.conds \subseteq OfIntents
  BY DEF OfIntents
<1>2. \A r \in TierB : Expansion[r] \in OfTerms
  BY DEF OfTerms
<1>3. OfIntents \subseteq Conditions
  <2>1. \A i \in Intents : i.conds \subseteq Conditions
    BY DEF AllIntents
  <2> QED
    BY <2>1 DEF OfIntents
<1>4. OfTerms \subseteq Conditions
  BY DEF OfTerms
<1> QED
  BY <1>1, <1>2, <1>3, <1>4 DEF Asked

\* The rows a careful agent's call selects are the ones its command names.
LEMMA CallRowsMatch ==
  ASSUME PipelineIsSound, WordsShowTheirFilter, CarefulIntents,
         call.stage = "job", NEW o \in call.rows
  PROVE  /\ \A col \in Enforced :
              Wants[call.command][col] # {} => Attr[o][col] \in Wants[call.command][col]
         /\ \A r \in Needs[call.command] : Matches(o, Expansion[r])
<1> DEFINE want == Wants[call.command]
           need == Needs[call.command]
<1>1. /\ call.command \in Commands
      /\ call.spec \in held \cup {None}
      /\ call.spec = None => ~Implies[call.command]
      /\ Selects(call.root, o)
      /\ o \in Orders
  BY DEF PipelineIsSound, CallInv, TypeOK, Calls
<1>2. CASE call.spec = None
  BY <1>1, <1>2 DEF WordsShowTheirFilter
<1>3. CASE call.spec # None
  <2> DEFINE root  == call.spec.root
             extra == Missing(root, want)
  <2>1. /\ Accepts(call.spec, call.command, call.sig)
        /\ call.root = Enforcing(root, extra)
    BY <1>3 DEF PipelineIsSound, CallInv
  <2>2. PICK intent \in Intents : root = Expanded(intent)
    BY <1>1, <1>3 DEF PipelineIsSound, SpecInv
  <2>3. root.logic = "AND" /\ root.conds \subseteq Asked
    <3>1. /\ root.logic = intent.logic
          /\ root.conds = intent.conds \cup {Expansion[r] : r \in intent.refs \cap TierB}
      BY <2>2 DEF Expanded
    <3> QED
      BY <3>1, WhatIsAsked DEF CarefulIntents
  <2>4. Asked \subseteq Conditions
    BY WhatIsAsked
  <2>5. \A c \in root.conds \cup extra : Matches(o, c)
    <3>1. call.root.logic = "AND" /\ call.root.conds = root.conds \cup extra
      BY <2>1, <2>3 DEF Enforcing
    <3> QED
      BY <1>1, <3>1 DEF Selects
  <2>6. ASSUME NEW col \in Enforced, want[col] # {}
        PROVE  Attr[o][col] \in want[col]
    <3>1. CASE On(root, col) = {}
      <4>1. [col |-> col, vals |-> want[col], neg |-> FALSE] \in extra
        BY <2>6, <3>1 DEF Missing
      <4>2. Matches(o, [col |-> col, vals |-> want[col], neg |-> FALSE])
        BY <2>5, <4>1
      <4>3. [col |-> col, vals |-> want[col], neg |-> FALSE] \in Conditions
        BY <1>1 DEF Conditions
      <4> QED
        BY <1>1, <4>2, <4>3, AskedHolds
    <3>2. CASE On(root, col) # {}
      <4>1. \A c \in On(root, col) :
              c \in root.conds /\ c \in Asked /\ c.col = col /\ Matches(o, c)
        BY <2>3, <2>5 DEF On
      <4>2. ASSUME NEW c \in On(root, col)
            PROVE  /\ Attr[o][col] \in c.vals
                   /\ col \notin Bounds => c.vals = {Attr[o][col]}
        <5>1. ~c.neg /\ c \in Conditions /\ (col \notin Bounds => \E v \in Values : c.vals = {v})
          BY <2>4, <4>1 DEF CarefulIntents
        <5>2. Attr[o][col] \in c.vals
          BY <1>1, <4>1, <5>1, AskedHolds
        <5> QED
          BY <5>1, <5>2
      <4>3. /\ Attr[o][col] \in Listed(root, col)
            /\ col \notin Bounds => Listed(root, col) = {Attr[o][col]}
        BY <3>2, <4>2 DEF Listed
      <4>4. ~Mismatch(root, col, want[col])
        BY <2>1 DEF Accepts
      <4> QED
        BY <2>6, <3>2, <4>3, <4>4 DEF Mismatch
    <3> QED
      BY <3>1, <3>2
  <2>7. ASSUME NEW r \in need PROVE Matches(o, Expansion[r])
    <3>1. PICK c \in root.conds : c.vals # {} /\ c.vals \subseteq Expansion[r].vals
      BY <2>1, <2>7 DEF Accepts, Includes
    <3>2. r \in TierB /\ Expansion[r] \in Asked
      BY <1>1, WhatIsAsked
    <3>3. /\ c \in Asked
          /\ ~c.neg /\ ~Expansion[r].neg
          /\ c.col = Expansion[r].col
      BY <2>3, <3>1, <3>2 DEF CarefulIntents
    <3>4. c \in Conditions /\ Expansion[r] \in Conditions
      BY <2>4, <3>2, <3>3
    <3> QED
      BY <1>1, <2>5, <3>1, <3>3, <3>4, NarrowerImplies
  <2> QED
    BY <2>6, <2>7
<1> QED
  BY <1>2, <1>3

\* Whatever spec the agent passed or the bridge recovered, and whatever source
\* came between, each row of a job is one its command asked for, as long as the
\* command's words show its filter and the agent's intents are conjunctions
\* (the runs EnforcedFilter and StateCode show what happens otherwise).
THEOREM RowsMatchTheirCommand ==
  ASSUME WordsShowTheirFilter, CarefulIntents
  PROVE  Spec => []JobRowsMatchCommand
<1> DEFINE Inv == PipelineIsSound /\ JobRowsMatchCommand
<1>1. Init => Inv
  BY InitIsSound DEF Init, JobRowsMatchCommand
<1>2. ASSUME Inv, [Next]_vars PROVE Inv'
  <2>1. PipelineIsSound'
    BY <1>2, StepIsSound
  <2>2. ASSUME NEW j \in jobs', NEW o \in j.rows
        PROVE  /\ \A col \in Enforced :
                    Wants[j.command][col] # {} => Attr[o][col] \in Wants[j.command][col]
               /\ \A r \in Needs[j.command] : Matches(o, Expansion[r])
    <3>1. CASE j \in jobs
      BY <1>2, <2>2, <3>1 DEF JobRowsMatchCommand
    <3>2. CASE j \notin jobs
      <4>1. call.stage = "job" /\ \E state \in {"previewed", "unpriced"} : j = Job(state, call.rows)
        BY <1>2, <2>2, <3>2, OnlyCallsMakeJobs DEF Job
      <4>2. j.command = call.command /\ j.rows = call.rows
        BY <4>1 DEF Job
      <4> QED
        BY <1>2, <2>2, <4>1, <4>2, CallRowsMatch
    <3> QED
      BY <3>1, <3>2
  <2>3. JobRowsMatchCommand'
    BY <2>2 DEF JobRowsMatchCommand, Matches
  <2> QED
    BY <2>1, <2>3
<1>3. Inv => JobRowsMatchCommand
  OBVIOUS
<1> QED
  BY <1>1, <1>2, <1>3, PTL DEF Spec

-----------------------------------------------------------------------------
\* The user's confirmations.

\* The agent names the terms a user used: no intent spells out the conditions
\* that another gives as terms.
TermsAreNamed ==
  \A i, k \in Intents :
    Expanded(i) = Expanded(k) /\ i.refs \cap TierB # {} =>
      k.refs \cap TierB = i.refs \cap TierB

\* A stored confirmation names what it confirms, and the user was asked.
AskedAbout(confirmed, asked) ==
  \A given \in confirmed :
    given.pending # {} /\ given.pending \X {given.token.sig} \subseteq asked

\* A spec that waits names a term, one that is resolved names only terms the
\* user was asked about, and a stored confirmation names what it confirms.
ApprovalInv ==
  /\ \A spec \in held :
       /\ spec.status = "NEEDS_CONFIRMATION" => spec.refs \cap TierB # {}
       /\ spec.status = "RESOLVED" => (spec.refs \cap TierB) \X {spec.sig} \subseteq approved
  /\ AskedAbout(session.confirmed, approved)

\* What a resolution needs or has: terms to ask about, or approved ones.
LEMMA ResolveIsApproved ==
  ASSUME NEW intent \in AllIntents, NEW confirmed, NEW sig \in Signatures,
         NEW now \in Nat, NEW asked,
         AskedAbout(confirmed, asked)
  PROVE  /\ Status(intent, confirmed, sig, now) = "NEEDS_CONFIRMATION" =>
              intent.refs \cap TierB # {}
         /\ Status(intent, confirmed, sig, now) = "RESOLVED" =>
              (intent.refs \cap TierB) \X {sig} \subseteq asked
<1> DEFINE status  == Status(intent, confirmed, sig, now)
           waiting == Pending(intent, confirmed, sig, now)
<1>1. status = "NEEDS_CONFIRMATION" => waiting # {}
  BY DEF Status
<1>2. status = "RESOLVED" => waiting = {}
  BY DEF Status
<1>3. waiting \subseteq intent.refs \cap TierB
  BY DEF Pending
<1>4. ASSUME waiting = {}, NEW r \in intent.refs \cap TierB
      PROVE  <<r, sig>> \in asked
  <2>1. IsConfirmed(r, confirmed, sig, now)
    BY <1>4 DEF Pending
  <2>2. PICK given \in confirmed :
          ValidToken(given.token, sig, now) /\ (given.pending = {} \/ r \in given.pending)
    BY <2>1 DEF IsConfirmed
  <2>3. r \in given.pending /\ given.token.sig = sig
    BY <2>2 DEF ValidToken, AskedAbout
  <2> QED
    BY <2>2, <2>3 DEF AskedAbout
<1>5. waiting = {} => (intent.refs \cap TierB) \X {sig} \subseteq asked
  BY <1>4
<1> HIDE DEF waiting, status
<1> QED
  BY <1>1, <1>2, <1>3, <1>5 DEF status

\* The references of the spec a call ships with.
CallRefs == IF call.spec = None THEN {} ELSE call.spec.refs

\* The terms of a job's spec are ones the user was asked about.
LEMMA CallIsApproved ==
  ASSUME PipelineIsSound, ApprovalInv, call.stage = "job"
  PROVE  (CallRefs \cap TierB) \X {call.sig} \subseteq approved
<1>1. CASE call.spec = None
  BY <1>1 DEF CallRefs
<1>2. CASE call.spec # None
  <2>1. call.spec \in held /\ Accepts(call.spec, call.command, call.sig)
    BY <1>2 DEF PipelineIsSound, CallInv
  <2>2. call.spec.status = "RESOLVED" /\ call.spec.sig = call.sig
    BY <2>1 DEF Accepts, Compiles
  <2> QED
    BY <1>2, <2>1, <2>2 DEF ApprovalInv, CallRefs
<1> QED
  BY <1>1, <1>2

LEMMA ConfirmKeepsApprovals ==
  ASSUME TermsAreNamed, PipelineIsSound, ApprovalInv,
         NEW old \in held, NEW intent \in Intents, Confirm(old, intent)
  PROVE  ApprovalInv'
<1> DEFINE sig       == SigOf[current]
           initial   == Resolve(intent, {}, sig, Now)
           given     == [token |-> old.token, pending |-> initial.pending]
           confirmed == session.confirmed \cup {given}
           spec      == Resolve(intent, confirmed, sig, Now)
           terms     == old.refs \cap TierB
<1>1. sig \in Signatures /\ Now \in Nat
  BY DEF Confirm, PipelineIsSound, TypeOK, Now
<1>2. /\ session' = [session EXCEPT !.confirmed = confirmed]
      /\ held' \subseteq held \cup {spec}
      /\ approved' = approved \cup (terms \X {sig})
  BY DEF Confirm
<1>3. initial.pending = intent.refs \cap TierB
  <2>1. initial.pending = Pending(intent, {}, sig, Now)
    BY <1>1, ResolveIsSpec
  <2>2. Pending(intent, {}, sig, Now) = intent.refs \cap TierB
    BY DEF Pending, IsConfirmed
  <2> QED
    BY <2>1, <2>2
<1>4. /\ old.status = "NEEDS_CONFIRMATION"
      /\ Expanded(intent) = old.root
      /\ old.token.sig = sig
  BY DEF Confirm, Confirmable, ValidToken, PipelineIsSound, SpecInv
<1>5. PICK first \in Intents : old.root = Expanded(first) /\ old.refs = first.refs
  BY DEF PipelineIsSound, SpecInv
<1>6. terms # {}
  BY <1>4 DEF ApprovalInv
<1>7. intent.refs \cap TierB = terms
  BY <1>4, <1>5, <1>6 DEF TermsAreNamed
<1> HIDE DEF initial, spec, sig
<1>8. given.pending = terms /\ given.token.sig = sig
  BY <1>3, <1>4, <1>7
<1> HIDE DEF given, terms
<1>9. AskedAbout(confirmed, approved')
  <2>1. given.pending # {} /\ given.pending \X {given.token.sig} \subseteq approved'
    BY <1>2, <1>6, <1>8
  <2>2. \A g \in session.confirmed :
          g.pending # {} /\ g.pending \X {g.token.sig} \subseteq approved'
    BY <1>2 DEF ApprovalInv, AskedAbout
  <2> QED
    BY <2>1, <2>2 DEF AskedAbout
<1>10. session'.confirmed = confirmed
  BY <1>2 DEF PipelineIsSound, TypeOK
<1> HIDE DEF confirmed
<1>11. intent \in AllIntents
  OBVIOUS
<1>12. /\ spec.status = "NEEDS_CONFIRMATION" => spec.refs \cap TierB # {}
       /\ spec.status = "RESOLVED" =>
            (spec.refs \cap TierB) \X {spec.sig} \subseteq approved'
  <2>1. /\ spec.status = Status(intent, confirmed, sig, Now)
        /\ spec.refs = intent.refs
        /\ spec.sig = sig
    BY <1>1, <1>11, ResolveIsSpec DEF spec
  <2>2. /\ Status(intent, confirmed, sig, Now) = "NEEDS_CONFIRMATION" =>
             intent.refs \cap TierB # {}
        /\ Status(intent, confirmed, sig, Now) = "RESOLVED" =>
             (intent.refs \cap TierB) \X {sig} \subseteq approved'
    BY <1>1, <1>9, <1>11, ResolveIsApproved
  <2> QED
    BY <2>1, <2>2
<1>13. approved \subseteq approved'
  BY <1>2
<1> QED
  BY <1>2, <1>9, <1>10, <1>12, <1>13 DEF ApprovalInv

LEMMA StepKeepsApprovals ==
  ASSUME TermsAreNamed, PipelineIsSound, ApprovalInv, [Next]_vars
  PROVE  ApprovalInv' /\ approved \subseteq approved'
<1>1. ASSUME held' \subseteq held, session'.confirmed \subseteq session.confirmed,
             approved' = approved
      PROVE  ApprovalInv' /\ approved \subseteq approved'
  BY <1>1 DEF ApprovalInv, AskedAbout
<1>2. ASSUME NEW text \in Messages, Message(text) PROVE ApprovalInv' /\ approved \subseteq approved'
  <2>1. held' \subseteq held /\ approved' = approved
    BY <1>2 DEF Message
  <2>2. session'.confirmed \subseteq session.confirmed
    BY <1>2 DEF Message, PipelineIsSound, TypeOK
  <2> QED
    BY <1>1, <2>1, <2>2
<1>3. ASSUME NEW s \in Sources \cup {None}, SwitchSource(s)
      PROVE  ApprovalInv' /\ approved \subseteq approved'
  BY <1>1, <1>3 DEF SwitchSource
<1>4. ASSUME NEW intent \in Intents, ResolveIntent(intent)
      PROVE  ApprovalInv' /\ approved \subseteq approved'
  <2> DEFINE sig  == SigOf[current]
             spec == Resolve(intent, session.confirmed, sig, Now)
  <2>1. sig \in Signatures /\ Now \in Nat
    BY <1>4 DEF ResolveIntent, PipelineIsSound, TypeOK, Now
  <2>2. /\ held' = held \cup {spec}
        /\ session' = session
        /\ approved' = approved
    BY <1>4 DEF ResolveIntent
  <2> HIDE DEF sig
  <2>3. /\ spec.status = "NEEDS_CONFIRMATION" => spec.refs \cap TierB # {}
        /\ spec.status = "RESOLVED" =>
             (spec.refs \cap TierB) \X {spec.sig} \subseteq approved
    <3>1. /\ spec.status = Status(intent, session.confirmed, sig, Now)
          /\ spec.refs = intent.refs
          /\ spec.sig = sig
      BY <2>1, ResolveIsSpec
    <3> HIDE DEF spec
    <3>2. AskedAbout(session.confirmed, approved) /\ intent \in AllIntents
      BY DEF ApprovalInv
    <3>3. /\ Status(intent, session.confirmed, sig, Now) = "NEEDS_CONFIRMATION" =>
               intent.refs \cap TierB # {}
          /\ Status(intent, session.confirmed, sig, Now) = "RESOLVED" =>
               (intent.refs \cap TierB) \X {sig} \subseteq approved
      BY <2>1, <3>2, ResolveIsApproved
    <3> QED
      BY <3>1, <3>3
  <2> HIDE DEF spec
  <2> QED
    BY <2>2, <2>3 DEF ApprovalInv
<1>5. ASSUME NEW old \in held, NEW intent \in Intents, Confirm(old, intent)
      PROVE  ApprovalInv' /\ approved \subseteq approved'
  BY <1>5, ConfirmKeepsApprovals DEF Confirm
<1>6. ASSUME NEW arg \in Commands, NEW spec \in held \cup {None}, NEW all \in BOOLEAN,
             StartPipeline(arg, spec, all)
      PROVE  ApprovalInv' /\ approved \subseteq approved'
  BY <1>1, <1>6 DEF StartPipeline
<1>7. CASE Tick \/ PipelineStep
  BY <1>1, <1>7 DEF Tick, PipelineStep, ReadInfo, FetchRows, FetchMore, CreateJob
<1>8. CASE UNCHANGED vars
  BY <1>1, <1>8 DEF vars
<1>9. CASE \E text \in Messages : Message(text)
  BY <1>2, <1>9
<1>10. CASE \E s \in Sources \cup {None} : SwitchSource(s)
  BY <1>3, <1>10
<1>11. CASE \E intent \in Intents : ResolveIntent(intent)
  BY <1>4, <1>11
<1>12. CASE \E old \in held, intent \in Intents : Confirm(old, intent)
  BY <1>5, <1>12
<1>13. CASE \E arg \in Commands, spec \in held \cup {None}, all \in BOOLEAN :
              StartPipeline(arg, spec, all)
  BY <1>6, <1>13
<1> QED
  BY <1>7, <1>8, <1>9, <1>10, <1>11, <1>12, <1>13 DEF Next

\* A region or business predicate reaches a job only after the user was asked
\* about it for the schema the job records, through expiring tokens, rebuilt
\* agents and confirmations that outlive a turn, as long as the agent confirms
\* with an intent that names its terms (the run SpelledOut shows what happens
\* otherwise).
THEOREM OnlyApprovedTermsReachJobs ==
  ASSUME TermsAreNamed
  PROVE  Spec => []OnlyApprovedTermsShip
<1> DEFINE Inv == PipelineIsSound /\ ApprovalInv /\ OnlyApprovedTermsShip
<1>1. Init => Inv
  BY InitIsSound DEF Init, ApprovalInv, AskedAbout, OnlyApprovedTermsShip
<1>2. ASSUME Inv, [Next]_vars PROVE Inv'
  <2>1. PipelineIsSound' /\ ApprovalInv' /\ approved \subseteq approved'
    BY <1>2, StepIsSound, StepKeepsApprovals
  <2>2. ASSUME NEW j \in jobs'
        PROVE  (j.refs \cap TierB) \X {j.sig} \subseteq approved'
    <3>1. CASE j \in jobs
      BY <1>2, <2>1, <3>1 DEF OnlyApprovedTermsShip
    <3>2. CASE j \notin jobs
      <4>1. /\ call.stage = "job"
            /\ j.refs = CallRefs
            /\ j.sig = call.sig
        <5>1. call.stage = "job"
          BY <1>2, <2>2, <3>2, OnlyCallsMakeJobs
        <5>2. PICK state, rows : j = Job(state, rows)
          BY <1>2, <2>2, <3>2, OnlyCallsMakeJobs
        <5> QED
          BY <5>1, <5>2 DEF Job, CallRefs
      <4> QED
        BY <1>2, <2>1, <4>1, CallIsApproved
    <3> QED
      BY <3>1, <3>2
  <2>3. OnlyApprovedTermsShip'
    BY <2>2 DEF OnlyApprovedTermsShip
  <2> QED
    BY <2>1, <2>3
<1>3. Inv => OnlyApprovedTermsShip
  OBVIOUS
<1> QED
  BY <1>1, <1>2, <1>3, PTL DEF Spec
=============================================================================
