------------------------------ MODULE MC_Scripts ------------------------------
(***************************************************************************)
(* The scripts of deploy/, the task check-l2 and the script that writes      *)
(* invariant-docs share no state, so a behaviour is of one of them, as       *)
(* program says.                                                             *)
(***************************************************************************)
EXTENDS MC_DeployScripts

CONSTANTS Defective, Upgradable, MaxUpgrades, MaxEdits, MaxKills

VARIABLES
  program,
  options, outdated, differs, unasked, verdict, upgraded,
  dirs, tests, docs, toc, phase, todo, writtenFiles, current, edits, kills

-----------------------------------------------------------------------------
(* Tests for invariant-docs: two of one contract, one of another *)

PortalTest == [dir |-> "invariants", contract |-> "PatexPortal"]
PortalFuzz == [dir |-> "echidna", contract |-> "PatexPortal"]
BurnFuzz == [dir |-> "echidna", contract |-> "Burn"]

Tests == {PortalTest, PortalFuzz, BurnFuzz}

Comment(inner) == <<"open">> \o inner \o <<"close", "code">>
First == {Comment(<<"inv">>), Comment(<<"text", "inv">>), <<"oneLine", "code">>}
Comments == {Comment(inner) : inner \in [1 .. 2 -> {"inv", "text", "blank"}]}
              \cup {Comment(<<"inv", "blank", "text">>),
                    Comment(<<"inv", "text", "blank", "text", "blank">>)}
Short == {Comment(<<"inv">>), <<"oneLine", "code">> \o Comment(<<"text">>)}

Contents ==
  [t \in Tests |-> IF t = PortalTest THEN {a \o b : a \in First, b \in Comments} ELSE Short]

-----------------------------------------------------------------------------
Docs == INSTANCE InvariantDocs
L2 == INSTANCE CheckL2 WITH wrong <- differs

\* What TLC finds in the tables of questions: whatever the options, the task asks for
\* all that may be wrong, but for the chain and the oracle it may not be told of, the
\* predeploys it is told to skip, and one admin.
ASSUME QuestionsAssumption ==
  /\ MaxUpgrades \in Nat
  /\ \A a \in L2!Options :
       /\ L2!Questions(a) \in Seq(L2!Facts)
       /\ L2!OfThisRepository \subseteq L2!Range(L2!Questions(a))
       /\ \A q \in L2!Facts :
            \/ q \in L2!Range(L2!Questions(a))
            \/ q[1] \in {"network", "L2OutputOracle"}
            \/ a.skipPredeployCheck /\ q[2] \in {"code", "admin"}
            \/ q = <<"ProxyAdmin", "admin">>
  /\ L2!BehindProxy \cap {"network", "L2OutputOracle"} = {}

\* What TLC finds of the files with tests: of each invariant documented in one, the
\* script reads what is about it.
ASSUME DocsAssumption ==
  /\ IsFiniteSet(Tests)
  /\ \A t \in Tests : t.dir \in {"invariants", "echidna"}
  /\ \A t \in Tests : \A lines \in Contents[t] :
       Docs!Documents([test |-> t, docs |-> Docs!parse(lines)], lines)

checkVars == <<options, outdated, differs, unasked, verdict, upgraded>>
docVars == <<dirs, tests, docs, toc, phase, todo, writtenFiles, current, edits, kills>>
scriptsVars == <<program, deployVars, checkVars, docVars>>

\* A program that is not the one: nothing is left for it to do.
NoDeploy ==
  /\ network = "l1" /\ controllerIsDeployer = TRUE /\ wrong = {}
  /\ deployments = [n \in Names |-> 0]
  /\ installed = [p \in ProxyNames |-> 0]
  /\ postdeploys = {} /\ mempool = <<>>
  /\ tag = {} /\ at = 1 /\ part = 1 /\ stage = "idle"
  /\ next = Len(Plan) + 1
  /\ failed = FALSE /\ mishaps = 0

NoCheck ==
  /\ options = [chainId |-> FALSE, l1RpcUrl |-> FALSE, skipPredeployCheck |-> FALSE]
  /\ outdated = {} /\ differs = {}
  /\ unasked = <<>> /\ verdict = "none"
  /\ upgraded = <<>>

NoDocs ==
  /\ dirs = {} /\ tests = [t \in Tests |-> <<>>]
  /\ docs = [n \in Docs!Names |-> <<>>]
  /\ toc = {} /\ phase = "idle" /\ todo = <<>> /\ writtenFiles = {}
  /\ current = "no" /\ edits = 0 /\ kills = 0

ScriptsInit ==
  \/ program = "deploy" /\ DeployInit /\ NoCheck /\ NoDocs
  \/ program = "check-l2" /\ L2!CheckInit /\ NoDeploy /\ NoDocs
  \/ program = "invariant-doc-gen" /\ Docs!DocsInit /\ NoDeploy /\ NoCheck

ScriptsNext ==
  /\ UNCHANGED program
  /\ \/ program = "deploy" /\ DeployNext /\ UNCHANGED <<checkVars, docVars>>
     \/ program = "check-l2" /\ L2!CheckNext /\ UNCHANGED <<deployVars, docVars>>
     \/ program = "invariant-doc-gen" /\ Docs!DocsNext /\ UNCHANGED <<deployVars, checkVars>>

ScriptsSpec == ScriptsInit /\ [][ScriptsNext]_scriptsVars /\ DeployFairness

NothingOverlooked == L2!NothingOverlooked

DocsAreCurrent == Docs!DocsAreCurrent
=============================================================================
