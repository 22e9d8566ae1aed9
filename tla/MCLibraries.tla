----------------------------- MODULE MCLibraries -----------------------------
(***************************************************************************)
(* The modules of the agent, the gateway, the control plane, the sandbox's *)
(* back ends and the enterprise package that share no state, for one run   *)
(* of TLC: each behaviour takes the steps of one of them, and the others   *)
(* rest in an initial state.                                               *)
(***************************************************************************)
EXTENDS AgentSession, AuditLedger, Mcp, ToolGate, SkillLoader,
        Webhooks, Deletion, Wif, Listings,
        StreamTranslators, AgingTables, Conversions,
        ModelReconcile, UsageCost, FileTransfer, BatchResults,
        EgressProxy, ContainerRun, LxcBackend

CONSTANT Parts   \* the modules explored

VARIABLE part    \* the one that this behaviour is about

\* A module with several initial states has all of them when the run is about it.
MCInit ==
  /\ part \in Parts
  /\ SessionInit /\ LedgerInit /\ SkillInit /\ WebhookInit /\ WifInit /\ UsageInit
  /\ TransferInit /\ ProxyInit /\ RunInit /\ LxcInit
  /\ McpInit        /\ (part # "mcp" => transport = "stdio")
  /\ GateInit       /\ (part # "gate" => rules = {})
  /\ DeletionInit   /\ (part # "deletion" => ~target.wide)
  /\ ListingInit    /\ (part # "listing" => collection = {} /\ lister = "activities")
  /\ TranslatorInit /\ (part # "translator" => translator = "chat_to_responses")
  /\ ConversionInit /\ (part # "conversion" => clientApi = "chat")
  /\ AgingInit      /\ (part # "aging" => backend = "memory")
  /\ ReconcileInit  /\ (part # "models" => onOffer = [m \in Models |-> "active"])
  /\ ResultsInit    /\ (part # "results" => output = <<>>)

Agent ==
  \/ /\ part = "session" /\ SessionNext /\ UNCHANGED <<ledgerVars, mcpVars, gateVars, skillVars>>
  \/ /\ part = "ledger" /\ LedgerNext /\ UNCHANGED <<sessionVars, mcpVars, gateVars, skillVars>>
  \/ /\ part = "mcp" /\ McpNext /\ UNCHANGED <<sessionVars, ledgerVars, gateVars, skillVars>>
  \/ /\ part = "gate" /\ GateNext /\ UNCHANGED <<sessionVars, ledgerVars, mcpVars, skillVars>>
  \/ /\ part = "skill" /\ SkillNext /\ UNCHANGED <<sessionVars, ledgerVars, mcpVars, gateVars>>
agentVars == <<sessionVars, ledgerVars, mcpVars, gateVars, skillVars>>

Enterprise ==
  \/ /\ part = "webhook" /\ WebhookNext /\ UNCHANGED <<deletionVars, wifVars, listingVars>>
  \/ /\ part = "deletion" /\ DeletionNext /\ UNCHANGED <<webhookVars, wifVars, listingVars>>
  \/ /\ part = "wif" /\ WifNext /\ UNCHANGED <<webhookVars, deletionVars, listingVars>>
  \/ /\ part = "listing" /\ ListingNext /\ UNCHANGED <<webhookVars, deletionVars, wifVars>>
enterpriseVars == <<webhookVars, deletionVars, wifVars, listingVars>>

GatewayTables ==
  \/ part = "translator" /\ TranslatorNext /\ UNCHANGED <<agingVars, conversionVars>>
  \/ part = "aging" /\ AgingNext /\ UNCHANGED <<translatorVars, conversionVars>>
  \/ part = "conversion" /\ ConversionNext /\ UNCHANGED <<translatorVars, agingVars>>
tableVars == <<translatorVars, agingVars, conversionVars>>

Control ==
  \/ /\ part = "models" /\ ReconcileNext /\ UNCHANGED <<usageVars, transferVars, resultsVars>>
  \/ /\ part = "usage" /\ UsageNext /\ UNCHANGED <<reconcileVars, transferVars, resultsVars>>
  \/ /\ part = "files" /\ TransferNext /\ UNCHANGED <<reconcileVars, usageVars, resultsVars>>
  \/ /\ part = "results" /\ ResultsNext /\ UNCHANGED <<reconcileVars, usageVars, transferVars>>
controlVars == <<reconcileVars, usageVars, transferVars, resultsVars>>

BackEnds ==
  \/ part = "proxy" /\ ProxyNext /\ UNCHANGED <<runVars, lxcVars>>
  \/ part = "run" /\ RunNext /\ UNCHANGED <<proxyVars, lxcVars>>
  \/ part = "lxc" /\ LxcNext /\ UNCHANGED <<proxyVars, runVars>>
backEndVars == <<proxyVars, runVars, lxcVars>>

MCNext ==
  /\ UNCHANGED part
  /\ \/ Agent /\ UNCHANGED <<enterpriseVars, tableVars, controlVars, backEndVars>>
     \/ Enterprise /\ UNCHANGED <<agentVars, tableVars, controlVars, backEndVars>>
     \/ GatewayTables /\ UNCHANGED <<agentVars, enterpriseVars, controlVars, backEndVars>>
     \/ Control /\ UNCHANGED <<agentVars, enterpriseVars, tableVars, backEndVars>>
     \/ BackEnds /\ UNCHANGED <<agentVars, enterpriseVars, tableVars, controlVars>>

MCSpec ==
  MCInit /\ [][MCNext]_<<part, agentVars, enterpriseVars, tableVars, controlVars, backEndVars>>

-----------------------------------------------------------------------------
(* Values of the constants that a configuration cannot write.               *)

MCUsages == {[input |-> 1, output |-> 1], [input |-> 4, output |-> 2]}

\* Two calls with one identifier; two runs of one session.
MCCall(arguments) == [id |-> 1, name |-> "write", arguments |-> arguments]
MCCalls == {MCCall(1), MCCall(2)}
MCContexts == {[session |-> 1, correlation |-> 1], [session |-> 1, correlation |-> 2]}
MCRuleSet ==
  {[id |-> 1, effect |-> "allow", matches |-> MCCalls, priority |-> 0],
   [id |-> 2, effect |-> "ask", matches |-> {MCCall(1)}, priority |-> 0],
   [id |-> 3, effect |-> "deny", matches |-> MCCalls, priority |-> -1]}
MCHooks == <<[phase |-> "pre_tool", policy |-> "fail_closed"],
             [phase |-> "post_tool", policy |-> "fail_open"]>>

\* Two releases of a skill, of files of one size: the second has no data; a
\* manifest of another skill, and one whose instructions refer to what is not there.
MCFile(digest, size, links) ==
  [kind |-> "file", digest |-> digest, size |-> size, links |-> links, text |-> TRUE]
MCManifest(name, resources) == [kind |-> "manifest", name |-> name, resources |-> resources]
MCResource(path, digest) == [path |-> path, digest |-> digest, size |-> 1]
MCInstructions(digest) == MCResource("SKILL.md", digest)
MCPlaceable ==
  [path \in {"SKILL.md", "data", "manifest"} |->
     CASE path = "SKILL.md" ->
            {MCFile("s1", 1, {"data"}), MCFile("s2", 1, {}), MCFile("torn", 2, {})}
       [] path = "data" ->
            {NoFile, [kind |-> "link"], MCFile("d1", 1, {}), MCFile("torn", 1, {})}
       [] path = "manifest" ->
            {NoFile,
             MCManifest("skill", <<MCInstructions("s1"), MCResource("data", "d1")>>),
             MCManifest("skill", <<MCInstructions("s2")>>),
             MCManifest("skill", <<MCInstructions("s1")>>),
             MCManifest("other", <<MCInstructions("s2")>>)}]

MCVersions == {[state |-> 1, wide |-> TRUE], [state |-> 2, wide |-> FALSE]}

MCAddress(id, kind) == [id |-> id, kind |-> kind]
MCAddresses == {MCAddress(1, "global"), MCAddress(2, "private"), MCAddress(3, "loopback"),
                MCAddress(4, "global")}
MCDestinations ==
  {[literal |-> {}, allowed |-> TRUE], [literal |-> {}, allowed |-> FALSE],
   [literal |-> {MCAddress(2, "private")}, allowed |-> TRUE],
   [literal |-> {MCAddress(3, "loopback")}, allowed |-> TRUE]}

MCSecrets == {<<1, 2>>}

MCUsageEvents == [id : {"u1", "u2"}, scope : {1, 2}, amount : {1, 2}]
MCCostEvents  == [id : {"c1", "c2"}, usage : {"u1", "u2"}, scope : {1}, amount : {1, 2}]
=============================================================================
