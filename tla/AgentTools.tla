------------------------------ MODULE AgentTools -----------------------------
(***************************************************************************)
(* What tools and skills an agent is built with (core.Agent, SkillBlocks   *)
(* and SkillTools) and which of its tools run without a record.  The host  *)
(* loads skills, connects MCP servers and builds the agent; meanwhile      *)
(* another goroutine may change the Set, which SkillBlocks and SkillTools  *)
(* read name by name, each Get under the Set's lock.  Then tools are       *)
(* called by name, servers exit, and the closer is closed.                 *)
(***************************************************************************)
EXTENDS McpTools, SkillSet

CONSTANTS
  Walks,        \* server list -> walks of the skill directory to try with it, each
                \* a sequence of files [dir, lines, readable, broken]
  HostTools,    \* Config.Tools without the MCP tools, a sequence of [name, safe]
  HostSkills,   \* skills the host adds
  NoCall,       \* no tool has run
  MaxEdits      \* bound: changes of the Set while the agent is built

\* A tool as the agent has it; client 0 is the host.
AgentTool == [name : Seq(STRING), real : Seq(STRING), client : Nat, safe : BOOLEAN]
Skills == [name : Nat, prompt : Seq(SkillLine), tools : Seq(AgentTool)]

ASSUME AgentAssumption ==
  /\ \A l \in ServerLists : Walks[l] \subseteq Seq(SkillFile)
  /\ HostTools \in Seq([name : Seq(STRING), safe : BOOLEAN])
  /\ HostSkills \subseteq Skills
  /\ ParseError \notin Skills
  /\ MaxEdits \in Nat

VARIABLES
  stage,        \* "load", "mcp", then the phases of core.Agent, then "run"
  walk,         \* what Load walks; forgotten after the step that follows it
  set,          \* the Set's skills
  touched,      \* names added or removed since core.Agent began
  edits,        \* changes made so far
  names, pos,   \* the names a loop of SkillBlocks or SkillTools goes over
  index,        \* skills listed in the index block
  blocks,       \* skills with a block of their own
  agentTools,   \* the agent's tools
  safe,         \* names the audit middleware lets run without a record
  ran           \* the last tool that ran: [tool, recorded, result]

avars == <<stage, walk, set, touched, edits, names, pos, index, blocks, agentTools, safe, ran>>
allvars == <<mvars, avars>>

HostTool(t) == [name |-> t.name, real |-> t.name, client |-> 0, safe |-> t.safe]

AgentInit ==
  /\ McpInit
  /\ stage = "load"
  /\ walk \in Walks[servers]
  /\ set = NewSet
  /\ touched = {}
  /\ edits = 0
  /\ names = <<>>
  /\ pos = 1
  /\ index = <<>>
  /\ blocks = <<>>
  /\ agentTools = <<>>
  /\ safe = {}
  /\ ran = NoCall

\* FilesystemLoader.Load; when it errs the host goes on with an empty Set.
LoadSkills ==
  /\ stage = "load"
  /\ set' = IF LoadFails(walk) THEN NewSet ELSE Load(walk)
  /\ stage' = "mcp"
  /\ UNCHANGED <<mvars, walk, touched, edits, names, pos, index, blocks, agentTools, safe, ran>>

\* core.Agent begins: SkillBlocks reads the names.  Without any there is no block.
SkillBlocksNames ==
  /\ stage = "mcp"
  /\ mpc = "returned"
  /\ walk' = <<>>
  /\ names' = SortedNames(set)
  /\ pos' = 1
  /\ stage' = IF DOMAIN set = {} THEN "tools" ELSE "index"
  /\ UNCHANGED <<mvars, set, touched, edits, index, blocks, agentTools, safe, ran>>

\* Mutant of Got: a name that is gone ends the loop.
GotStops(found) == IF found THEN pos + 1 ELSE Len(names) + 1

\* Where a loop goes on after a Get: a name that is gone is skipped.
Got(found) == pos + 1

\* The loops over the names, one Get per step.
Looping(phase) == stage = phase /\ pos <= Len(names)

Found == names[pos] \in DOMAIN set

IndexGet ==
  /\ Looping("index")
  /\ index' = IF Found THEN Append(index, names[pos]) ELSE index
  /\ pos' = Got(Found)
  /\ UNCHANGED <<mvars, stage, walk, set, touched, edits, names, blocks, agentTools, safe, ran>>

\* The prompt is trimmed again: a host's skill may have a blank one.
HasBlock(sk) == TrimLines(sk.prompt) # <<>>

BlockGet ==
  /\ Looping("blocks")
  /\ blocks' = IF Found /\ HasBlock(set[names[pos]]) THEN Append(blocks, names[pos])
               ELSE blocks
  /\ pos' = Got(Found)
  /\ UNCHANGED <<mvars, stage, walk, set, touched, edits, names, index, agentTools, safe, ran>>

\* Entries of a skill's Tools that are not tools were dropped by the assertion.
ToolGet ==
  /\ Looping("get")
  /\ agentTools' = IF Found THEN agentTools \o set[names[pos]].tools ELSE agentTools
  /\ pos' = Got(Found)
  /\ UNCHANGED <<mvars, stage, walk, set, touched, edits, names, index, blocks, safe, ran>>

\* From the index to the blocks.
IndexDone ==
  /\ stage = "index" /\ pos > Len(names)
  /\ stage' = "blocks"
  /\ pos' = 1
  /\ UNCHANGED <<mvars, walk, set, touched, edits, names, index, blocks, agentTools, safe, ran>>

\* The tools of the Config, those of the MCP servers among them, come first;
\* then SkillTools reads the names again.
SkillToolsNames ==
  /\ stage = "tools" \/ (stage = "blocks" /\ pos > Len(names))
  /\ agentTools' = [i \in DOMAIN HostTools |-> HostTool(HostTools[i])]
                     \o [i \in DOMAIN tools |->
                           [name |-> tools[i].name, real |-> tools[i].real,
                            client |-> tools[i].client, safe |-> FALSE]]
  /\ names' = SortedNames(set)
  /\ pos' = 1
  /\ stage' = "get"
  /\ UNCHANGED <<mvars, walk, set, touched, edits, index, blocks, safe, ran>>

\* The names of the tools that say they are safe.
SafeNames(ts) == {ts[i].name : i \in {j \in DOMAIN ts : ts[j].safe}}

\* core.Agent ends.
Assemble ==
  /\ stage = "get" /\ pos > Len(names)
  /\ safe' = SafeNames(agentTools)
  /\ stage' = "run"
  /\ names' = <<>>
  /\ pos' = 1
  /\ UNCHANGED <<mvars, walk, set, touched, edits, index, blocks, agentTools, ran>>

\* Set.Add and Set.Remove by another goroutine.
Edit(new, name) ==
  /\ stage \in {"index", "blocks", "tools", "get"}
  /\ edits < MaxEdits
  /\ edits' = edits + 1
  /\ set' = new
  /\ touched' = touched \cup {name}
  /\ UNCHANGED <<mvars, stage, walk, names, pos, index, blocks, agentTools, safe, ran>>

AddSkill(sk) == ~SetAddFails(set, sk) /\ Edit(SetAdd(set, sk), sk.name)
RemoveSkill(n) == n \in DOMAIN set /\ Edit(SetRemove(set, n), n)

\* A call of a tool by its name (the engine, external, finds it): the middleware
\* records it first unless the name is safe; if the record fails nothing runs.
\* mcpTool.Execute sends it to its client under its own name, which errs when
\* the client was closed or its server is gone.
Call(t) ==
  /\ stage = "run"
  /\ ran' = [tool |-> t,
             recorded |-> t.name \notin safe,
             result |-> IF t.client \in gone \/ (t.client # 0 /\ t.client \notin open)
                        THEN "gone" ELSE "ok"]
  /\ UNCHANGED <<mvars, stage, walk, set, touched, edits, names, pos, index, blocks,
                 agentTools, safe>>

\* mcp.Tools before the agent is built; a server exits or the closer is closed
\* also when it runs.
McpStep ==
  /\ stage \in {"mcp", "run"}
  /\ McpNext
  /\ walk' = <<>>
  /\ UNCHANGED <<stage, set, touched, edits, names, pos, index, blocks, agentTools, safe, ran>>

AgentNext ==
  \/ LoadSkills
  \/ McpStep
  \/ SkillBlocksNames \/ IndexGet \/ IndexDone \/ BlockGet \/ SkillToolsNames \/ ToolGet
  \/ Assemble
  \/ \E sk \in HostSkills : AddSkill(sk)
  \/ \E n \in DOMAIN set : RemoveSkill(n)
  \/ \E i \in DOMAIN agentTools : Call(agentTools[i])

AgentSpec == AgentInit /\ [][AgentNext]_allvars

------------------------------------------------------------------------------
(* Properties *)

Leading(ls) ==
  LET delims == {i \in DOMAIN ls : ls[i].kind = "delim"}
  IN  delims = {} \/ \A i \in 1..Min(delims) - 1 : ls[i].kind = "blank"

\* What a SKILL.md says: between the first two delimiters its front matter, whose
\* last name counts, and after them its body.
Said(ls) ==
  LET delims == {i \in DOMAIN ls : ls[i].kind = "delim"}
      first  == IF delims = {} THEN 0 ELSE Min(delims)
      second == IF Cardinality(delims) < 2
                THEN IF delims = {} THEN 0 ELSE Len(ls) + 1
                ELSE Min(delims \ {first})
      front  == {i \in DOMAIN ls : first < i /\ i < second}
      named  == {i \in front : ls[i].kind = "name"}
  IN  [valid  |-> /\ \A i \in front : ls[i].kind # "text"
                  /\ \A i \in DOMAIN ls : ls[i].kind # "long",
       name   |-> IF named = {} THEN 0 ELSE ls[Max(named)].val,
       prompt |-> TrimLines(SubSeq(ls, second + 1, Len(ls)))]

\* FilesystemLoader.Load: "a single malformed SKILL.md should not block the
\* rest".  After a walk that did not fail, the Set holds under each name what the
\* first readable and well-formed file of that name says, and nothing else.  This
\* is of walks in which no file has text before its first delimiter: the parser
\* takes front matter also from there, against its comment (NoLeadingNoFront).
LoadFaithful ==
  stage = "mcp" /\ walk # <<>> /\ ~(\E i \in DOMAIN walk : walk[i].broken) =>
    LET good    == {i \in DOMAIN walk : walk[i].readable /\ Said(walk[i].lines).valid}
        name(i) == IF Said(walk[i].lines).name = 0 THEN walk[i].dir
                   ELSE Said(walk[i].lines).name
    IN  (\A i \in DOMAIN walk : Leading(walk[i].lines)) =>
          /\ DOMAIN set = {name(i) : i \in good}
          /\ \A n \in DOMAIN set :
               set[n].prompt = Said(walk[Min({i \in good : name(i) = n})].lines).prompt

\* parseSkillMd's "No frontmatter - treat whole file as body": a file that does
\* not begin with a delimiter has no front matter.
NoLeadingNoFront ==
  stage = "mcp" =>
    \A i \in DOMAIN walk :
      LET sk == parseSkillMd(walk[i].lines)
      IN  ~Leading(walk[i].lines) /\ sk # ParseError
            => sk.prompt = TrimLines(walk[i].lines)

Times(s, x) == Cardinality({i \in DOMAIN s : s[i] = x})

\* SkillBlocks, SkillTools and the Set, "safe for concurrent use": a skill that
\* nobody touches while the agent is built is in the index once, has its block
\* exactly if its prompt is not blank, and contributes each of its tools, whatever
\* happens to the other skills meanwhile; and nothing is offered that was never
\* in the Set.
OfferedWhole ==
  stage = "run" =>
    /\ \A n \in DOMAIN set \ touched :
         /\ Times(index, n) = 1
         /\ Times(blocks, n) = IF HasBlock(set[n]) THEN 1 ELSE 0
         /\ \A i \in DOMAIN set[n].tools : Times(agentTools, set[n].tools[i]) = 1
    /\ ToSet(index) \cup ToSet(blocks) \subseteq DOMAIN set \cup touched

\* SkillBlocks lists "every skill name", also in a Set that changes: a skill whose
\* tools the agent has is in the index.
IndexMatchesTools ==
  stage = "run" =>
    \A n \in DOMAIN set, i \in DOMAIN agentTools :
      Contains(set[n].tools, agentTools[i]) => Contains(index, n)

\* auditMiddleware: "an unclassified or externally-injected tool cannot run
\* unaudited", and mcpTool "is NON-safe by design", so that every Execute is
\* ledgered: a tool that is not safe runs only recorded.
UnsafeAudited == ran # NoCall /\ ~ran.tool.safe => ran.recorded

------------------------------------------------------------------------------
(* The inductive invariant behind OfferedWhole *)

\* The Set holds under each name a skill of that name, loaded without tools or
\* added by the host.
SetOK(s) ==
  /\ IsFiniteSet(DOMAIN s) /\ DOMAIN s \subseteq Nat
  /\ s = [n \in DOMAIN s |-> s[n]]
  /\ \A n \in DOMAIN s :
       s[n] \in Skills /\ s[n].name = n /\ (s[n].tools = <<>> \/ s[n] \in HostSkills)

BuildTypeOK ==
  /\ stage \in {"load", "mcp", "index", "blocks", "tools", "get", "run"}
  /\ stage = "load" => walk \in Seq(SkillFile)
  /\ SetOK(set)
  /\ touched \subseteq Nat
  /\ names \in Seq(Nat) /\ pos \in 1..Len(names) + 1
  /\ \A j, k \in DOMAIN names : names[j] = names[k] => j = k
  /\ index \in Seq(Nat) /\ blocks \in Seq(Nat)
  /\ agentTools \in Seq(AgentTool)

Once(s, x) == \E i \in DOMAIN s : s[i] = x /\ \A j \in DOMAIN s : s[j] = x => j = i
Never(s, x) == \A i \in DOMAIN s : s[i] # x

\* The loop is past n.
Passed(n) == \E k \in DOMAIN names : k < pos /\ names[k] = n

\* A skill that nobody touched is among the names a loop goes over, and what the
\* loop makes of it is there once it is past the name, and not before.
Offered(n) ==
  /\ stage \in {"index", "blocks", "get"} => \E k \in DOMAIN names : names[k] = n
  /\ stage = "index" => IF Passed(n) THEN Once(index, n) ELSE Never(index, n)
  /\ stage \in {"blocks", "get", "run"} => Once(index, n)
  /\ stage \in {"blocks", "get", "run"} =>
       IF HasBlock(set[n]) /\ (stage = "blocks" => Passed(n))
       THEN Once(blocks, n) ELSE Never(blocks, n)
  /\ stage \in {"get", "run"} =>
       \A i \in DOMAIN set[n].tools :
         IF stage = "get" => Passed(n)
         THEN Once(agentTools, set[n].tools[i]) ELSE Never(agentTools, set[n].tools[i])

OfferInv ==
  /\ stage \in {"load", "mcp"} => touched = {} /\ index = <<>> /\ blocks = <<>>
  /\ stage = "index" => blocks = <<>>
  /\ stage = "tools" => DOMAIN set \subseteq touched
  /\ \A i \in DOMAIN index : index[i] \in DOMAIN set \cup touched
  /\ \A i \in DOMAIN blocks : blocks[i] \in DOMAIN set \cup touched
  /\ \A n \in DOMAIN set \ touched : Offered(n)

\* The host's tools are all different.
ToolsApart ==
  \A sk \in HostSkills : \A i \in DOMAIN sk.tools :
    /\ sk.tools[i].client = 0
    /\ \A j \in DOMAIN HostTools : sk.tools[i] # HostTool(HostTools[j])
    /\ \A sl \in HostSkills : \A j \in DOMAIN sl.tools :
         sk.tools[i] = sl.tools[j] => sk.name = sl.name /\ (sk = sl => i = j)
==============================================================================
