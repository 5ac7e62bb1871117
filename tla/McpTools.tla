------------------------------- MODULE McpTools ------------------------------
(***************************************************************************)
(* mcp.Tools: the allowlisted servers are dialled and listed one after the *)
(* other, their tools adapted under names the model API accepts, and every *)
(* client that was started handed to one closer.  A name is a sequence of  *)
(* characters; descriptions, schemas and argument JSON are left out.  A    *)
(* client is the index of its server in the list.                          *)
(***************************************************************************)
EXTENDS Naturals, Sequences, FiniteSets, TLC, Ordering

CONSTANTS
  ServerLists,  \* lists of servers [name, bare, tools], tools being the names on
                \* the first page of the server's tools/list
  Valid,        \* characters a tool name may have
  NameLimit     \* the longest tool name, 64

\* A configured server and its first page.
Server == [name : Seq(STRING), bare : BOOLEAN, tools : Seq(Seq(STRING))]

\* The character that stands for an invalid one and joins the parts of a name.
Underscore == "_"

ASSUME McpAssumption ==
  /\ ServerLists # {} /\ ServerLists \subseteq Seq(Server)
  /\ Underscore \in Valid /\ Valid \subseteq STRING
  /\ NameLimit \in Nat /\ NameLimit >= 2

VARIABLES
  servers,      \* the argument of Tools
  at,           \* the server the loop is at
  mpc,          \* "dial", "list", "returned", "closed"
  open,         \* clients that are connected to a subprocess
  closer,       \* multiCloser.cs
  tools,        \* the adapted tools [name, real, client]
  failed,       \* servers that did not dial or list
  toolsErr,     \* Tools returned an error
  closeErrs,    \* the clients whose error the last Close reports
  gone          \* clients whose server exited

mvars == <<servers, at, mpc, open, closer, tools, failed, toolsErr, closeErrs, gone>>

McpInit ==
  /\ servers \in ServerLists
  /\ at = 1
  /\ mpc = "dial"
  /\ open = {}
  /\ closer = {}
  /\ tools = <<>>
  /\ failed = {}
  /\ toolsErr = FALSE
  /\ closeErrs = {}
  /\ gone = {}

------------------------------------------------------------------------------
(* Names *)

Prefix(s, n) == IF Len(s) > n THEN SubSeq(s, 1, n) ELSE s

sanitize(s) ==
  IF s = <<>> THEN <<Underscore>>
  ELSE Prefix([i \in DOMAIN s |-> IF s[i] \in Valid THEN s[i] ELSE Underscore], NameLimit)

\* "_i"; a numeral counts as one character.
Suffix(i) == <<Underscore, ToString(i)>>

\* Mutant of Numbered: the suffix is not made room for.
NumberedLong(base, i) == IF i = 1 THEN base ELSE base \o Suffix(i)

\* uniqueName: the i-th name tried.
Numbered(base, i) ==
  IF i = 1 THEN base ELSE Prefix(base, NameLimit - Len(Suffix(i))) \o Suffix(i)

\* Mutant of uniqueName: the suffix is tried once.
uniqueNameOnce(srv, tool, seen) ==
  LET base == sanitize(IF srv.bare THEN tool ELSE srv.name \o <<Underscore, Underscore>> \o tool)
  IN  IF base \in seen THEN Numbered(base, 2) ELSE base

\* The first name that is not taken; the names tried from the second on differ
\* from each other, so one of the first |seen| + 2 is free.
uniqueName(srv, tool, seen) ==
  LET base == sanitize(IF srv.bare THEN tool ELSE srv.name \o <<Underscore, Underscore>> \o tool)
      free == {i \in 1..Cardinality(seen) + 2 : Numbered(base, i) \notin seen}
  IN  Numbered(base, CHOOSE i \in free : \A j \in free : i <= j)

\* A name the model API accepts.
Accepted(name) ==
  /\ Len(name) \in 1..NameLimit
  /\ \A k \in DOMAIN name : name[k] \in Valid

ToolNames(ts) == {ts[i].name : i \in DOMAIN ts}

\* tools/list is called once: what a NextCursor points to is never asked for.
listTools(srv) == srv.tools

\* The tools of client c, adapted in the order it lists them.
Adapted(ts, c) ==
  LET srv  == servers[c]
      defs == listTools(srv)
      upTo[n \in 0..Len(defs)] ==
        IF n = 0 THEN ts
        ELSE LET name == uniqueName(srv, defs[n], ToolNames(upTo[n - 1]))
             IN  Append(upTo[n - 1], [name |-> name, real |-> defs[n], client |-> c])
  IN  upTo[Len(defs)]

------------------------------------------------------------------------------
(* Tools *)

Dial ==
  /\ mpc = "dial"
  /\ at <= Len(servers)
  /\ open' = open \cup {at}
  /\ mpc' = "list"
  /\ UNCHANGED <<servers, at, closer, tools, failed, toolsErr, closeErrs, gone>>

DialFails ==
  /\ mpc = "dial"
  /\ at <= Len(servers)
  /\ failed' = failed \cup {at}
  /\ at' = at + 1
  /\ UNCHANGED <<servers, mpc, open, closer, tools, toolsErr, closeErrs, gone>>

ListTools ==
  /\ mpc = "list"
  /\ at \notin gone
  /\ closer' = closer \cup {at}
  /\ tools' = Adapted(tools, at)
  /\ mpc' = "dial"
  /\ at' = at + 1
  /\ UNCHANGED <<servers, open, failed, toolsErr, closeErrs, gone>>

\* Mutant of ListFails: the client is not closed.
ListFailsOpen ==
  /\ mpc = "list"
  /\ failed' = failed \cup {at}
  /\ mpc' = "dial"
  /\ at' = at + 1
  /\ UNCHANGED <<servers, open, closer, tools, toolsErr, closeErrs, gone>>

\* The client is closed, an error of Close dropped.
ListFails ==
  /\ mpc = "list"
  /\ open' = open \ {at}
  /\ failed' = failed \cup {at}
  /\ mpc' = "dial"
  /\ at' = at + 1
  /\ UNCHANGED <<servers, closer, tools, toolsErr, closeErrs, gone>>

\* After the loop: an error if there were servers and every one failed.
Return ==
  LET none == Len(servers) > 0 /\ Cardinality(failed) = Len(servers)
  IN  /\ mpc = "dial"
      /\ at > Len(servers)
      /\ toolsErr' = none
      /\ open' = IF none THEN open \ closer ELSE open
      /\ tools' = IF none THEN <<>> ELSE tools
      /\ mpc' = "returned"
      /\ UNCHANGED <<servers, at, closer, failed, closeErrs, gone>>

\* Mutant of Close: the first client that errs ends the loop.
CloseStops(errs) ==
  /\ mpc \in {"returned", "closed"}
  /\ open' = {c \in open : \E e \in errs : e < c}
  /\ closeErrs' = errs
  /\ mpc' = "closed"
  /\ UNCHANGED <<servers, at, closer, tools, failed, toolsErr, gone>>

\* multiCloser.Close: every client is closed, those in errs with an error, and the
\* errors returned together.
Close(errs) ==
  /\ mpc \in {"returned", "closed"}
  /\ open' = open \ closer
  /\ closeErrs' = errs
  /\ mpc' = "closed"
  /\ UNCHANGED <<servers, at, closer, tools, failed, toolsErr, gone>>

\* A server exits by itself (external).
Exit(c) ==
  /\ c \in open \ gone
  /\ gone' = gone \cup {c}
  /\ UNCHANGED <<servers, at, mpc, open, closer, tools, failed, toolsErr, closeErrs>>

McpNext ==
  \/ Dial \/ DialFails \/ ListTools \/ ListFails \/ Return
  \/ \E errs \in SUBSET closer : Close(errs)
  \/ \E c \in open : Exit(c)

McpSpec == McpInit /\ [][McpNext]_mvars

------------------------------------------------------------------------------
(* Properties *)

\* Tools: "The returned io.Closer is the only teardown: it shuts down every
\* started client".  While Tools runs, a client it cannot tear down yet is the
\* one it is listing; once it has returned with an error, or the closer was
\* closed, no subprocess is left, whatever failed on the way.
NoLeak ==
  /\ open \subseteq closer \cup (IF mpc = "list" THEN {at} ELSE {})
  /\ mpc = "closed" \/ (mpc = "returned" /\ toolsErr) => open = {}

\* Tools: "Partial failure (at least one server dials and lists successfully)
\* still returns a nil error with the working servers' tools".  What it returns
\* is each working server's tools, in order and under names that differ, that the
\* API accepts, and that send the call to the client and the name they came from.
WorkingToolsServed ==
  mpc = "returned" =>
    LET works == DOMAIN servers \ failed
    IN  /\ toolsErr <=> servers # <<>> /\ works = {}
        /\ \A c \in DOMAIN servers :
             LET mine == Ascending({i \in DOMAIN tools : tools[i].client = c})
             IN  [k \in DOMAIN mine |-> tools[mine[k]].real]
                   = IF c \in works THEN servers[c].tools ELSE <<>>
        /\ \A i, j \in DOMAIN tools : tools[i].name = tools[j].name => i = j
        /\ \A i \in DOMAIN tools : Accepted(tools[i].name)

------------------------------------------------------------------------------
(* The inductive invariant behind WorkingToolsServed *)

Tool == [name : Seq(STRING), real : Seq(STRING), client : Nat]

\* The types, and how far the loop over the servers is.
McpTypeOK ==
  /\ servers \in ServerLists
  /\ tools \in Seq(Tool)
  /\ at \in 1..Len(servers) + 1
  /\ failed \subseteq 1..at - 1
  /\ mpc \in {"dial", "list", "returned", "closed"}
  /\ mpc = "list" => at <= Len(servers)
  /\ mpc \in {"returned", "closed"} => at = Len(servers) + 1

\* The tools of client c are those it listed, in a row.
Served(c) ==
  \E o \in 0..Len(tools) :
    /\ o + Len(servers[c].tools) <= Len(tools)
    /\ \A i \in DOMAIN tools :
         tools[i].client = c <=> o < i /\ i <= o + Len(servers[c].tools)
    /\ \A k \in DOMAIN servers[c].tools : tools[o + k].real = servers[c].tools[k]

Unserved(c) == \A i \in DOMAIN tools : tools[i].client # c

\* The tools of each server that worked so far, under names of their own.
ToolsInv ==
  /\ \A c \in DOMAIN servers : IF c < at /\ c \notin failed THEN Served(c) ELSE Unserved(c)
  /\ \A i \in DOMAIN tools : tools[i].client \in DOMAIN servers /\ Accepted(tools[i].name)
  /\ \A i, j \in DOMAIN tools : tools[i].name = tools[j].name => i = j
  /\ mpc = "returned" => (toolsErr <=> servers # <<>> /\ DOMAIN servers \subseteq failed)
==============================================================================
