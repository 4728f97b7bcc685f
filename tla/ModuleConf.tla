----------------------------- MODULE ModuleConf -----------------------------
(***************************************************************************)
(* The module's configuration: nginx opens the blocks of its file, creates *)
(* the module's part of each, applies the directives, and merges every     *)
(* block with the one around it.  The first block is the server, where the *)
(* directives are not allowed; the others are locations, which may nest,   *)
(* and if blocks inside a location, where they are not allowed either.     *)
(***************************************************************************)
EXTENDS Integers, Sequences

CONSTANTS
  MaxBlocks,   \* bound on the blocks of a file
  Simsets,     \* numbers given to data_vs_time_simset
  Required     \* 113

ASSUME ConfAssumption ==
  MaxBlocks \in Nat \ {0} /\ Required \in Nat /\ Required # 0 /\ Simsets \subseteq Nat

VARIABLES
  status,    \* "reading", "merging", "running", or why nginx refused the file
  blocks,    \* how many blocks there are
  parent, kind,   \* of each block: the block around it; "server", "location", "if"
  file,      \* of each block: its data_vs_time_simset as written, or Unset
  conf,      \* ngx_http_data_vs_time_loc_conf_t of each block
  handler,   \* clcf->handler is the module's
  merged     \* blocks already merged

tree == <<blocks, parent, kind>>
vars == <<status, tree, file, conf, handler, merged>>

Unset == -1
Error == -2
Block == 1 .. blocks

create_loc_conf == [enable |-> Unset, simset |-> Unset, cache |-> Unset]

Init ==
  /\ status = "reading"
  /\ blocks = 1 /\ parent = <<0>> /\ kind = <<"server">>
  /\ file = <<Unset>> /\ conf = <<create_loc_conf>> /\ handler = {} /\ merged = {}

Refuse(why) ==
  /\ status' = why
  /\ UNCHANGED <<tree, file, conf, handler, merged>>

OpenBlock ==
  /\ status = "reading" /\ blocks < MaxBlocks
  /\ \E p \in Block, k \in {"location", "if"} :
       /\ kind[p] # "if" /\ (k = "if" => kind[p] = "location")
       /\ parent' = Append(parent, p) /\ kind' = Append(kind, k)
  /\ file' = Append(file, Unset)
  /\ conf' = Append(conf, create_loc_conf)
  /\ blocks' = blocks + 1
  /\ UNCHANGED <<status, handler, merged>>

CreateFails == status = "reading" /\ blocks < MaxBlocks /\ Refuse("no_memory")

\* The directive data_vs_time: it may be repeated.
DataVsTime(b) ==
  /\ status = "reading" /\ kind[b] = "location"
  /\ handler' = handler \cup {b}
  /\ conf' = [conf EXCEPT ![b].enable = 1]
  /\ UNCHANGED <<status, tree, file, merged>>

\* ngx_conf_set_num_slot: a second number is a duplicate.
Simset(b) ==
  /\ status = "reading" /\ kind[b] = "location"
  /\ conf[b].simset = Unset
  /\ \E v \in Simsets :
       /\ conf' = [conf EXCEPT ![b].simset = v]
       /\ file' = [file EXCEPT ![b] = v]
  /\ UNCHANGED <<status, tree, handler, merged>>

BadDirective ==
  /\ status = "reading"
  /\ \E b \in Block : kind[b] = "location"
  /\ Refuse("bad_directive")

EndOfFile ==
  /\ status = "reading"
  /\ status' = "merging"
  /\ UNCHANGED <<tree, file, conf, handler, merged>>

\* ngx_conf_merge_value and ngx_conf_merge_uint_value, with the default 0.
Merged(own, outer) ==
  IF own # Unset THEN own ELSE IF outer # Unset THEN outer ELSE 0

\* Around the server is http, whose part is never merged itself.
Outer(b) == IF parent[b] = 0 THEN create_loc_conf ELSE conf[parent[b]]

MergedConf(b) ==
  [enable |-> Merged(conf[b].enable, Outer(b).enable),
   simset |-> Merged(conf[b].simset, Outer(b).simset),
   cache |-> conf[b].cache]

\* The cache is built before the value of the block around is merged.
Enabled_OwnOnly(b) == conf[b].enable = 1

Enabled(b) == MergedConf(b).enable = 1

\* The result of ngx_http_data_vs_time_init is not looked at: what
\* dvt_cache_init returned is the cache, be it an error.  A cache is known by
\* the block it was built for.
merge_loc_conf(b) ==
  \E c \in IF Enabled(b) THEN {b, Error} ELSE {conf[b].cache} :
    conf' = [conf EXCEPT ![b] = [MergedConf(b) EXCEPT !.cache = c]]

\* Blocks are merged in some order that has outer blocks first.
CanMerge(b) ==
  status = "merging" /\ b \notin merged /\ (parent[b] = 0 \/ parent[b] \in merged)

\* The number is checked before it is merged.
Refused_OwnNumber(b) == MergedConf(b).enable = 1 /\ conf[b].simset # Required

Refused(b) == MergedConf(b).enable = 1 /\ MergedConf(b).simset # Required

MergeBlock(b) ==
  /\ CanMerge(b)
  /\ merge_loc_conf(b)
  /\ merged' = merged \cup {b}
  /\ status' = IF Refused(b) THEN "bad_simset" ELSE "merging"
  /\ UNCHANGED <<tree, file, handler>>

Run ==
  /\ status = "merging" /\ merged = Block
  /\ status' = "running"
  /\ UNCHANGED <<tree, file, conf, handler, merged>>

Next ==
  \/ OpenBlock \/ CreateFails
  \/ \E b \in Block : DataVsTime(b) \/ Simset(b) \/ MergeBlock(b)
  \/ BadDirective \/ EndOfFile \/ Run

Spec == Init /\ [][Next]_vars

\* Whether a request that ends in block b is the module's: an if block leaves
\* the handler of its location in place, a nested location does not.
Handled(b) == b \in handler \/ (kind[b] = "if" /\ parent[b] \in handler)

-----------------------------------------------------------------------------
\* Wherever a running server gives a request to the handler, the simset was
\* the required one and the cache is the block's own: never a pointer that was
\* not set, never that of another block, and a build that failed is the only
\* other thing it can find.
HandlerMeetsCache ==
  status = "running" =>
    \A b \in Block : Handled(b) =>
      conf[b].simset = Required /\ conf[b].cache \in {b, Error}

-----------------------------------------------------------------------------
(* What the file says of a block: its own directive, or else that of the   *)
(* nearest block around it that has one.                                   *)

\* The block and the blocks around it: the least set that has the block and,
\* with a block, the one around it.
Around(b) ==
  {c \in Block : \A S \in SUBSET Block :
     b \in S /\ (\A d \in S : parent[d] \in S \cup {0}) => c \in S}

\* Blocks are numbered from the outside in.
SimsetSaid(b) ==
  LET given == {c \in Around(b) : file[c] # Unset} IN
    IF given = {} THEN 0 ELSE file[CHOOSE c \in given : \A d \in given : d <= c]

WellConfigured == \A b \in Block : Around(b) \cap handler # {} => SimsetSaid(b) = Required

\* A file is refused for its simset exactly if some block in or inside a
\* location with data_vs_time has, by the nearest directive around it, another
\* simset than the required one, whatever the order of the merge.
RefusedExactly ==
  /\ status = "running" => WellConfigured
  /\ status = "bad_simset" => ~WellConfigured
=============================================================================
