-------------------------- MODULE ModuleConf_proofs --------------------------
(***************************************************************************)
(* For every configuration file, however many blocks it has and however    *)
(* deep they nest: merging the blocks one by one with the block around     *)
(* them gives each the directives of the nearest block that has them, so a *)
(* file is refused for its simset exactly when it should be, and a running *)
(* server never gives the handler a cache that is not the block's.         *)
(***************************************************************************)
EXTENDS ModuleConf, TLAPS

Said == Simsets \cup {Unset}
Kinds == {"server", "location", "if"}
Why == {"reading", "merging", "running", "no_memory", "bad_directive", "bad_simset"}
Caches == {Unset, Error} \cup Block
LocConfs == [enable : {Unset, 0, 1}, simset : Said \cup {0}, cache : Caches]

TypeOK ==
  /\ status \in Why
  /\ blocks \in Nat \ {0}
  /\ parent \in Seq(Nat) /\ Len(parent) = blocks
  /\ kind \in Seq(Kinds) /\ Len(kind) = blocks
  /\ file \in Seq(Said) /\ Len(file) = blocks
  /\ conf \in Seq(LocConfs) /\ Len(conf) = blocks
  /\ handler \subseteq Block
  /\ merged \subseteq Block

\* Blocks are numbered from the outside in, and an if block is inside another.
TreeInv ==
  \A b \in Block :
    /\ parent[b] \in 0 .. b - 1
    /\ kind[b] = "if" => parent[b] # 0

\* The part of a block not merged yet says what the file says of the block.
OwnInv ==
  \A b \in Block \ merged :
    conf[b] = [enable |-> IF b \in handler THEN 1 ELSE Unset,
               simset |-> file[b], cache |-> Unset]

\* Whether the directive is given for the block or a block around it.
EnableSaid(b) == IF Around(b) \cap handler # {} THEN 1 ELSE 0

\* The part of a merged block says what the file says of the block and of
\* those around it; the cache is there if the block is to have one.
MergedInv ==
  \A b \in merged :
    /\ parent[b] # 0 => parent[b] \in merged
    /\ conf[b].enable = EnableSaid(b)
    /\ conf[b].simset = SimsetSaid(b) /\ conf[b].simset # Unset
    /\ conf[b].enable = 1 => conf[b].cache \in {b, Error}
    /\ conf[b].enable = 1 /\ status # "bad_simset" => conf[b].simset = Required

StatusInv ==
  /\ status = "reading" => merged = {}
  /\ status = "running" => merged = Block
  /\ status = "bad_simset" => ~WellConfigured

IInv == TypeOK /\ TreeInv /\ OwnInv /\ MergedInv /\ StatusInv

-----------------------------------------------------------------------------
(* The blocks around a block.                                              *)

\* Blocks outside the first b do not surround it.
LEMMA AroundWithin ==
  ASSUME TypeOK, TreeInv, NEW b \in Block
  PROVE  b \in Around(b) /\ Around(b) \subseteq 1 .. b
<1>1. b \in Around(b)
  BY DEF Around
<1>2. ASSUME NEW c \in Around(b)
      PROVE  c \in 1 .. b
  <2> DEFINE S == 1 .. b
  <2>1. b \in Nat /\ S \subseteq Block /\ b \in S
    BY DEF Block, TypeOK
  <2>2. \A d \in S : parent[d] \in S \cup {0}
    BY <2>1 DEF TreeInv
  <2> QED
    BY <2>1, <2>2 DEF Around
<1> QED
  BY <1>1, <1>2

\* Around the server there is nothing.
LEMMA AroundServer ==
  ASSUME NEW b \in Block, parent[b] = 0
  PROVE  Around(b) = {b}
<1>1. ASSUME NEW c \in Around(b)
      PROVE  c = b
  <2>1. {b} \in SUBSET Block /\ b \in {b}
    OBVIOUS
  <2>2. \A d \in {b} : parent[d] \in {b} \cup {0}
    OBVIOUS
  <2>3. c \in {b}
    BY <2>1, <2>2 DEF Around
  <2> QED
    BY <2>3
<1>2. b \in Around(b)
  BY DEF Around
<1> QED
  BY <1>1, <1>2

\* Around any other block is what is around the one it is in, and itself.
LEMMA AroundOuter ==
  ASSUME TypeOK, TreeInv, NEW b \in Block, parent[b] # 0
  PROVE  parent[b] \in Block /\ Around(b) = {b} \cup Around(parent[b])
<1> DEFINE p == parent[b]
<1>1. p \in Block
  BY DEF TreeInv, Block, TypeOK
<1>2. ASSUME NEW c \in Around(b)
      PROVE  c \in {b} \cup Around(p)
  <2> DEFINE S == {b} \cup Around(p)
  <2>1. S \in SUBSET Block /\ b \in S
    BY DEF Around
  <2>2. p \in S
    BY <1>1 DEF Around
  <2>3. ASSUME NEW d \in Around(p)
        PROVE  parent[d] \in Around(p) \cup {0}
    <3> SUFFICES ASSUME parent[d] # 0, NEW T \in SUBSET Block, p \in T,
                        \A e \in T : parent[e] \in T \cup {0}
                 PROVE  parent[d] \in T /\ parent[d] \in Block
      <4>1. d \in Block
        BY DEF Around
      <4>2. parent[d] # 0 => parent[d] \in Block
        BY <4>1 DEF TreeInv, Block, TypeOK
      <4> QED
        BY <4>2 DEF Around
    <3>1. d \in T
      BY DEF Around
    <3> QED
      BY <3>1
  <2>4. \A d \in S : parent[d] \in S \cup {0}
    BY <2>2, <2>3
  <2> QED
    BY <2>1, <2>4 DEF Around
<1>3. ASSUME NEW c \in Around(p)
      PROVE  c \in Around(b)
  <2> SUFFICES ASSUME NEW T \in SUBSET Block, b \in T,
                      \A e \in T : parent[e] \in T \cup {0}
               PROVE  c \in T
    BY DEF Around
  <2>1. p \in T
    OBVIOUS
  <2> QED
    BY <2>1 DEF Around
<1>4. b \in Around(b)
  BY DEF Around
<1> QED
  BY <1>1, <1>2, <1>3, <1>4

\* The nearest directive is the block's own, or else the nearest of the block
\* it is in.
LEMMA NearestSimset ==
  ASSUME TypeOK, TreeInv, NEW b \in Block
  PROVE  SimsetSaid(b) = IF file[b] # Unset THEN file[b]
                         ELSE IF parent[b] = 0 THEN 0
                         ELSE SimsetSaid(parent[b])
<1> DEFINE given == {c \in Around(b) : file[c] # Unset}
<1>1. CASE file[b] # Unset
  <2>1. b \in given /\ \A d \in given : d \in 1 .. b
    BY <1>1, AroundWithin
  <2>2. b \in Nat /\ \A d \in given : d \in Nat /\ d <= b
    BY <2>1 DEF Block, TypeOK
  <2>3. \A c \in given : (\A d \in given : d <= c) => c = b
    <3> TAKE c \in given
    <3> HAVE \A d \in given : d <= c
    <3>1. b <= c /\ c <= b /\ c \in Nat
      BY <2>1, <2>2
    <3> QED
      BY <3>1, <2>2
  <2>4. (CHOOSE c \in given : \A d \in given : d <= c) = b
    BY <2>1, <2>2, <2>3
  <2> QED
    BY <1>1, <2>1, <2>4 DEF SimsetSaid
<1>2. CASE file[b] = Unset /\ parent[b] = 0
  <2>1. given = {}
    BY <1>2, AroundServer
  <2> QED
    BY <1>2, <2>1 DEF SimsetSaid
<1>3. CASE file[b] = Unset /\ parent[b] # 0
  <2> DEFINE N(g) == IF g = {} THEN 0 ELSE file[CHOOSE c \in g : \A d \in g : d <= c]
  <2>1. given = {c \in Around(parent[b]) : file[c] # Unset}
    BY <1>3, AroundOuter
  <2>2. SimsetSaid(b) = N(given)
    BY DEF SimsetSaid
  <2>3. SimsetSaid(parent[b]) = N({c \in Around(parent[b]) : file[c] # Unset})
    BY DEF SimsetSaid
  <2> HIDE DEF N, given
  <2>4. SimsetSaid(b) = SimsetSaid(parent[b])
    BY <2>1, <2>2, <2>3
  <2> QED
    BY <1>3, <2>4
<1> QED
  BY <1>1, <1>2, <1>3

\* A block is to be the module's if it has the directive, or the block it is
\* in is.
LEMMA EnableOuter ==
  ASSUME TypeOK, TreeInv, NEW b \in Block
  PROVE  EnableSaid(b) = IF b \in handler THEN 1
                         ELSE IF parent[b] = 0 THEN 0
                         ELSE EnableSaid(parent[b])
<1>1. CASE b \in handler
  BY <1>1, AroundWithin DEF EnableSaid
<1>2. CASE b \notin handler /\ parent[b] = 0
  <2>1. Around(b) \cap handler = {}
    BY <1>2, AroundServer
  <2> QED
    BY <1>2, <2>1 DEF EnableSaid
<1>3. CASE b \notin handler /\ parent[b] # 0
  <2>1. Around(b) \cap handler = Around(parent[b]) \cap handler
    BY <1>3, AroundOuter
  <2> QED
    BY <1>3, <2>1 DEF EnableSaid
<1> QED
  BY <1>1, <1>2, <1>3

-----------------------------------------------------------------------------
(* The invariant.                                                          *)

LEMMA AppendFacts ==
  ASSUME NEW S, NEW seq \in Seq(S), NEW e \in S
  PROVE  /\ Append(seq, e) \in Seq(S) /\ Len(Append(seq, e)) = Len(seq) + 1
         /\ \A k \in 1 .. Len(seq) : Append(seq, e)[k] = seq[k]
         /\ Append(seq, e)[Len(seq) + 1] = e
OBVIOUS

LEMMA InitEstablishes == Init => IInv
<1> SUFFICES ASSUME Init PROVE IInv
  OBVIOUS
<1>1. Block = {1} /\ merged = {} /\ handler = {} /\ status = "reading" /\ blocks = 1
  BY DEF Init, Block
<1>2. parent = <<0>> /\ kind = <<"server">> /\ file = <<Unset>>
      /\ conf = <<create_loc_conf>>
  BY DEF Init
<1>3. create_loc_conf \in LocConfs
  BY DEF create_loc_conf, LocConfs, Caches, Said
<1>4. TypeOK
  BY <1>1, <1>2, <1>3 DEF TypeOK, Why, Kinds, Said
<1>5. TreeInv
  BY <1>1, <1>2 DEF TreeInv
<1>6. OwnInv
  BY <1>1, <1>2 DEF OwnInv, create_loc_conf
<1>7. MergedInv /\ StatusInv
  BY <1>1 DEF MergedInv, StatusInv
<1> QED
  BY <1>4, <1>5, <1>6, <1>7 DEF IInv

\* A new block changes nothing for those that are there.
LEMMA OpenBlockKeeps ==
  ASSUME IInv, OpenBlock
  PROVE  IInv'
<1> SUFFICES TypeOK' /\ TreeInv' /\ OwnInv' /\ MergedInv' /\ StatusInv'
  BY DEF IInv
<1> TypeOK /\ TreeInv /\ OwnInv /\ MergedInv /\ StatusInv
  BY DEF IInv
<1>1. PICK p \in Block, k \in {"location", "if"} :
        /\ status = "reading" /\ merged = {}
        /\ parent' = Append(parent, p) /\ kind' = Append(kind, k)
        /\ file' = Append(file, Unset)
        /\ conf' = Append(conf, create_loc_conf)
        /\ blocks' = blocks + 1
        /\ UNCHANGED <<status, handler, merged>>
  BY DEF OpenBlock, StatusInv
<1>2. /\ Block' = Block \cup {blocks + 1} /\ Block = 1 .. blocks
      /\ blocks \in Nat \ {0} /\ blocks + 1 \notin Block
  <2>1. blocks \in Nat \ {0}
    BY DEF TypeOK
  <2>2. 1 .. blocks + 1 = (1 .. blocks) \cup {blocks + 1} /\ blocks + 1 \notin 1 .. blocks
    BY <2>1
  <2>3. Block' = 1 .. blocks + 1
    BY <1>1 DEF Block
  <2> QED
    BY <2>1, <2>2, <2>3 DEF Block
<1>3. create_loc_conf \in LocConfs'
  BY DEF create_loc_conf, LocConfs, Caches, Said
<1>4. LocConfs \subseteq LocConfs'
  BY <1>2 DEF LocConfs, Caches
<1>5. p \in Nat /\ Unset \in Said /\ k \in Kinds
  BY <1>2 DEF Said, Kinds
<1>6. conf \in Seq(LocConfs') /\ Len(conf) = blocks
  BY <1>4 DEF TypeOK
<1>7. /\ conf' \in Seq(LocConfs') /\ Len(conf') = blocks'
      /\ \A b \in Block : conf'[b] = conf[b]
      /\ conf'[blocks + 1] = create_loc_conf
  BY <1>1, <1>2, <1>3, <1>6, AppendFacts
<1>8. /\ parent' \in Seq(Nat) /\ Len(parent') = blocks'
      /\ \A b \in Block : parent'[b] = parent[b]
      /\ parent'[blocks + 1] = p
  <2>1. parent \in Seq(Nat) /\ Len(parent) = blocks
    BY DEF TypeOK
  <2> QED
    BY SMTT(30), <1>1, <1>2, <1>5, <2>1, AppendFacts
<1>9. /\ kind' \in Seq(Kinds) /\ Len(kind') = blocks'
      /\ \A b \in Block : kind'[b] = kind[b]
  <2>1. kind \in Seq(Kinds) /\ Len(kind) = blocks
    BY DEF TypeOK
  <2>2. kind' = Append(kind, k) /\ blocks' = blocks + 1
    BY <1>1
  <2>3. 1 .. Len(kind) = Block
    BY <1>2, <2>1
  <2> QED
    BY <1>5, <2>1, <2>2, <2>3, AppendFacts
<1>10. /\ file' \in Seq(Said) /\ Len(file') = blocks'
       /\ \A b \in Block : file'[b] = file[b]
       /\ file'[blocks + 1] = Unset
  <2>1. file \in Seq(Said) /\ Len(file) = blocks
    BY DEF TypeOK
  <2> QED
    BY SMTT(30), <1>1, <1>2, <1>5, <2>1, AppendFacts
<1>11. TypeOK'
  <2>1. blocks' \in Nat \ {0} /\ handler' \subseteq Block' /\ merged' \subseteq Block'
        /\ status' \in Why
    BY <1>1, <1>2 DEF TypeOK
  <2> QED
    BY <1>7, <1>8, <1>9, <1>10, <2>1 DEF TypeOK
<1>12. TreeInv'
  <2> SUFFICES ASSUME NEW b \in Block'
               PROVE  parent'[b] \in 0 .. b - 1 /\ (kind'[b] = "if" => parent'[b] # 0)
    BY DEF TreeInv
  <2>1. CASE b \in Block
    BY <1>8, <1>9, <2>1 DEF TreeInv
  <2>2. CASE b = blocks + 1
    BY <1>2, <1>8, <2>2
  <2> QED
    BY <1>2, <2>1, <2>2
<1>13. OwnInv'
  <2> SUFFICES ASSUME NEW b \in Block'
               PROVE  conf'[b] = [enable |-> IF b \in handler THEN 1 ELSE Unset,
                                  simset |-> file'[b], cache |-> Unset]
    BY <1>1 DEF OwnInv
  <2>1. CASE b \in Block
    BY <1>1, <1>7, <1>10, <2>1 DEF OwnInv
  <2>2. CASE b = blocks + 1
    <3>1. b \notin handler
      BY <1>2, <2>2 DEF TypeOK
    <3> QED
      BY <1>7, <1>10, <2>2, <3>1 DEF create_loc_conf
  <2> QED
    BY <1>2, <2>1, <2>2
<1>14. MergedInv' /\ StatusInv'
  BY <1>1 DEF MergedInv, StatusInv
<1> QED
  BY <1>11, <1>12, <1>13, <1>14

\* The two directives of a location.
LEMMA DirectivesKeep ==
  ASSUME IInv, NEW b \in Block, DataVsTime(b) \/ Simset(b)
  PROVE  IInv'
<1> SUFFICES TypeOK' /\ TreeInv' /\ OwnInv' /\ MergedInv' /\ StatusInv'
  BY DEF IInv
<1> TypeOK /\ TreeInv /\ OwnInv /\ MergedInv /\ StatusInv
  BY DEF IInv
<1>1. status = "reading" /\ merged = {} /\ UNCHANGED <<status, tree, merged>>
      /\ Block' = Block
  BY DEF DataVsTime, Simset, StatusInv, tree, Block
<1>2. b \in 1 .. Len(conf) /\ b \in 1 .. Len(file) /\ conf[b] \in LocConfs
  BY DEF TypeOK, Block
<1>3. LocConfs' = LocConfs
  BY <1>1 DEF LocConfs, Caches
<1>4. TreeInv' /\ MergedInv' /\ StatusInv'
  BY <1>1 DEF TreeInv, MergedInv, StatusInv, tree
<1>5. CASE DataVsTime(b)
  <2>1. handler' = handler \cup {b} /\ file' = file
        /\ conf' = [conf EXCEPT ![b] = [conf[b] EXCEPT !.enable = 1]]
    BY <1>5 DEF DataVsTime
  <2>2. [conf[b] EXCEPT !.enable = 1] \in LocConfs
    BY <1>2 DEF LocConfs
  <2>3. conf' \in Seq(LocConfs) /\ Len(conf') = Len(conf)
    BY <1>2, <2>1, <2>2 DEF TypeOK
  <2>4. TypeOK'
    BY <1>1, <1>3, <2>1, <2>3 DEF TypeOK, tree
  <2>5. OwnInv'
    <3> SUFFICES ASSUME NEW c \in Block
                 PROVE  conf'[c] = [enable |-> IF c \in handler' THEN 1 ELSE Unset,
                                    simset |-> file'[c], cache |-> Unset]
      BY <1>1 DEF OwnInv
    <3>1. conf[c] = [enable |-> IF c \in handler THEN 1 ELSE Unset,
                     simset |-> file[c], cache |-> Unset]
      BY <1>1 DEF OwnInv
    <3>2. c \in 1 .. Len(conf)
      BY DEF TypeOK, Block
    <3>3. CASE c = b
      <4>1. conf'[c] = [conf[c] EXCEPT !.enable = 1]
        BY <2>1, <3>2, <3>3 DEF TypeOK
      <4> QED
        BY <2>1, <3>1, <3>3, <4>1
    <3>4. CASE c # b
      <4>1. conf'[c] = conf[c]
        BY <2>1, <3>2, <3>4 DEF TypeOK
      <4> QED
        BY <2>1, <3>1, <3>4, <4>1
    <3> QED
      BY <3>3, <3>4
  <2> QED
    BY <1>4, <2>4, <2>5
<1>6. CASE Simset(b)
  <2>1. PICK v \in Simsets :
          /\ conf' = [conf EXCEPT ![b] = [conf[b] EXCEPT !.simset = v]]
          /\ file' = [file EXCEPT ![b] = v]
          /\ handler' = handler
    BY <1>6 DEF Simset
  <2>2. [conf[b] EXCEPT !.simset = v] \in LocConfs
    BY <1>2 DEF LocConfs, Said
  <2>3. conf' \in Seq(LocConfs) /\ Len(conf') = Len(conf)
        /\ file' \in Seq(Said) /\ Len(file') = Len(file)
    BY <1>2, <2>1, <2>2 DEF TypeOK, Said
  <2>4. TypeOK'
    BY <1>1, <1>3, <2>1, <2>3 DEF TypeOK, tree
  <2>5. OwnInv'
    <3> SUFFICES ASSUME NEW c \in Block
                 PROVE  conf'[c] = [enable |-> IF c \in handler THEN 1 ELSE Unset,
                                    simset |-> file'[c], cache |-> Unset]
      BY <1>1, <2>1 DEF OwnInv
    <3>1. conf[c] = [enable |-> IF c \in handler THEN 1 ELSE Unset,
                     simset |-> file[c], cache |-> Unset]
      BY <1>1 DEF OwnInv
    <3>2. c \in 1 .. Len(conf) /\ c \in 1 .. Len(file)
      BY DEF TypeOK, Block
    <3>3. CASE c = b
      <4>1. conf'[c] = [conf[c] EXCEPT !.simset = v] /\ file'[c] = v
        BY <2>1, <3>2, <3>3 DEF TypeOK
      <4> QED
        BY <3>1, <4>1
    <3>4. CASE c # b
      <4>1. conf'[c] = conf[c] /\ file'[c] = file[c]
        BY <2>1, <3>2, <3>4 DEF TypeOK
      <4> QED
        BY <3>1, <4>1
    <3> QED
      BY <3>3, <3>4
  <2> QED
    BY <1>4, <2>4, <2>5
<1> QED
  BY <1>5, <1>6

\* Steps that leave the file and the parts of the blocks as they are.
LEMMA StatusSteps ==
  ASSUME IInv, CreateFails \/ BadDirective \/ EndOfFile \/ Run \/ UNCHANGED vars
  PROVE  IInv'
<1> SUFFICES TypeOK' /\ TreeInv' /\ OwnInv' /\ MergedInv' /\ StatusInv'
  BY DEF IInv
<1> TypeOK /\ TreeInv /\ OwnInv /\ MergedInv /\ StatusInv
  BY DEF IInv
<1>1. /\ UNCHANGED <<tree, file, conf, handler, merged>>
      /\ \/ status = "reading" /\ status' \in {"no_memory", "bad_directive", "merging"}
         \/ status = "merging" /\ status' = "running" /\ merged = Block
         \/ status' = status
  BY DEF CreateFails, BadDirective, EndOfFile, Run, Refuse, vars
<1>2. /\ blocks' = blocks /\ parent' = parent /\ kind' = kind /\ Block' = Block
      /\ LocConfs' = LocConfs
  BY <1>1 DEF tree, Block, LocConfs, Caches
<1>3. TypeOK'
  BY <1>1, <1>2 DEF TypeOK, Why
<1>4. TreeInv' /\ OwnInv'
  BY <1>1, <1>2 DEF TreeInv, OwnInv
<1>5. /\ \A b : Around(b)' = Around(b)
      /\ \A b : EnableSaid(b)' = EnableSaid(b)
      /\ \A b : SimsetSaid(b)' = SimsetSaid(b)
  BY <1>1, <1>2 DEF Around, EnableSaid, SimsetSaid
<1>6. MergedInv'
  BY <1>1, <1>2, <1>5 DEF MergedInv, StatusInv
<1>7. StatusInv'
  BY <1>1, <1>2, <1>5 DEF StatusInv, WellConfigured
<1> QED
  BY <1>3, <1>4, <1>6, <1>7

\* Merging a block with the one it is in gives what the file says of it.
LEMMA MergedConfSaid ==
  ASSUME IInv, NEW b \in Block, CanMerge(b)
  PROVE  /\ MergedConf(b) = [enable |-> EnableSaid(b), simset |-> SimsetSaid(b),
                             cache |-> Unset]
         /\ SimsetSaid(b) # Unset
<1> TypeOK /\ TreeInv /\ OwnInv /\ MergedInv
  BY DEF IInv
<1>1. conf[b] = [enable |-> IF b \in handler THEN 1 ELSE Unset,
                 simset |-> file[b], cache |-> Unset]
  BY DEF CanMerge, OwnInv
<1> DEFINE e == Merged(conf[b].enable, Outer(b).enable)
           v == Merged(conf[b].simset, Outer(b).simset)
<1>2. MergedConf(b) = [enable |-> e, simset |-> v, cache |-> Unset]
  BY <1>1 DEF MergedConf
<1>3. CASE parent[b] = 0
  <2>1. Outer(b) = [enable |-> Unset, simset |-> Unset, cache |-> Unset]
    BY <1>3 DEF Outer, create_loc_conf
  <2>2. /\ EnableSaid(b) = IF b \in handler THEN 1 ELSE 0
        /\ SimsetSaid(b) = IF file[b] # Unset THEN file[b] ELSE 0
    BY <1>3, NearestSimset, EnableOuter
  <2>3. e = EnableSaid(b) /\ v = SimsetSaid(b) /\ SimsetSaid(b) # Unset
    BY <1>1, <2>1, <2>2 DEF Merged, Unset
  <2> QED
    BY <1>2, <2>3
<1>4. CASE parent[b] # 0
  <2>1. parent[b] \in merged
    BY <1>4 DEF CanMerge
  <2>2. /\ Outer(b).enable = EnableSaid(parent[b])
        /\ Outer(b).simset = SimsetSaid(parent[b])
        /\ SimsetSaid(parent[b]) # Unset
    BY <1>4, <2>1 DEF Outer, MergedInv
  <2>3. EnableSaid(parent[b]) # Unset
    BY DEF EnableSaid, Unset
  <2>4. /\ EnableSaid(b) = IF b \in handler THEN 1 ELSE EnableSaid(parent[b])
        /\ SimsetSaid(b) = IF file[b] # Unset THEN file[b] ELSE SimsetSaid(parent[b])
    BY <1>4, NearestSimset, EnableOuter
  <2>5. e = EnableSaid(b) /\ v = SimsetSaid(b) /\ SimsetSaid(b) # Unset
    BY <1>1, <2>2, <2>3, <2>4 DEF Merged, Unset
  <2> QED
    BY <1>2, <2>5
<1> QED
  BY <1>3, <1>4

LEMMA MergeBlockKeeps ==
  ASSUME IInv, NEW b \in Block, MergeBlock(b)
  PROVE  IInv'
<1> SUFFICES TypeOK' /\ TreeInv' /\ OwnInv' /\ MergedInv' /\ StatusInv'
  BY DEF IInv
<1> TypeOK /\ TreeInv /\ OwnInv /\ MergedInv /\ StatusInv
  BY DEF IInv
<1> DEFINE e == EnableSaid(b)
           v == SimsetSaid(b)
<1>1. /\ b \notin merged /\ (parent[b] # 0 => parent[b] \in merged)
      /\ status = "merging" /\ CanMerge(b)
      /\ merged' = merged \cup {b}
      /\ UNCHANGED <<tree, file, handler>>
  BY DEF MergeBlock, CanMerge
<1>2. /\ blocks' = blocks /\ parent' = parent /\ kind' = kind /\ Block' = Block
      /\ LocConfs' = LocConfs
  BY <1>1 DEF tree, Block, LocConfs, Caches
<1>3. MergedConf(b) = [enable |-> e, simset |-> v, cache |-> Unset] /\ v # Unset
  BY <1>1, MergedConfSaid DEF IInv
<1>4. e \in {0, 1}
  BY DEF EnableSaid
<1>5. b \in 1 .. Len(conf) /\ conf[b] \in LocConfs
  BY DEF TypeOK, Block
<1>6. PICK c \in {b, Error, Unset} :
        /\ conf' = [conf EXCEPT ![b] = [MergedConf(b) EXCEPT !.cache = c]]
        /\ e = 1 => c \in {b, Error}
  <2>1. PICK c \in IF Enabled(b) THEN {b, Error} ELSE {conf[b].cache} :
          conf' = [conf EXCEPT ![b] = [MergedConf(b) EXCEPT !.cache = c]]
    BY DEF MergeBlock, merge_loc_conf
  <2>2. Enabled(b) <=> e = 1
    BY <1>3 DEF Enabled
  <2>3. conf[b].cache = Unset
    <3>1. b \in Block \ merged
      BY <1>1
    <3>2. conf[b] = [enable |-> IF b \in handler THEN 1 ELSE Unset,
                     simset |-> file[b], cache |-> Unset]
      BY <3>1 DEF OwnInv
    <3> QED
      BY <3>2
  <2> QED
    BY <2>1, <2>2, <2>3
<1> DEFINE new == [enable |-> e, simset |-> v, cache |-> c]
<1>7. conf' = [conf EXCEPT ![b] = new]
  <2>1. [MergedConf(b) EXCEPT !.cache = c] = new
    BY <1>3
  <2> QED
    BY <1>6, <2>1
<1>8. status' = IF e = 1 /\ v # Required THEN "bad_simset" ELSE "merging"
  BY <1>3 DEF MergeBlock, Refused
<1>9. v \in Said \cup {0}
  <2>1. parent[b] # 0 => conf[parent[b]].simset \in Said \cup {0}
    <3> SUFFICES ASSUME parent[b] # 0
                 PROVE  conf[parent[b]].simset \in Said \cup {0}
      OBVIOUS
    <3>1. parent[b] \in 1 .. Len(conf)
      BY AroundOuter DEF TypeOK, Block
    <3>2. conf[parent[b]] \in LocConfs
      BY <3>1 DEF TypeOK
    <3> QED
      BY <3>2 DEF LocConfs
  <2>2. file[b] \in Said
    BY DEF TypeOK, Block
  <2>3. parent[b] # 0 => conf[parent[b]].simset = SimsetSaid(parent[b])
    BY <1>1 DEF MergedInv
  <2> QED
    BY <2>1, <2>2, <2>3, NearestSimset
<1>10. new \in LocConfs
  BY <1>4, <1>6, <1>9 DEF LocConfs, Caches
<1> HIDE DEF new, e, v
<1>11. conf' \in Seq(LocConfs) /\ Len(conf') = blocks
       /\ conf'[b] = new /\ \A d \in Block : d # b => conf'[d] = conf[d]
  BY <1>5, <1>7, <1>10 DEF TypeOK, Block
<1>12. TypeOK'
  BY <1>1, <1>2, <1>8, <1>11 DEF TypeOK, Why
<1>13. TreeInv'
  BY <1>2 DEF TreeInv
<1>14. OwnInv'
  BY <1>1, <1>2, <1>11 DEF OwnInv
<1>15. /\ \A d : Around(d)' = Around(d)
       /\ \A d : EnableSaid(d)' = EnableSaid(d)
       /\ \A d : SimsetSaid(d)' = SimsetSaid(d)
  BY <1>1, <1>2 DEF Around, EnableSaid, SimsetSaid
<1>16. MergedInv'
  <2> SUFFICES ASSUME NEW d \in merged'
               PROVE  /\ parent[d] # 0 => parent[d] \in merged'
                      /\ conf'[d].enable = EnableSaid(d)
                      /\ conf'[d].simset = SimsetSaid(d) /\ conf'[d].simset # Unset
                      /\ conf'[d].enable = 1 => conf'[d].cache \in {d, Error}
                      /\ conf'[d].enable = 1 /\ status' # "bad_simset" =>
                           conf'[d].simset = Required
    BY <1>2, <1>15 DEF MergedInv
  <2>1. CASE d = b
    BY <1>1, <1>3, <1>6, <1>8, <1>11, <2>1 DEF new, e, v
  <2>2. CASE d # b
    BY <1>1, <1>11, <2>2 DEF MergedInv, TypeOK
  <2> QED
    BY <2>1, <2>2
<1>17. StatusInv'
  <2>1. e = 1 /\ v # Required => ~WellConfigured
    BY DEF WellConfigured, EnableSaid, e, v
  <2>2. WellConfigured' <=> WellConfigured
    BY <1>1, <1>2, <1>15 DEF WellConfigured
  <2> QED
    BY <1>8, <2>1, <2>2 DEF StatusInv
<1> QED
  BY <1>12, <1>13, <1>14, <1>16, <1>17

LEMMA NextKeeps == IInv /\ [Next]_vars => IInv'
<1> SUFFICES ASSUME IInv, [Next]_vars
             PROVE  IInv'
  OBVIOUS
<1>1. CASE OpenBlock
  BY <1>1, OpenBlockKeeps
<1>2. CASE \E b \in Block : DataVsTime(b) \/ Simset(b)
  BY <1>2, DirectivesKeep
<1>3. CASE \E b \in Block : MergeBlock(b)
  BY <1>3, MergeBlockKeeps
<1>4. CASE CreateFails \/ BadDirective \/ EndOfFile \/ Run \/ UNCHANGED vars
  BY <1>4, StatusSteps
<1> QED
  BY <1>1, <1>2, <1>3, <1>4 DEF Next

\* The types, the shape of the tree, and what each part says of its block.
THEOREM ConfInvariant == Spec => []IInv
<1>1. Init => IInv
  BY InitEstablishes
<1>2. IInv /\ [Next]_vars => IInv'
  BY NextKeeps
<1> QED
  BY <1>1, <1>2, PTL DEF Spec

-----------------------------------------------------------------------------
(* What it gives.                                                          *)

\* ngx_http_data_vs_time_handler is only given a location's part with the
\* required simset and a cache built for that location, or the error of its
\* building, for every file, in every order of the merge.
THEOREM HandlerCache == Spec => []HandlerMeetsCache
<1>1. IInv => HandlerMeetsCache
  <2> SUFFICES ASSUME IInv, status = "running", NEW b \in Block, Handled(b)
               PROVE  conf[b].simset = Required /\ conf[b].cache \in {b, Error}
    BY DEF HandlerMeetsCache
  <2> TypeOK /\ TreeInv /\ MergedInv /\ StatusInv
    BY DEF IInv
  <2>1. b \in merged
    BY DEF StatusInv
  <2>2. Around(b) \cap handler # {}
    <3>1. CASE b \in handler
      BY <3>1, AroundWithin
    <3>2. CASE kind[b] = "if" /\ parent[b] \in handler
      <4>1. parent[b] # 0
        BY <3>2 DEF TreeInv
      <4>2. parent[b] \in Block /\ Around(b) = {b} \cup Around(parent[b])
        BY <4>1, AroundOuter
      <4>3. parent[b] \in Around(parent[b])
        BY <4>2, AroundWithin
      <4> QED
        BY <3>2, <4>2, <4>3
    <3> QED
      BY <3>1, <3>2 DEF Handled
  <2>3. conf[b].enable = 1
    BY <2>1, <2>2 DEF MergedInv, EnableSaid
  <2> QED
    BY <2>1, <2>3 DEF MergedInv
<1> QED
  BY <1>1, ConfInvariant, PTL

\* The test of the merged simset in ngx_http_data_vs_time_merge_loc_conf
\* refuses a file if and only if some block that has, or is inside one that
\* has, data_vs_time gets another simset than the required one.
THEOREM Refusals == Spec => []RefusedExactly
<1>1. IInv => RefusedExactly
  <2> SUFFICES ASSUME IInv
               PROVE  RefusedExactly
    OBVIOUS
  <2> TypeOK /\ MergedInv /\ StatusInv
    BY DEF IInv
  <2>1. status = "running" => WellConfigured
    BY DEF MergedInv, StatusInv, WellConfigured, EnableSaid
  <2> QED
    BY <2>1 DEF RefusedExactly, StatusInv
<1> QED
  BY <1>1, ConfInvariant, PTL
=============================================================================
