----------------------------- MODULE MCBootSwap -----------------------------
(* Configurations of the boot loader for TLC: versions s1 and s2 of image 0  *)
(* (secure firmware) and n1 and n2 of image 1 (non-secure firmware).         *)
EXTENDS BootSwap

CONSTANTS s1, s2, n1, n2

MCVersion == {s1, s2, n1, n2}
MCImageOf == [v \in MCVersion |-> IF v \in {s1, s2} THEN 0 ELSE 1]
MCNumber  == [v \in MCVersion |-> IF v \in {s1, n1} THEN 1 ELSE 2]
MCFactory == [i \in 0..1 |-> IF i = 0 THEN s1 ELSE n1]

\* One image in slots of three sectors and a scratch area of one, all images of
\* the same size, downloads whole or broken.
One(st, sz) ==
  [strategy |-> st, images |-> 1, sectors |-> 3, scratch |-> 1,
   size |-> [v \in MCVersion |-> sz], cnt |-> [v \in MCVersion |-> 0],
   dep |-> [v \in MCVersion |-> {}], magic |-> "unset", torn |-> BOOLEAN]

\* Two images; s2 needs n2.
Two(st, sz) ==
  [One(st, sz) EXCEPT !.images = 2, !.sectors = 2, !.torn = {FALSE},
                      !.dep = [@ EXCEPT ![s2] = {<<1, 2>>}]]

Strategies == {"swap", "overwrite"}
BuildsSound == {One(st, sz) : st \in Strategies, sz \in 1..3} \cup
               {Two(st, sz) : st \in Strategies, sz \in 1..2}

BuildsOne     == {One(st, 2) : st \in Strategies}
\* A new version has a higher security counter.
BuildsCnt     == {[One("swap", 2) EXCEPT !.cnt = [v \in MCVersion |-> MCNumber[v]]]}
\* A broken download is possible for each of two images.
BuildsBroken  == {[Two("swap", 1) EXCEPT !.torn = BOOLEAN]}
\* A scratch area of two sectors and an image that reaches the last sector.
BuildsScratch == {[One("swap", 3) EXCEPT !.scratch = 2]}
\* A first image with the magic that the signing script appends.
BuildsMagic   == {[One("swap", 3) EXCEPT !.magic = "good"]}
=============================================================================
