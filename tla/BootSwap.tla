------------------------------ MODULE BootSwap ------------------------------
(***************************************************************************)
(* The secure boot loader of TF-M (bl2/ext/mcuboot, bootutil): what        *)
(* context_boot_go() does with the slots of every image between a reset    *)
(* and the jump to the image, in the SWAP and the OVERWRITE_ONLY strategy, *)
(* with a power failure possible before, or in the middle of, every single *)
(* flash operation.                                                        *)
(*                                                                         *)
(* The flash has a primary and a secondary slot per image and one scratch  *)
(* area.  A sector holds one piece of an image; the last sector of an area *)
(* also holds its trailer (magic, swap info, copy_done, image_ok, swap     *)
(* size and the status entries of a swap) and takes it along when it is    *)
(* erased.  The functions of the loader read the flash at once; what they  *)
(* write is a plan, a sequence of flash operations of which Step executes  *)
(* one at a time.                                                          *)
(***************************************************************************)
EXTENDS Naturals, Sequences, FiniteSetsExt

CONSTANTS
  Version,          \* the image versions in circulation
  ImageOf,          \* the image a version is a version of
  Number,           \* its version number
  Factory,          \* the version every image starts with
  Builds,           \* the configurations to consider, see BuildOK
  MaxDownloads,     \* bound: images the update client stores
  MaxFails,         \* bound: power failures
  NoVer             \* no version: an erased header

\* A configuration of the loader and of the images.
BuildOK(b) ==
  /\ b.strategy \in {"swap", "overwrite"}         \* MCUBOOT_UPGRADE_STRATEGY
  /\ b.images \in Nat \ {0}                       \* BOOT_IMAGE_NUMBER
  /\ b.sectors \in Nat \ {0}                      \* sectors of a slot
  /\ b.scratch \in Nat \ {0}                      \* sectors of the scratch area
  /\ b.size \in [Version -> 1..b.sectors]         \* sectors an image takes
  /\ b.cnt \in [Version -> Nat]                   \* its security counter
  /\ \A v \in Version :                           \* images it depends on, and
       b.dep[v] \subseteq (0..(b.images - 1)) \X Nat  \* their least version
  /\ b.magic \in {"unset", "good"}                \* trailer of the first image
  /\ b.torn \subseteq BOOLEAN                     \* can a download be broken?

ASSUME BootSwapAssumption ==
  /\ \A b \in Builds : BuildOK(b) /\ \A i \in 0..(b.images - 1) : Factory[i] \in Version
  /\ ImageOf \in [Version -> Nat] /\ Number \in [Version -> Nat]
  /\ {MaxDownloads, MaxFails} \subseteq Nat
  /\ NoVer \notin Version

VARIABLES
  flash,   \* [area -> [data, trailer]]
  cnt,     \* the security counters in non-volatile memory, one per image
  phase,   \* where context_boot_go() is, or "running" or "halted"
  cur,     \* BOOT_CURR_IMG
  type,    \* BOOT_SWAP_TYPE of every image
  hdr,     \* the headers in RAM, by image and slot
  up,      \* has_upgrade
  bs,      \* struct boot_status
  plan,    \* the flash operations that the current function has still to do
  build,   \* the build of the loader and the images: never changes
  goal,    \* ghost: what the reset that started this boot asked for
  spent    \* the bounds used up: [downloads, fails]

ram  == <<phase, cur, type, hdr, up, bs>>
vars == <<flash, cnt, phase, cur, type, hdr, up, bs, plan, build, goal, spent>>

Image == 0..(build.images - 1)

(***************************************************************************)
(* Flash                                                                   *)
(***************************************************************************)
P(i)    == <<"primary", i>>
S(i)    == <<"secondary", i>>
Scratch == <<"scratch", 0>>
Area    == {P(i) : i \in Image} \cup {S(i) : i \in Image} \cup {Scratch}

LastSector(a) == IF a = Scratch THEN build.scratch - 1 ELSE build.sectors - 1

\* A sector that holds piece k of version v; `whole' is FALSE when the copy
\* stopped after the first bytes, which are the header if k = 0.
Piece(v, k) == [ver |-> v, sec |-> k, whole |-> TRUE]
Erased      == [ver |-> NoVer, sec |-> 0, whole |-> FALSE]

NoInfo      == [type |-> "none", img |-> 0]
NoTrailer   == [magic |-> "unset", info |-> NoInfo, done |-> FALSE,
                ok |-> FALSE, size |-> 0, status |-> {}]
\* Image data where a trailer would be: no magic.
DataTrailer == [NoTrailer EXCEPT !.magic = "bad"]

Blank(a)    == [data |-> [k \in 0..LastSector(a) |-> Erased],
                trailer |-> NoTrailer]
Holding(v, t) == [data |-> [k \in 0..(build.sectors - 1) |->
                              IF k < build.size[v] THEN Piece(v, k) ELSE Erased],
                  trailer |-> t]

\* Flash operations.
Erase(a, k)          == [op |-> "erase", area |-> a, sec |-> k]
Copy(src, j, dst, k) == [op |-> "copy", src |-> src, from |-> j,
                         area |-> dst, sec |-> k, trailer |-> "kept"]
Write(a, f, x)       == [op |-> "write", area |-> a, field |-> f, val |-> x]
Status(a, n)         == [op |-> "status", area |-> a, val |-> n]
RaiseCnt(i, c)       == [op |-> "cnt", img |-> i, val |-> c]
Panic                == [op |-> "panic"]

Seq0(n, Op(_))     == [j \in 1..n |-> Op(j - 1)]
EraseAll(a, j, k)  == LET E(x) == Erase(a, j + x) IN Seq0(k + 1 - j, E)
When(c, s)         == IF c THEN s ELSE <<>>

\* The flash after operation o.
After(o) ==
  CASE o.op = "erase"  -> [flash EXCEPT ![o.area] =
                             [data |-> [@.data EXCEPT ![o.sec] = Erased],
                              trailer |-> IF o.sec = LastSector(o.area)
                                          THEN NoTrailer ELSE @.trailer]]
    [] o.op = "copy"   -> [flash EXCEPT ![o.area] =
                             [data |-> [@.data EXCEPT
                                         ![o.sec] = flash[o.src].data[o.from]],
                              trailer |-> CASE o.trailer = "kept" -> @.trailer
                                            [] o.trailer = "data" -> DataTrailer
                                            [] OTHER -> flash[o.src].trailer]]
    [] o.op = "write"  -> [flash EXCEPT ![o.area].trailer[o.field] = o.val]
    [] o.op = "status" -> [flash EXCEPT ![o.area].trailer.status = @ \cup {o.val}]
    [] OTHER           -> flash

\* What a power failure in the middle of o can leave; the other operations
\* program one unit and happen or do not.
Torn(o) ==
  CASE o.op = "copy" /\ flash[o.src].data[o.from] # Erased ->
         {[flash EXCEPT ![o.area].data[o.sec] =
             [flash[o.src].data[o.from] EXCEPT !.whole = FALSE]]}
    [] o.op = "write" /\ o.field = "magic" ->
         {[flash EXCEPT ![o.area].trailer.magic = "bad"]}
    [] OTHER -> {}

(***************************************************************************)
(* Reading the flash                                                       *)
(***************************************************************************)
\* boot_read_image_header(): the version in the header, NoVer if there is none.
Header(a) == IF flash[a].data[0].sec = 0 THEN flash[a].data[0].ver ELSE NoVer

Whole(a, v) == \A k \in 0..(build.size[v] - 1) : flash[a].data[k] = Piece(v, k)

\* boot_image_check() of the slot for the header in RAM: hash, signature and
\* security counter; the counter compared with is always that of image 0.
Valid(a, v) == v # NoVer /\ Whole(a, v) /\ build.cnt[v] >= cnt[0]

\* boot_read_image_headers(): a bad primary header ends the reading.
ReadHeaders(i) ==
  IF Header(P(i)) = NoVer THEN [hdr EXCEPT ![i].p = NoVer]
                          ELSE [hdr EXCEPT ![i] = [p |-> Header(P(i)), s |-> Header(S(i))]]

\* boot_status_source(): the table boot_status_tables, row by row.
StatusSource(i) ==
  LET p == flash[P(i)].trailer
      s == flash[Scratch].trailer
  IN CASE s.magic = "good"                                -> IF s.info.img = i THEN {Scratch} ELSE {}
       [] s.magic # "good" /\ p.magic = "good"  /\ p.done  -> {}
       [] s.magic # "good" /\ p.magic = "good"  /\ ~p.done -> {P(i)}
       [] s.magic # "good" /\ p.magic = "unset" /\ ~p.done -> {P(i)}
       [] OTHER                                           -> {}

\* boot_read_status_bytes(): the first empty entry after the written ones.
\* Mutant: the swap resumes one state too late.
FoundIdx_late(st) == IF st = {} THEN 0 ELSE Min({n + 1 : n \in st} \ st) + 1
FoundIdx(st) == IF st = {} THEN 0 ELSE Min({n + 1 : n \in st} \ st)

Fresh(t) == [idx |-> 0, state |-> 0, type |-> t, size |-> 0]

\* boot_read_status()
ReadStatus(i) ==
  IF build.strategy = "overwrite" \/ StatusSource(i) = {}
  THEN Fresh("none")
  ELSE LET t == flash[CHOOSE a \in StatusSource(i) : TRUE].trailer
           n == FoundIdx(t.status)
       IN [idx |-> n \div 3, state |-> n % 3, type |-> t.info.type, size |-> 0]

\* boot_swap_type_multi(): the table boot_swap_tables, row by row.
SwapType(i) ==
  LET p == flash[P(i)].trailer
      s == flash[S(i)].trailer
  IN CASE s.magic = "good" /\ ~s.ok -> "test"
       [] s.magic = "good" /\ s.ok  -> "perm"
       [] s.magic = "unset" /\ p.magic = "good" /\ ~p.ok /\ p.done -> "revert"
       [] OTHER -> "none"

Upgrade == {"test", "perm", "revert"}   \* BOOT_IS_UPGRADE

\* The swap type of image i when no swap was interrupted, v being the header
\* of its secondary slot: boot_validated_swap_type(), or the type found with
\* the status.
ChosenType(i, v, found) ==
  LET t == IF found = "none" THEN SwapType(i) ELSE found
  IN CASE t \notin Upgrade                  -> t
       [] t \in Upgrade /\ Valid(S(i), v)   -> t
       [] t \in Upgrade /\ v = NoVer        -> IF found = "none" THEN "none" ELSE "fail"
       [] OTHER                             -> "fail"

\* boot_review_image_swap_types() for image i.
Reviewed(ty, i, aborted) ==
  IF aborted \/ ty[i] \notin {"none", "revert"}
  THEN [j \in Image |-> IF j < i /\ ty[j] = "revert" THEN "none" ELSE ty[j]]
  ELSE ty

\* boot_verify_slot_dependencies() of image i: the version that will run, and
\* the one it depends on, as boot_verify_slot_dependency() looks it up.
\* Mutant: an image in the secondary slot counts although it is not installed.
DepsMetBy_waiting(ty, h, i) ==
  LET v == IF ty[i] \in Upgrade THEN h[i].s ELSE h[i].p
      w(j) == h[j].s
  IN \A d \in build.dep[v] : w(d[1]) = NoVer \/ Number[w(d[1])] >= d[2]
DepsMetBy(ty, h, i) ==
  LET v == IF ty[i] \in Upgrade THEN h[i].s ELSE h[i].p
      w(j) == IF ty[j] # "none" THEN h[j].s ELSE h[j].p
  IN \A d \in build.dep[v] : w(d[1]) = NoVer \/ Number[w(d[1])] >= d[2]

\* boot_verify_dependencies(): an unmet dependency disables every upgrade; an
\* image without a header ends the verification.
DepTypes(ty, h) ==
  LET NoHeader(i) == (IF ty[i] \in Upgrade THEN h[i].s ELSE h[i].p) = NoVer
      trouble == {i \in Image : NoHeader(i) \/ ~DepsMetBy(ty, h, i)}
  IN IF trouble = {} \/ NoHeader(Min(trouble)) THEN ty ELSE [i \in Image |-> "none"]

(***************************************************************************)
(* Swapping two slots                                                      *)
(***************************************************************************)
\* boot_read_image_size() asserts that the end of the image can be read.
ImageSize(a, v) == IF flash[a].data[build.size[v] - 1] = Piece(v, build.size[v] - 1)
                   THEN build.size[v] ELSE 0

\* boot_read_swap_size(): from the first of these areas with a good magic.
StoredSize(i) == IF flash[P(i)].trailer.magic = "good" THEN flash[P(i)].trailer.size
                 ELSE IF flash[Scratch].trailer.magic = "good"
                 THEN flash[Scratch].trailer.size ELSE 0

\* The first part of boot_swap_image(): how many sectors to swap, 0 when an
\* assertion fails on the way.
SwapSize(i, h, b) ==
  LET sizes == {ImageSize(P(i), v) : v \in {h[i].p} \ {NoVer}} \cup
               {ImageSize(S(i), v) : v \in {h[i].s} \ {NoVer}}
  IN IF b.idx = 0 /\ b.state = 0
     THEN IF 0 \in sizes THEN 0 ELSE Max(sizes)
     ELSE StoredSize(i)

\* The sectors of the current step, counted down from the end of the image by
\* as many as fit into the scratch area: boot_copy_sz().
MoreToSwap(b)  == b.size > b.idx * build.scratch
ChunkLast(b)   == b.size - 1 - b.idx * build.scratch
ChunkFirst(b)  == IF ChunkLast(b) >= build.scratch
                  THEN ChunkLast(b) + 1 - build.scratch ELSE 0
UseScratch(b)  == b.idx = 0 /\ ChunkLast(b) = build.sectors - 1

\* boot_status_init() of area a.
StatusInit(i, b, a) ==
  When(b.type # "none", <<Write(a, "info", [type |-> b.type, img |-> i])>>)
  \o When(flash[S(i)].trailer.ok, <<Write(a, "ok", TRUE)>>)
  \o <<Write(a, "size", b.size), Write(a, "magic", "good")>>

\* boot_copy_region() between areas src and dst, n sectors from j and k on.
\* Image data that reaches the end of the scratch area covers its trailer.
CopyRegion(src, j, dst, k, n, covers) ==
  LET C(x) == [Copy(src, j + x, dst, k + x) EXCEPT
                 !.trailer = IF covers /\ k + x = LastSector(dst) THEN "data" ELSE "kept"]
  IN Seq0(n, C)

\* boot_swap_sectors(), one of its three states.
\* Mutant: the secondary slot is erased before the status says that its
\* sectors are in the scratch area.
SwapPlan0_early(i, b) ==
  LET n == ChunkLast(b) + 1 - ChunkFirst(b)
      home == IF UseScratch(b) THEN Scratch ELSE P(i)
  IN EraseAll(Scratch, 0, LastSector(Scratch))
     \o When(b.idx = 0,
             StatusInit(i, b, Scratch)
             \o When(~UseScratch(b),
                     <<Erase(P(i), build.sectors - 1)>> \o StatusInit(i, b, P(i))
                     \o EraseAll(Scratch, 0, LastSector(Scratch))))
     \o CopyRegion(S(i), ChunkFirst(b), Scratch, 0, n, ~UseScratch(b))
     \o EraseAll(S(i), ChunkFirst(b), ChunkLast(b))
     \o <<Status(home, 3 * b.idx)>>

SwapPlan0(i, b) ==
  LET n == ChunkLast(b) + 1 - ChunkFirst(b)
      home == IF UseScratch(b) THEN Scratch ELSE P(i)
  IN EraseAll(Scratch, 0, LastSector(Scratch))
     \o When(b.idx = 0,
             StatusInit(i, b, Scratch)
             \o When(~UseScratch(b),
                     <<Erase(P(i), build.sectors - 1)>> \o StatusInit(i, b, P(i))
                     \o EraseAll(Scratch, 0, LastSector(Scratch))))
     \o CopyRegion(S(i), ChunkFirst(b), Scratch, 0, n, ~UseScratch(b))
     \o <<Status(home, 3 * b.idx)>>

\* Mutant: the secondary slot is not erased before it is written.
SwapPlan1_dirty(i, b) ==
  LET n == ChunkLast(b) + 1 - ChunkFirst(b)
      home == IF UseScratch(b) THEN Scratch ELSE P(i)
  IN CopyRegion(P(i), ChunkFirst(b), S(i), ChunkFirst(b), n, FALSE)
     \o When(b.idx = 0 /\ ~UseScratch(b), <<Erase(S(i), build.sectors - 1)>>)
     \o <<Status(home, 3 * b.idx + 1)>>

SwapPlan1(i, b) ==
  LET n == ChunkLast(b) + 1 - ChunkFirst(b)
      home == IF UseScratch(b) THEN Scratch ELSE P(i)
  IN EraseAll(S(i), ChunkFirst(b), ChunkLast(b))
     \o CopyRegion(P(i), ChunkFirst(b), S(i), ChunkFirst(b), n, FALSE)
     \o When(b.idx = 0 /\ ~UseScratch(b), <<Erase(S(i), build.sectors - 1)>>)
     \o <<Status(home, 3 * b.idx + 1)>>

SwapPlan2(i, b) ==
  LET n == ChunkLast(b) + 1 - ChunkFirst(b)
      s == flash[Scratch].trailer
  IN EraseAll(P(i), ChunkFirst(b), ChunkLast(b))
     \o CopyRegion(Scratch, 0, P(i), ChunkFirst(b), n, FALSE)
     \o When(UseScratch(b),
             <<Status(P(i), 0), Status(P(i), 1)>>
             \o When(s.ok, <<Write(P(i), "ok", TRUE)>>)
             \o When(s.info.type # "none",
                     <<Write(P(i), "info", [type |-> s.info.type, img |-> i])>>)
             \o <<Write(P(i), "size", b.size), Write(P(i), "magic", "good")>>)
     \o <<Status(P(i), 3 * b.idx + 2)>>
     \o When(UseScratch(b), EraseAll(Scratch, 0, n - 1))

\* boot_set_image_ok() and boot_set_copy_done() at the end of a swap of type t.
\* Mutant: a reverted image is not marked as good.
ImageOk_perm(i, t) == When(t = "perm" /\ ~flash[P(i)].trailer.ok,
                           <<Write(P(i), "ok", TRUE)>>)
ImageOk(i, t)  == When(t \in {"revert", "perm"} /\ ~flash[P(i)].trailer.ok,
                       <<Write(P(i), "ok", TRUE)>>)
CopyDone(i, t) == When(t \in Upgrade, <<Write(P(i), "done", TRUE)>>)

\* boot_update_security_counter(): a lower value is refused by the counter.
UpdateCnt(i, v, then) == IF build.cnt[v] >= cnt[i]
                         THEN <<RaiseCnt(i, build.cnt[v])>> \o then
                         ELSE then \o <<Panic>>

\* The flash operations of boot_copy_image(), the OVERWRITE_ONLY strategy.
CopyPlan(i, v) ==
  LET C(k) == [Copy(S(i), k, P(i), k) EXCEPT
                 !.trailer = IF k = build.sectors - 1 THEN "copied" ELSE "kept"]
  IN EraseAll(P(i), 0, build.sectors - 1) \o Seq0(build.sectors, C)
     \o UpdateCnt(i, v, <<>>)
     \o <<Erase(S(i), 0), Erase(S(i), build.sectors - 1)>>

(***************************************************************************)
(* What the reset asks for (ghost)                                         *)
(***************************************************************************)
\* The decision of the boot that starts now, were it to run undisturbed.
Intent ==
  LET h == [i \in Image |-> [p |-> Header(P(i)), s |-> Header(S(i))]]
      t == [i \in Image |-> ChosenType(i, h[i].s, "none")]
      late == {i \in Image : t[i] \in {"test", "perm", "fail"}}
      r == [i \in Image |-> IF t[i] = "revert" /\ \E j \in late : j > i
                            THEN "none" ELSE t[i]]
      d == DepTypes(r, h)
  IN [img |-> [i \in Image |-> [type |-> d[i], old |-> h[i].p, new |-> h[i].s]],
      hits |-> 0]

(***************************************************************************)
(* Init                                                                    *)
(***************************************************************************)
Restart ==
  /\ phase' = "prepare"
  /\ cur' = 0
  /\ type' = [i \in Image |-> "none"]
  /\ hdr' = [i \in Image |-> [p |-> NoVer, s |-> NoVer]]
  /\ up' = FALSE
  /\ bs' = Fresh("none")
  /\ plan' = <<>>

Init ==
  /\ build \in Builds
  /\ flash = [a \in Area |->
                IF a[1] = "primary"
                THEN Holding(Factory[a[2]], [NoTrailer EXCEPT !.magic = build.magic])
                ELSE Blank(a)]
  /\ cnt = [i \in Image |-> 0]
  /\ phase = "prepare" /\ cur = 0
  /\ type = [i \in Image |-> "none"]
  /\ hdr = [i \in Image |-> [p |-> NoVer, s |-> NoVer]]
  /\ up = FALSE
  /\ bs = Fresh("none")
  /\ plan = <<>>
  /\ goal = Intent
  /\ spent = [downloads |-> 0, fails |-> 0]

(***************************************************************************)
(* The boot loader                                                         *)
(***************************************************************************)
Ready(ph) == phase = ph /\ plan = <<>>

\* IMAGES_ITER: on to the next image, or to the next loop.
NextImage(ph, next) ==
  IF cur + 1 < build.images THEN cur' = cur + 1 /\ phase' = ph
                         ELSE cur' = 0 /\ phase' = next

Halt == phase' = "halted" /\ cur' = 0

Boot == UNCHANGED <<build, goal, spent>>

\* boot_prepare_image_for_update(): no header in the primary slot.
PrepareNoHeader ==
  /\ Ready("prepare")
  /\ Header(P(cur)) = NoVer
  /\ hdr' = ReadHeaders(cur)
  /\ type' = [type EXCEPT ![cur] = "none"]
  /\ NextImage("prepare", "deps")
  /\ UNCHANGED <<flash, cnt, up, bs, plan>> /\ Boot

\* boot_prepare_image_for_update(): a swap was interrupted.
PrepareResume ==
  LET b == ReadStatus(cur)
      size == SwapSize(cur, ReadHeaders(cur), b)
  IN /\ Ready("prepare")
     /\ Header(P(cur)) # NoVer
     /\ b.idx # 0 \/ b.state # 0
     /\ hdr' = ReadHeaders(cur)
     /\ type' = Reviewed(type, cur, TRUE)
     /\ bs' = [b EXCEPT !.size = size]
     /\ IF size = 0 THEN Halt ELSE phase' = "resume" /\ UNCHANGED cur
     /\ UNCHANGED <<flash, cnt, up, plan>> /\ Boot

\* boot_prepare_image_for_update(): no swap was interrupted.  An invalid image
\* in the secondary slot is erased by boot_validate_slot().
PrepareChoose ==
  LET b == ReadStatus(cur)
      v == Header(S(cur))
      t == ChosenType(cur, v, b.type)
  IN /\ Ready("prepare")
     /\ Header(P(cur)) # NoVer
     /\ b.idx = 0 /\ b.state = 0
     /\ hdr' = ReadHeaders(cur)
     /\ bs' = b
     /\ type' = Reviewed([type EXCEPT ![cur] = t], cur, FALSE)
     /\ up' = (up \/ t \in Upgrade)
     /\ plan' = When(t = "fail" /\ v # NoVer, EraseAll(S(cur), 0, build.sectors - 1))
     /\ NextImage("prepare", "deps")
     /\ UNCHANGED <<flash, cnt>> /\ Boot

\* has_upgrade is not initialised: without an upgrade its value is arbitrary.
VerifyDependencies ==
  /\ Ready("deps")
  /\ \E garbage \in BOOLEAN :
       type' = IF up \/ garbage THEN DepTypes(type, hdr) ELSE type
  /\ phase' = "update"
  /\ UNCHANGED <<flash, cnt, cur, hdr, up, bs, plan>> /\ Boot

\* The loop that performs the updates, for an image without one.
UpdateNone ==
  /\ Ready("update")
  /\ type[cur] \in {"none", "fail"}
  /\ plan' = When(type[cur] = "fail" /\ build.strategy = "swap", ImageOk(cur, "revert"))
  /\ NextImage("update", "validate")
  /\ UNCHANGED <<flash, cnt, type, hdr, up, bs>> /\ Boot

\* boot_perform_update(), up to boot_swap_image().
UpdateSwap ==
  LET b == Fresh(type[cur])
      size == SwapSize(cur, hdr, b)
  IN /\ Ready("update")
     /\ type[cur] \in Upgrade /\ build.strategy = "swap"
     /\ bs' = [b EXCEPT !.size = size]
     /\ IF size = 0 THEN Halt ELSE phase' = "swap" /\ UNCHANGED cur
     /\ UNCHANGED <<flash, cnt, type, hdr, up, plan>> /\ Boot

\* boot_perform_update() with boot_copy_image().
UpdateCopy ==
  /\ Ready("update")
  /\ type[cur] \in Upgrade /\ build.strategy = "overwrite"
  /\ plan' = CopyPlan(cur, hdr[cur].s)
  /\ NextImage("update", "validate")
  /\ UNCHANGED <<flash, cnt, type, hdr, up, bs>> /\ Boot

\* boot_swap_image(): the next state of the next sectors.
SwapSectors ==
  /\ Ready("swap") \/ Ready("resume")
  /\ MoreToSwap(bs)
  /\ plan' = CASE bs.state = 0 -> SwapPlan0(cur, bs)
               [] bs.state = 1 -> SwapPlan1(cur, bs)
               [] bs.state = 2 -> SwapPlan2(cur, bs)
  /\ bs' = IF bs.state = 2 THEN [bs EXCEPT !.idx = @ + 1, !.state = 0]
                           ELSE [bs EXCEPT !.state = @ + 1]
  /\ UNCHANGED <<flash, cnt, phase, cur, type, hdr, up>> /\ Boot

\* The rest of boot_perform_update().
FinishSwap ==
  /\ Ready("swap")
  /\ ~MoreToSwap(bs)
  /\ plan' = ImageOk(cur, bs.type)
             \o (IF bs.type = "perm"
                 THEN UpdateCnt(cur, hdr[cur].s, CopyDone(cur, bs.type))
                 ELSE CopyDone(cur, bs.type))
  /\ NextImage("update", "validate")
  /\ UNCHANGED <<flash, cnt, type, hdr, up, bs>> /\ Boot

\* The rest of boot_complete_partial_swap(), and of the branch that calls it.
FinishResume ==
  /\ Ready("resume")
  /\ ~MoreToSwap(bs)
  /\ plan' = ImageOk(cur, bs.type) \o CopyDone(cur, bs.type)
             \o When(Header(P(cur)) = NoVer, <<Panic>>)
  /\ hdr' = ReadHeaders(cur)
  /\ type' = [type EXCEPT ![cur] = "none"]
  /\ NextImage("prepare", "deps")
  /\ UNCHANGED <<flash, cnt, up, bs>> /\ Boot

\* The last loop of context_boot_go(): the image in the primary slot is
\* validated and, if nothing was swapped, its security counter stored.
Validate ==
  LET h == IF type[cur] # "none" THEN ReadHeaders(cur) ELSE hdr
      v == h[cur].p
  IN /\ Ready("validate")
     /\ hdr' = h
     /\ IF Valid(P(cur), v)
        THEN /\ plan' = When(type[cur] = "none", UpdateCnt(cur, v, <<>>))
             /\ NextImage("validate", "booted")
        ELSE plan' = <<>> /\ Halt
     /\ UNCHANGED <<flash, cnt, type, up, bs>> /\ Boot

\* main() of bl2_main.c jumps to the image.
DoBoot ==
  /\ Ready("booted")
  /\ phase' = "running"
  /\ UNCHANGED <<flash, cnt, cur, type, hdr, up, bs, plan>> /\ Boot

\* One operation of the plan.
Step ==
  /\ plan # <<>>
  /\ LET o == Head(plan)
     IN /\ flash' = After(o)
        /\ cnt' = IF o.op = "cnt" THEN [cnt EXCEPT ![o.img] = o.val] ELSE cnt
        /\ plan' = IF o.op = "panic" THEN <<>> ELSE Tail(plan)
        /\ phase' = IF o.op = "panic" THEN "halted" ELSE phase
  /\ UNCHANGED <<cur, type, hdr, up, bs, build, goal, spent>>

BootStep == \/ PrepareNoHeader \/ PrepareResume \/ PrepareChoose
            \/ VerifyDependencies \/ UpdateNone \/ UpdateSwap \/ UpdateCopy
            \/ SwapSectors \/ FinishSwap \/ FinishResume \/ Validate \/ DoBoot \/ Step

(***************************************************************************)
(* The running firmware, resets and power failures                         *)
(***************************************************************************)
App == UNCHANGED <<cnt, build, goal>> /\ UNCHANGED ram

\* The update client stores a version, marked for upgrade by the signing
\* script (t) or not, whole or not.
Download(v, t, torn) ==
  /\ Ready("running")
  /\ spent.downloads < MaxDownloads
  /\ ImageOf[v] \in Image /\ torn \in build.torn
  /\ LET h == Holding(v, [NoTrailer EXCEPT !.magic = t])
     IN flash' = [flash EXCEPT ![S(ImageOf[v])] =
                    IF torn THEN [h EXCEPT !.data[build.size[v] - 1].whole = FALSE]
                            ELSE h]
  /\ spent' = [spent EXCEPT !.downloads = @ + 1]
  /\ UNCHANGED plan /\ App

\* boot_set_pending(), which knows only image 0.
BootSetPending(permanent) ==
  LET m == flash[S(0)].trailer.magic
  IN /\ Ready("running")
     /\ m # "good"
     /\ plan' = IF m = "bad" THEN EraseAll(S(0), 0, build.sectors - 1)
                ELSE <<Write(S(0), "magic", "good")>>
                     \o When(permanent, <<Write(S(0), "ok", TRUE)>>)
                     \o <<Write(S(0), "info",
                                [type |-> IF permanent THEN "perm" ELSE "test",
                                 img |-> 0])>>
     /\ UNCHANGED <<flash, spent>> /\ App

\* boot_set_confirmed(), which knows only image 0.
BootSetConfirmed ==
  LET t == flash[P(0)].trailer
  IN /\ Ready("running")
     /\ t.magic = "good" /\ t.done /\ ~t.ok
     /\ plan' = <<Write(P(0), "ok", TRUE)>>
     /\ UNCHANGED <<flash, spent>> /\ App

Reset ==
  /\ Ready("running") \/ Ready("halted")
  /\ Restart
  /\ goal' = IF phase = "running" THEN Intent ELSE goal
  /\ UNCHANGED <<flash, cnt, build, spent>>

\* Power fails between two operations or in the middle of one.
PowerFail ==
  /\ spent.fails < MaxFails
  /\ plan # <<>> \/ phase \notin {"running", "halted"}
  /\ flash' \in {flash} \cup (IF plan # <<>> THEN Torn(Head(plan)) ELSE {})
  /\ UNCHANGED <<cnt, build>>
  /\ Restart
  /\ goal' = IF phase = "running" THEN Intent' ELSE [goal EXCEPT !.hits = @ + 1]
  /\ spent' = [spent EXCEPT !.fails = @ + 1]

AppStep ==
  \/ \E v \in Version, t \in {"unset", "good"}, torn \in BOOLEAN : Download(v, t, torn)
  \/ \E permanent \in BOOLEAN : BootSetPending(permanent)
  \/ BootSetConfirmed

Next == BootStep \/ AppStep \/ Reset \/ PowerFail

BootSpec == Init /\ [][Next]_vars

(***************************************************************************)
(* Properties                                                              *)
(***************************************************************************)
\* Flash is programmed only where it was erased before: every boot_erase_region()
\* that a resumed swap needs is really there.  (NOR flash cannot do otherwise;
\* the comment of boot_copy_region() demands it.)
ProgramsErased ==
  plan # <<>> =>
    LET o == Head(plan)
    IN CASE o.op = "copy"   -> flash[o.area].data[o.sec] = Erased
         [] o.op = "status" -> o.val \notin flash[o.area].trailer.status
         [] o.op = "write"  -> flash[o.area].trailer[o.field] = NoTrailer[o.field]
         [] OTHER           -> TRUE

\* While an image is being swapped, and after any number of power failures,
\* every piece of both versions is whole in one of the three areas:
\* boot_swap_sectors() never erases the only copy of anything.  (With several
\* images it can: an image whose header is erased when the power fails is
\* skipped, and the swap of the next image reuses the scratch area.)
NothingLost ==
  \A i \in Image :
    LET g == goal.img[i]
    IN (/\ build.strategy = "swap" /\ g.type \in Upgrade /\ phase # "running"
        /\ build.images = 1 \/ Header(P(i)) # NoVer) =>
         \A v \in {g.old, g.new} : \A k \in 0..(build.size[v] - 1) :
           \E a \in {P(i), S(i), Scratch} : \E s \in 0..LastSector(a) :
             flash[a].data[s] = Piece(v, k)

\* The boot loader gives up (no valid image, failed assertion, panic) only when
\* the power failed while the header of a primary slot was erased.
HaltsOnlyHeaderless ==
  phase = "halted" => \E i \in Image : goal.hits > 0 /\ flash[P(i)].data[0] = Erased

\* The claim of docs/user_guides/tfm_secure_boot.rst that both strategies are
\* fail-safe and resistant to power-cut failures: the loader never gives up.
FailSafe == phase # "halted"

Trial(i) == SwapType(i) = "revert"

\* What runs after a boot is what the reset asked for, however often power
\* failed in between: a permanent upgrade and a revert have swapped the slots
\* and are final, a test upgrade has swapped them and can be reverted (or was,
\* after a power failure), and otherwise the same version runs again.  One
\* exception: two power failures can make a revert forgotten, because the only
\* trailer left after the first is in the scratch area, which
\* boot_swap_sectors() erases before it writes another.  (For one image: with
\* several, a revert also depends on the others.)
AsAsked ==
  (Ready("booted") /\ build.images = 1) =>
    \A i \in Image :
      LET g == goal.img[i]
          swapped == Header(P(i)) = g.new
                     /\ (build.strategy = "swap" => Whole(S(i), g.old))
          final == ~Trial(i)
          stays == Header(P(i)) = g.old
      IN CASE g.type = "perm"   -> swapped /\ final
           [] g.type = "revert" -> (swapped /\ final) \/ (goal.hits > 1 /\ stays)
           [] g.type = "test"   -> \/ swapped /\ (build.strategy = "swap" => Trial(i))
                                   \/ goal.hits > 0 /\ stays /\ final
           [] OTHER             -> stays

\* The images that run together satisfy each other's dependencies
\* (boot_verify_dependencies()), also when power failed between two updates.
DepsMet ==
  Ready("booted") =>
    \A i \in Image : \A d \in build.dep[Header(P(i))] : Number[Header(P(d[1]))] >= d[2]

\* The comment in context_boot_go(): after a swap of type TEST the security
\* counter is increased only once the image has marked itself "OK".
CntWaitsForOk ==
  Ready("running") =>
    \A i \in Image : Trial(i) => cnt[i] <= build.cnt[Header(S(i))]

=============================================================================
