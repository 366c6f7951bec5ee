---------------------------- MODULE DeviceClient ----------------------------
(***************************************************************************)
(* The operations of libs/device.go that use coordinates (swipes by        *)
(* direction of libs/swipe_ext.go, Unlock, DoubleClick), the size of the   *)
(* screen that WindowSize keeps, and the settings (libs/settings.go).      *)
(*                                                                         *)
(* The size is cached for the life of the Device, in two words that are    *)
(* written and read without a lock.  Meanwhile the screen turns, is        *)
(* switched on and off by others, and requests are lost.  Pauses are left  *)
(* out: they take time and change nothing.                                 *)
(***************************************************************************)
EXTENDS Integers

CONSTANTS
  Users,     \* goroutines that share the Device
  Kinds,     \* the operations they use
  Width,     \* the upright screen
  Height,
  Scales,    \* arguments of SwipeDirection, in parts of Unit
  Inputs,    \* typed values given to Settings.Set, <<type, number>>, in parts of Unit
  MaxInt,    \* the largest int
  MaxOps,    \* bound: operations started in a behaviour
  MaxTurns,  \* bound: how often the screen turns
  LossyLink  \* a request or a shell command may fail

OpKinds == {"swipe", "unlock", "double"}
Keys    == {"wait_timeout", "max_depth"}
Events  == {"power", "down", "up"}
Types   == {"float64", "float32", "int", "int64", "string"}

\* Fractions are counted in ten-thousandths: of 1, of a second, of a level.
Unit == 100 * 100

\* The scale that is used instead of one that is out of range.
Scale(s) == IF s \in 1..Unit THEN s ELSE 90 * 100

\* A swipe covers two pixels at least: a shorter one may go nowhere.  An int is a
\* whole number, and the defaults are within its range.
ASSUME DeviceAssumption ==
  /\ Kinds \subseteq OpKinds
  /\ Width \in Nat \ {0, 1} /\ Height \in Nat \ {0, 1}
  /\ Scales \subseteq Int
  /\ \A s \in Scales : Width * Scale(s) >= 2 * Unit /\ Height * Scale(s) >= 2 * Unit
  /\ MaxInt \in Nat /\ MaxInt >= 2 * Unit
  /\ Inputs \subseteq Types \X Int
  /\ \A v \in Inputs : v[1] \in {"int", "int64"} =>
       \E i \in -MaxInt..MaxInt : v[2] = i * Unit
  /\ MaxOps \in Nat /\ MaxTurns \in Nat
  /\ LossyLink \in BOOLEAN

Upright == <<Width, Height>>
Across  == <<Height, Width>>
NoPath  == <<<<0, 0>>, <<0, 0>>>>

VARIABLES
  pc,      \* pc[u]: the next step of user u
  kind,    \* kind[u]: its current or last operation
  ops,     \* operations so far
  size,    \* size[u]: the size of the screen as u knows it
  path,    \* path[u]: where u is about to swipe, <<from, to>>
  cache,   \* d.windowSizeCache
  data,    \* the values of Settings
  screen,  \* the size of the screen now
  turns,   \* how often it has turned
  on,      \* the screen is on
  finger,  \* a finger is on the screen
  late,    \* events whose request has been given up and that may still be carried out
  steady,  \* the screen has not turned since it was first measured
  torn,    \* users that read the cache while one of its words was missing
  sole,    \* users whose Unlock alone has switched the screen since it looked
  failed   \* a DoubleClick has failed, or its first event came late, since a finger
           \* was last lifted

local   == <<size, path>>
world   == <<screen, turns, on, finger, late>>
history == <<steady, torn, sole, failed>>
vars == <<pc, kind, ops, local, cache, data, world, history>>

Goto(u, label) == pc' = [pc EXCEPT ![u] = label]
Return(u)      == Goto(u, "idle")

-----------------------------------------------------------------------------
(* Settings.                                                               *)

Default == [k \in Keys |-> IF k = "wait_timeout" THEN <<"float64", 20 * Unit>>
                                               ELSE <<"int", 50 * Unit>>]

\* Set without the check of the type.
Set_Any(k, v) ==
  /\ ops < MaxOps
  /\ data' = [data EXCEPT ![k] = v]
  /\ ops' = ops + 1
  /\ UNCHANGED <<pc, kind, local, cache, world, history>>

\* validateSettingType.
Accepts(k, v) == v[1] \in IF k = "wait_timeout" THEN {"float64", "float32", "int", "int64"}
                                                ELSE {"int", "int64", "float64"}

\* Set, and ImplicitlyWait; a value of a wrong type is an error and changes nothing.
Set(k, v) ==
  /\ ops < MaxOps
  /\ Accepts(k, v)
  /\ data' = [data EXCEPT ![k] = v]
  /\ ops' = ops + 1
  /\ UNCHANGED <<pc, kind, local, cache, world, history>>

\* GetFloat64: no case for int64.
GetFloat64(k) == IF data[k][1] \in {"float64", "float32", "int"} THEN data[k][2] ELSE 0

\* A float64 that is too large for an int, as NaN is, becomes an int that depends on
\* the processor.
TooLarge == {-MaxInt - 1, 0, MaxInt}

\* int(n): what is behind the point is lost.
AsInt(n) == IF n \in -(MaxInt * Unit)..(MaxInt * Unit)
            THEN {IF n >= 0 THEN n \div Unit ELSE -((-n) \div Unit)}
            ELSE TooLarge

\* GetInt: no case for int64.
GetInt(k) == IF data[k][1] \in {"int", "float64"} THEN AsInt(data[k][2]) ELSE {0}

\* DumpHierarchy without its last resort.
Depths_Trusting(arg) == IF arg > 0 THEN {arg} ELSE GetInt("max_depth")

\* The depths that DumpHierarchy may ask for.
Depths(arg) == IF arg > 0 THEN {arg}
               ELSE {IF d > 0 THEN d ELSE 50 : d \in GetInt("max_depth")}

\* How long a UiObject is to wait.
Timeout(arg) == IF arg > 0 THEN arg
                ELSE IF GetFloat64("wait_timeout") > 0 THEN GetFloat64("wait_timeout")
                ELSE 10 * Unit

\* int(timeout * 1000), the milliseconds that the device is told to wait: the product,
\* or a float32, may be just below the whole number it stands for, but for 0.001 neither is.
Millis(t) == IF t <= MaxInt * 10
             THEN {t \div 10} \cup {m \in {t \div 10 - 1} : t > 10 /\ t % 10 = 0}
             ELSE TooLarge

-----------------------------------------------------------------------------
(* The size of the screen.                                                 *)

Storing(u) == pc[u] \in {"store width", "store height"}

Begin(u, k) ==
  /\ pc[u] = "idle"
  /\ ops < MaxOps
  /\ ops' = ops + 1
  /\ kind' = [kind EXCEPT ![u] = k]
  /\ torn' = torn \ {u}
  /\ Goto(u, CASE k = "swipe" -> "size" [] k = "unlock" -> "look" [] k = "double" -> "down")
  /\ UNCHANGED <<local, cache, data, world, steady, sole, failed>>

\* WindowSize finds a size, and reads its first word.
CachedSize(u) ==
  /\ pc[u] = "size"
  /\ cache[1] > 0
  /\ size' = [size EXCEPT ![u] = <<cache[1], 0>>]
  /\ Goto(u, "read height")
  /\ UNCHANGED <<kind, ops, path, cache, data, world, history>>

CachedHeight(u) ==
  /\ pc[u] = "read height"
  /\ size' = [size EXCEPT ![u] = <<size[u][1], cache[2]>>]
  /\ torn' = IF \E v \in Users \ {u} : Storing(v) THEN torn \cup {u} ELSE torn
  /\ Goto(u, "aim")
  /\ UNCHANGED <<kind, ops, path, cache, data, world, steady, sole, failed>>

NoSize(u) ==
  /\ pc[u] = "size"
  /\ cache[1] = 0
  /\ Goto(u, "measure")
  /\ UNCHANGED <<kind, ops, local, cache, data, world, history>>

\* Info.
Measure(u) ==
  /\ pc[u] = "measure"
  /\ \/ size' = [size EXCEPT ![u] = screen] /\ Goto(u, "store")
     \/ LossyLink /\ Return(u) /\ UNCHANGED size
  /\ UNCHANGED <<kind, ops, path, cache, data, world, history>>

\* The assignment of the two words, in an order that Go does not promise.
Store(u) ==
  /\ pc[u] = "store"
  /\ \/ cache' = <<size[u][1], cache[2]>> /\ Goto(u, "store height")
     \/ cache' = <<cache[1], size[u][2]>> /\ Goto(u, "store width")
  /\ UNCHANGED <<kind, ops, local, data, world, history>>

StoreRest(u) ==
  /\ Storing(u)
  /\ cache' = IF pc[u] = "store width" THEN <<size[u][1], cache[2]>> ELSE <<cache[1], size[u][2]>>
  /\ Goto(u, "aim")
  /\ UNCHANGED <<kind, ops, local, data, world, history>>
-----------------------------------------------------------------------------
(* Swipes.                                                                 *)

\* int(float64(length) * (1 - scale) / 2): the product may be just below an integer.
Offsets_Any(length, s) ==
  LET n == length * (Unit - s) IN {n \div (2 * Unit)}

Offsets(length, s) ==
  LET n == length * (Unit - Scale(s))
  IN  {n \div (2 * Unit)} \cup {m \in {n \div (2 * Unit) - 1} : n > 0 /\ n % (2 * Unit) = 0}

\* SwipeDirection over a screen of w times h: left, right, up and down.
Paths(s, w, h) ==
  UNION {LET left   == <<x, h \div 2>>
             right  == <<w - x, h \div 2>>
             centre == <<w \div 2, h \div 2>>
         IN {<<right, left>>, <<left, right>>,
             <<centre, <<w \div 2, y>>>>, <<centre, <<w \div 2, h - y>>>>} :
           x \in Offsets(w, s), y \in Offsets(h, s)}

\* Unlock swipes from the lower left to the upper right.
UnlockPath(w, h) == <<<<w \div 10, (h * 9) \div 10>>, <<(w * 9) \div 10, h \div 10>>>>

Aim(u) ==
  /\ pc[u] = "aim"
  /\ LET w == size[u][1] h == size[u][2]
     IN \E p \in IF kind[u] = "unlock" THEN {UnlockPath(w, h)}
                 ELSE UNION {Paths(s, w, h) : s \in Scales} :
          path' = [path EXCEPT ![u] = p]
  /\ Goto(u, "send")
  /\ UNCHANGED <<kind, ops, size, cache, data, world, history>>

\* Swipe, and the click that ends DoubleClick: done or lost, nothing depends on it.
Send(u) ==
  /\ pc[u] \in {"send", "tap"}
  /\ path' = [path EXCEPT ![u] = NoPath]
  /\ Return(u)
  /\ UNCHANGED <<kind, ops, size, cache, data, world, history>>

-----------------------------------------------------------------------------
(* Unlock: Info, and the power key if the screen is off.                   *)

\* Pressing the key whatever Info says.
Look_Not(u) ==
  /\ pc[u] = "look"
  /\ Goto(u, "power")
  /\ sole' = sole \cup {u}
  /\ UNCHANGED <<kind, ops, local, cache, data, world, steady, torn, failed>>

Look(u) ==
  /\ pc[u] = "look"
  /\ \/ on /\ Return(u) /\ UNCHANGED sole
     \/ ~on /\ Goto(u, "power") /\ sole' = sole \cup {u}
     \/ LossyLink /\ Return(u) /\ UNCHANGED sole
     \/ LossyLink /\ Goto(u, "power") /\ sole' = sole \ {u}  \* no screenOn in the answer: off
  /\ UNCHANGED <<kind, ops, local, cache, data, world, steady, torn, failed>>

\* A request that was given up: never carried out, or later.
Later(event) == late' \in {late, late \cup {event}}

\* The error of Keyevent is ignored.
Power(u) ==
  /\ pc[u] = "power"
  /\ \/ on' = ~on /\ sole' = sole \cap {u} /\ UNCHANGED late
     \/ LossyLink /\ UNCHANGED on /\ sole' = sole \ {u} /\ Later("power")
  /\ Goto(u, "size")
  /\ UNCHANGED <<kind, ops, local, cache, data, screen, turns, finger, steady, torn, failed>>

-----------------------------------------------------------------------------
(* DoubleClick: ACTION_DOWN, ACTION_UP, a pause and a click.  A request     *)
(* whose answer is lost is an error and may have had its effect.           *)

Down(u) ==
  /\ pc[u] = "down"
  /\ \/ finger' = TRUE /\ Goto(u, "up") /\ UNCHANGED <<failed, late>>
     \/ /\ LossyLink
        /\ Return(u)
        /\ failed' = TRUE
        /\ \/ finger' = TRUE /\ UNCHANGED late
           \/ UNCHANGED finger /\ Later("down")
  /\ UNCHANGED <<kind, ops, local, cache, data, screen, turns, on, steady, torn, sole>>

\* A click that begins with the second tap when the first has not ended.
Up_Skipped(u) ==
  /\ pc[u] = "up"
  /\ Goto(u, "tap")
  /\ UNCHANGED <<kind, ops, local, cache, data, world, history>>

Up(u) ==
  /\ pc[u] = "up"
  /\ \/ /\ finger' = FALSE /\ failed' = FALSE /\ UNCHANGED late
        /\ Goto(u, "tap") \/ (LossyLink /\ Return(u))
     \/ LossyLink /\ UNCHANGED finger /\ failed' = TRUE /\ Return(u) /\ Later("up")
  /\ UNCHANGED <<kind, ops, local, cache, data, screen, turns, on, steady, torn, sole>>

-----------------------------------------------------------------------------
(* What happens to the screen meanwhile.                                   *)

\* A request is carried out that its caller has given up.
Land(event) ==
  /\ event \in late
  /\ late' = late \ {event}
  /\ IF event = "power" THEN on' = ~on /\ sole' = {} /\ UNCHANGED <<finger, failed>>
     ELSE /\ finger' = (event = "down")
          /\ failed' = (event = "down")
          /\ UNCHANGED <<on, sole>>
  /\ UNCHANGED <<pc, kind, ops, local, cache, data, screen, turns, steady, torn>>

\* SetOrientation, of any program, or the hand of the user.
Turn ==
  /\ turns < MaxTurns
  /\ screen' = IF screen = Upright THEN Across ELSE Upright
  /\ turns' = turns + 1
  /\ steady' = (steady /\ \A u \in Users : size[u] = <<0, 0>>)
  /\ UNCHANGED <<pc, kind, ops, local, cache, data, on, finger, late, torn, sole, failed>>

\* ScreenOn and ScreenOff, of any program.
Switch ==
  /\ ops < MaxOps
  /\ ops' = ops + 1
  /\ on' = ~on
  /\ sole' = {}
  /\ UNCHANGED <<pc, kind, local, cache, data, screen, turns, finger, late, steady, torn, failed>>

Init ==
  /\ pc = [u \in Users |-> "idle"]
  /\ kind = [u \in Users |-> "none"]
  /\ ops = 0
  /\ size = [u \in Users |-> <<0, 0>>]
  /\ path = [u \in Users |-> NoPath]
  /\ cache = <<0, 0>>
  /\ data = Default
  /\ screen = Upright
  /\ turns = 0
  /\ on \in BOOLEAN
  /\ finger = FALSE
  /\ late = {}
  /\ steady = TRUE
  /\ torn = {}
  /\ sole = {}
  /\ failed = FALSE

Next ==
  \/ Turn
  \/ Switch
  \/ \E event \in Events : Land(event)
  \/ \E k \in Keys, v \in Inputs : Set(k, v)
  \/ \E u \in Users :
       \/ \E k \in Kinds : Begin(u, k)
       \/ CachedSize(u) \/ CachedHeight(u) \/ NoSize(u) \/ Measure(u) \/ Store(u) \/ StoreRest(u)
       \/ Aim(u) \/ Send(u) \/ Look(u) \/ Power(u) \/ Down(u) \/ Up(u)

Spec == Init /\ [][Next]_vars

-----------------------------------------------------------------------------
(* Properties.                                                             *)

Labels == {"idle", "size", "read height", "measure", "store", "store width", "store height",
           "aim", "send", "look", "power", "down", "up", "tap"}
Sides  == {0, Width, Height}

TypeOK ==
  /\ pc \in [Users -> Labels]
  /\ kind \in [Users -> OpKinds \cup {"none"}]
  /\ ops \in 0..MaxOps
  /\ size \in [Users -> Sides \X Sides]
  /\ path \in [Users -> (Int \X Int) \X (Int \X Int)]
  /\ cache \in Sides \X Sides
  /\ data \in [Keys -> Types \X Int] /\ \A k \in Keys : Accepts(k, data[k])
  /\ screen \in {Upright, Across}
  /\ turns \in 0..MaxTurns
  /\ {on, finger, steady, failed} \subseteq BOOLEAN
  /\ late \subseteq Events
  /\ torn \subseteq Users /\ sole \subseteq Users

Within(point) == point[1] \in 0..screen[1] /\ point[2] \in 0..screen[2]

\* A swipe by direction and the swipe of Unlock begin and end on the screen or on its
\* edge as long as it has not turned since it was first measured, even if the size was
\* read while another call of WindowSize was storing it; if not, they are computed from
\* the size that the screen has and go somewhere (windowSizeCache, SwipeDirection).
OnScreen ==
  \A u \in Users : pc[u] = "send" /\ steady =>
    /\ Within(path[u][1]) /\ Within(path[u][2])
    /\ u \notin torn => size[u] = screen /\ path[u][1] # path[u][2]

\* A finger is on the screen only between the two events of a DoubleClick, or after
\* one that has failed, until the next one lifts it or its first event comes late: other
\* users find it there (DoubleClick).
FingerUp == finger => failed \/ \E u \in Users : pc[u] = "up"

\* Once an Unlock has pressed the key, the screen is on, unless its key was lost, it was
\* not told whether the screen was on, or another has switched the screen since it
\* looked: the key toggles (Unlock).
UnlockWakes ==
  \A u \in sole : kind[u] = "unlock" /\ pc[u] \notin {"idle", "look", "power"} => on

\* Whatever Set accepted, also of a type that a getter does not know, a fraction, a
\* negative number or one too large for an int: the device is asked for a whole number
\* of levels, one at least.  It is asked to wait for no time only if the setting or the
\* argument is itself less than a millisecond, and never for a negative time unless it is
\* too large for an int (DumpHierarchy, Wait).
RequestsInRange ==
  /\ \A arg \in {-1, 0, 1} : Depths(arg) \subseteq 1..MaxInt
  /\ \A arg \in {0} \cup {v[2] : v \in Inputs} :
       LET t == Timeout(arg)
       IN  t <= MaxInt * 10 => \A ms \in Millis(t) : ms \in 0..MaxInt /\ (ms = 0 => t < 10)

-----------------------------------------------------------------------------
(* The inductive invariant that the properties above follow from.          *)

\* A size is stored only after it has been measured, one word after the other; the
\* height is read only after the width was there.
StoreInv ==
  \A u \in Users :
    /\ pc[u] = "store height" \/ pc[u] = "read height" => cache[1] # 0
    /\ pc[u] = "store width" => cache[2] # 0
    /\ pc[u] \in {"store", "store width", "store height"} => 0 \notin {size[u][1], size[u][2]}

\* If one word of the cache is there without the other, somebody is about to store it.
CacheInv ==
  /\ cache[1] # 0 /\ cache[2] = 0 => \E u \in Users : pc[u] = "store height"
  /\ cache[1] = 0 /\ cache[2] # 0 => \E u \in Users : pc[u] = "store width"
  /\ cache[1] # 0 \/ cache[2] # 0 => \E u \in Users : size[u][1] # 0 \/ size[u][2] # 0

\* While the screen is steady, every word that somebody has is right.
PartOf(p) == p[1] \in {0, screen[1]} /\ p[2] \in {0, screen[2]}

SizeInv == steady => PartOf(cache) /\ \A u \in Users : PartOf(size[u])

\* Who swipes has a width, and who was not disturbed has a height as well.
AimInv ==
  \A u \in Users :
    /\ pc[u] \in {"read height", "aim", "send"} => size[u][1] # 0
    /\ pc[u] \in {"aim", "send"} /\ u \notin torn => size[u][2] # 0

\* An Unlock that alone has switched the screen has found it off.
LookInv == \A u \in sole : kind[u] = "unlock" /\ pc[u] = "power" => ~on

IInv ==
  /\ TypeOK /\ OnScreen /\ FingerUp /\ UnlockWakes
  /\ StoreInv /\ CacheInv /\ SizeInv /\ AimInv /\ LookInv
=============================================================================
