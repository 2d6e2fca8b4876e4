----------------------------- MODULE FreeFrames -----------------------------
(***************************************************************************)
(* What the frame allocator promises its callers: a set of free frames.    *)
(* A single frame is refused only when none is free, a run of frames only  *)
(* when no aligned run of that length is free, and a run that is given is  *)
(* the lowest one.                                                         *)
(***************************************************************************)
EXTENDS Integers

CONSTANTS
  NFrames,  \* frames are 0 .. NFrames-1
  Boot,     \* the frames that are free once mm::init is done
  Sizes,    \* lengths callers ask for
  Aligns,   \* alignments callers ask for
  None,     \* the allocator's refusal
  NoCall

VARIABLES
  up,       \* mm::init is done
  freeset,
  held,     \* runs given out and not returned, as <<base, length>>
  call,     \* the request under way
  ret       \* its outcome

vars == <<up, freeset, held, call, ret>>

Run(b, n) == b .. b + n - 1

\* The bases of the free runs that serve a request.
Fits(F, n, al) == {b \in 0 .. NFrames - n : b % al = 0 /\ Run(b, n) \subseteq F}

IsLowest(b, S) == b \in S /\ \A c \in S : b <= c

Init == up = FALSE /\ freeset = {} /\ held = {} /\ call = NoCall /\ ret = None

Start == ~up /\ up' = TRUE /\ freeset' = Boot /\ UNCHANGED <<held, call, ret>>

Call(op, n, al) ==
  /\ up /\ call = NoCall
  /\ call' = [op |-> op, n |-> n, al |-> al] /\ ret' = None
  /\ UNCHANGED <<up, freeset, held>>

Give(b) ==
  /\ freeset' = freeset \ Run(b, call.n) /\ held' = held \cup {<<b, call.n>>}
  /\ ret' = b /\ call' = NoCall /\ UNCHANGED up

Refuse == call' = NoCall /\ UNCHANGED <<up, freeset, held, ret>>

One ==
  /\ call # NoCall /\ call.op = "one"
  /\ \/ \E b \in freeset : Give(b)
     \/ freeset = {} /\ Refuse

Contig ==
  /\ call # NoCall /\ call.op = "contig"
  /\ LET S == Fits(freeset, call.n, call.al) IN
       \/ \E b \in S : IsLowest(b, S) /\ Give(b)
       \/ S = {} /\ Refuse

Return(h) ==
  /\ call = NoCall /\ h \in held
  /\ freeset' = freeset \cup Run(h[1], h[2]) /\ held' = held \ {h}
  /\ UNCHANGED <<up, call, ret>>

Next ==
  \/ Start
  \/ Call("one", 1, 1) \/ \E n \in Sizes, al \in Aligns : Call("contig", n, al)
  \/ One \/ Contig
  \/ \E h \in held : Return(h)

Spec == Init /\ [][Next]_vars
=============================================================================
