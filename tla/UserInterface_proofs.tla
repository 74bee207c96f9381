------------------------- MODULE UserInterface_proofs -------------------------
(***************************************************************************)
(* Proofs about what the user interface keeps: the router, the tabs of the *)
(* editor, the states to undo, and an event on its way through the tree.   *)
(* The four share nothing.                                                 *)
(***************************************************************************)
EXTENDS Router, EditorTabs, UndoStack, Dispatch, SequenceTheorems, FiniteSetTheorems,
  WellFoundedInduction, TLAPS

-----------------------------------------------------------------------------
(***************************************************************************)
(* Router.  Whatever the guards and builders navigate within their         *)
(* contract, the view that is shown after a navigation is that of the top  *)
(* of the stack; only a pop whose callbacks navigate is known to leave     *)
(* another one.                                                            *)
(***************************************************************************)

Frame == [op : {"push", "replace", "pop"}, uri : Uris, at : {"guard", "builder"}]

RouterTypes == stack \in Seq(Uris) /\ frames \in Seq(Frame) /\ redirected \in BOOLEAN

\* A pop on its own shows what is on top of the stack: when a callback of it
\* navigates it counts as redirected.
PopShowsTop ==
  frames # << >> /\ frames[1].op = "pop" /\ ~redirected =>
    Len(frames) = 1 /\ stack # << >> /\ frames[1].uri = Last(stack)

\* A replace has a top to replace, and nothing but a push is begun by the
\* callbacks of a pop, so that the URI the pop was given is still in the stack.
ReplaceHasTop ==
  (\E i \in DOMAIN frames : frames[i].op = "replace") => stack # << >>

PopUriIsHeld ==
  \A i \in DOMAIN frames : frames[i].op = "pop" =>
    \E j \in DOMAIN stack : stack[j] = frames[i].uri

PopsNestPushes ==
  \A i, j \in DOMAIN frames : i < j /\ frames[i].op = "pop" => frames[j].op = "push"

RouterInv ==
  /\ RouterTypes /\ ShownIsTop /\ PopShowsTop
  /\ ReplaceHasTop /\ PopUriIsHeld /\ PopsNestPushes

LEMMA FrontOf ==
  ASSUME NEW S, NEW s \in Seq(S), s # << >>
  PROVE  /\ Front(s) \in Seq(S) /\ Len(Front(s)) = Len(s) - 1
         /\ \A i \in 1 .. Len(s) - 1 : Front(s)[i] = s[i]
         /\ Len(s) \in Nat \ {0} /\ Last(s) = s[Len(s)] /\ Last(s) \in S
<1>1. Len(s) \in Nat \ {0} /\ \A i \in 1 .. Len(s) : s[i] \in S
  BY EmptySeq, ElementOfSeq
<1>2. Front(s) = SubSeq(s, 1, Len(s) - 1)
  BY DEF Front
<1>3. \A i \in 1 .. Len(s) - 1 : s[i] \in S
  BY <1>1
<1>4. /\ Front(s) \in Seq(S) /\ Len(Front(s)) = Len(s) - 1
      /\ \A i \in 1 .. Len(s) - 1 : Front(s)[i] = s[i]
  <2>1. 1 \in Int /\ Len(s) - 1 \in Int /\ (Len(s) - 1) - 1 + 1 = Len(s) - 1
    BY <1>1
  <2>2. /\ Front(s) \in Seq(S)
        /\ Len(Front(s)) = IF 1 <= Len(s) - 1 THEN (Len(s) - 1) - 1 + 1 ELSE 0
        /\ \A i \in 1 .. (Len(s) - 1) - 1 + 1 : Front(s)[i] = s[1 + i - 1]
    BY <1>2, <1>3, <2>1, SubSeqProperties
  <2>3. Len(Front(s)) = Len(s) - 1
    <3>1. PICK n \in Nat \ {0} : n = Len(s)
      BY <1>1
    <3>2. Len(Front(s)) = IF 1 <= n - 1 THEN (n - 1) - 1 + 1 ELSE 0
      BY <2>2, <3>1
    <3> QED
      BY <3>1, <3>2
  <2>4. ASSUME NEW i \in 1 .. Len(s) - 1
        PROVE  Front(s)[i] = s[i]
    <3>1. 1 + i - 1 = i
      OBVIOUS
    <3>2. Front(s)[i] = s[1 + i - 1]
      BY <2>1, <2>2
    <3> QED
      BY <3>1, <3>2
  <2> QED
    BY <2>2, <2>3, <2>4
<1>5. Last(s) = s[Len(s)] /\ Last(s) \in S
  BY <1>1 DEF Last
<1> QED
  BY <1>1, <1>4, <1>5

LEMMA LastOfAppend ==
  ASSUME NEW S, NEW s \in Seq(S), NEW e \in S
  PROVE  /\ Append(s, e) \in Seq(S) /\ Append(s, e) # << >>
         /\ Len(Append(s, e)) = Len(s) + 1 /\ Len(s) \in Nat
         /\ Last(Append(s, e)) = e
         /\ \A i \in 1 .. Len(s) : Append(s, e)[i] = s[i]
         /\ Append(s, e)[Len(s) + 1] = e
<1>1. /\ Append(s, e) \in Seq(S) /\ Len(s) \in Nat /\ Len(Append(s, e)) = Len(s) + 1
      /\ \A i \in 1 .. Len(s) : Append(s, e)[i] = s[i]
      /\ Append(s, e)[Len(s) + 1] = e
  BY AppendProperties, LenProperties
<1>2. Append(s, e) # << >>
  BY <1>1, EmptySeq
<1> QED
  BY <1>1, <1>2 DEF Last

\* What a navigation that begins makes of the frames.
LEMMA ExecuteFrames ==
  ASSUME RouterTypes, NEW op \in {"push", "replace", "pop"}, NEW uri \in Uris,
         Execute(op, uri)
  PROVE  /\ frames' \in Seq(Frame) /\ redirected' \in BOOLEAN
         /\ redirected' <=> ~Idle /\ (redirected \/ frames[1].op = "pop")
         /\ \/ frames' = frames /\ (Idle => outcome' = "failed")
            \/ \E f \in Frame : f.op = op /\ f.uri = uri /\ frames' = Append(frames, f)
<1>1. redirected' = (~Idle /\ (redirected \/ frames[1].op = "pop"))
  BY DEF Execute
<1>2. \/ frames' = frames /\ (Idle => outcome' = "failed")
      \/ \E f \in Frame : f.op = op /\ f.uri = uri /\ frames' = Append(frames, f)
  BY DEF Execute, Frame
<1>3. frames' \in Seq(Frame)
  BY <1>2, AppendProperties, SMTT(60) DEF RouterTypes
<1>4. redirected' \in BOOLEAN
  BY <1>1
<1> QED
  BY <1>1, <1>2, <1>3, <1>4

LEMMA ExecuteShown ==
  ASSUME RouterTypes, NEW op \in {"push", "replace", "pop"}, NEW uri \in Uris,
         Execute(op, uri),
         Idle /\ op = "pop" => stack' # << >> /\ uri = Last(stack')
  PROVE  ShownIsTop' /\ PopShowsTop'
<1>1. CASE frames' = frames /\ (Idle => outcome' = "failed")
  <2>1. ShownIsTop'
    BY <1>1 DEF ShownIsTop, Idle
  <2>2. frames # << >> /\ frames[1].op = "pop" => redirected'
    BY ExecuteFrames DEF Idle
  <2>3. PopShowsTop'
    BY <1>1, <2>2 DEF PopShowsTop
  <2> QED
    BY <2>1, <2>3
<1>2. ASSUME NEW f \in Frame, f.op = op, f.uri = uri, frames' = Append(frames, f)
      PROVE  ShownIsTop' /\ PopShowsTop'
  <2>1. /\ frames \in Seq(Frame) /\ frames' # << >> /\ Len(frames') = Len(frames) + 1
        /\ Len(frames) \in Nat /\ frames'[Len(frames) + 1] = f
        /\ \A i \in 1 .. Len(frames) : frames'[i] = frames[i]
    BY <1>2, LastOfAppend DEF RouterTypes
  <2>2. ShownIsTop'
    BY <2>1 DEF ShownIsTop, Idle
  <2>3. CASE Idle
    <3>1. Len(frames) = 0 /\ Len(frames') = 1 /\ frames'[1] = f
      BY <2>1, <2>3, EmptySeq DEF Idle
    <3>2. f.op = "pop" => stack' # << >> /\ f.uri = Last(stack')
      BY <1>2, <2>3
    <3> QED
      BY <2>2, <3>1, <3>2 DEF PopShowsTop
  <2>4. CASE ~Idle
    <3>1. frames'[1] = frames[1]
      BY <2>1, <2>4, EmptySeq DEF Idle
    <3>2. frames[1].op = "pop" => redirected'
      BY <2>4, ExecuteFrames
    <3> QED
      BY <2>2, <3>1, <3>2 DEF PopShowsTop
  <2> QED
    BY <2>3, <2>4
<1> QED
  BY <1>1, <1>2, ExecuteFrames

\* A callback begins a navigation: the stack keeps what the frames rely on.
LEMMA ExecuteKept ==
  ASSUME RouterInv, NEW op \in {"push", "replace", "pop"}, NEW uri \in Uris,
         Execute(op, uri), stack' \in Seq(Uris),
         op = "push" \/ \A i \in DOMAIN frames : frames[i].op # "pop",
         op = "replace" \/ (\E i \in DOMAIN frames : frames[i].op = "replace")
           => stack' # << >>,
         (\E i \in DOMAIN frames : frames[i].op = "pop") => stack' = stack,
         op = "pop" => \E j \in DOMAIN stack' : stack'[j] = uri
  PROVE  ReplaceHasTop' /\ PopUriIsHeld' /\ PopsNestPushes'
<1>1. CASE frames' = frames
  BY <1>1 DEF RouterInv, ReplaceHasTop, PopUriIsHeld, PopsNestPushes
<1>2. ASSUME NEW f \in Frame, f.op = op, f.uri = uri, frames' = Append(frames, f)
      PROVE  ReplaceHasTop' /\ PopUriIsHeld' /\ PopsNestPushes'
  <2>1. PICK n \in Nat : n = Len(frames)
    BY LenProperties DEF RouterInv, RouterTypes
  <2>2. /\ frames' \in Seq(Frame) /\ Len(frames') = n + 1 /\ frames'[n + 1] = f
        /\ \A i \in 1 .. n : frames'[i] = frames[i]
    BY <1>2, <2>1, LastOfAppend DEF RouterInv, RouterTypes
  <2>3. DOMAIN frames = 1 .. n /\ DOMAIN frames' = 1 .. n + 1
    BY <2>1, <2>2, LenProperties DEF RouterInv, RouterTypes
  <2>4. \A i \in DOMAIN frames' : \/ i \in DOMAIN frames /\ frames'[i] = frames[i]
                                  \/ i = n + 1 /\ frames'[i] = f
    BY <2>2, <2>3
  <2>5. ReplaceHasTop'
    BY <1>2, <2>4 DEF ReplaceHasTop
  <2>6. PopUriIsHeld'
    <3> SUFFICES ASSUME NEW i \in DOMAIN frames', frames'[i].op = "pop"
                 PROVE  \E j \in DOMAIN stack' : stack'[j] = frames'[i].uri
      BY DEF PopUriIsHeld
    <3>1. CASE i \in DOMAIN frames /\ frames'[i] = frames[i]
      BY <3>1 DEF RouterInv, PopUriIsHeld
    <3>2. CASE i = n + 1 /\ frames'[i] = f
      BY <1>2, <3>2
    <3> QED
      BY <2>4, <3>1, <3>2
  <2>7. PopsNestPushes'
    <3> SUFFICES ASSUME NEW i \in DOMAIN frames', NEW j \in DOMAIN frames',
                        i < j, frames'[i].op = "pop"
                 PROVE  frames'[j].op = "push"
      BY DEF PopsNestPushes
    <3>1. i \in DOMAIN frames /\ frames'[i] = frames[i]
      BY <2>2, <2>3
    <3>2. CASE j \in DOMAIN frames /\ frames'[j] = frames[j]
      BY <3>1, <3>2 DEF RouterInv, PopsNestPushes
    <3>3. CASE j = n + 1 /\ frames'[j] = f
      BY <1>2, <3>1, <3>3
    <3> QED
      BY <2>4, <3>2, <3>3
  <2> QED
    BY <2>5, <2>6, <2>7
<1> QED
  BY <1>1, <1>2, ExecuteFrames DEF RouterInv

\* A callback returns: the frames that stay are as they were.
LEMMA ReturnKept ==
  ASSUME RouterInv, frames' \in Seq(Frame), Len(frames') <= Len(frames),
         \A i \in 1 .. Len(frames') :
           frames'[i].op = frames[i].op /\ frames'[i].uri = frames[i].uri,
         stack' \in Seq(Uris), stack # << >> => stack' # << >>,
         (\E i \in 1 .. Len(frames') : frames[i].op = "pop") =>
           \A j \in DOMAIN stack : j \in DOMAIN stack' /\ stack'[j] = stack[j]
  PROVE  ReplaceHasTop' /\ PopUriIsHeld' /\ PopsNestPushes'
<1>1. /\ DOMAIN frames' = 1 .. Len(frames') /\ Len(frames') \in Nat
      /\ DOMAIN frames = 1 .. Len(frames) /\ Len(frames) \in Nat
  BY LenProperties DEF RouterInv, RouterTypes
<1>2. \A i \in DOMAIN frames' : /\ i \in DOMAIN frames /\ frames'[i].op = frames[i].op
                                /\ frames'[i].uri = frames[i].uri
  BY <1>1
<1>3. ReplaceHasTop' /\ PopsNestPushes'
  BY <1>2 DEF RouterInv, ReplaceHasTop, PopsNestPushes
<1>4. PopUriIsHeld'
  BY <1>1, <1>2 DEF RouterInv, PopUriIsHeld
<1> QED
  BY <1>3, <1>4

\* How a call that has ended leaves the navigations around it.
LEMMA EndsShown ==
  ASSUME RouterInv, ~Idle, NEW ok \in BOOLEAN, Ends(Front(frames), ok),
         ok /\ Len(frames) = 1 /\ ~redirected => stack' # << >> /\ view' = Last(stack')
  PROVE  ShownIsTop' /\ PopShowsTop' /\ redirected' \in BOOLEAN
<1>1. /\ frames' = Front(frames) /\ frames' \in Seq(Frame) /\ Len(frames') = Len(frames) - 1
      /\ Len(frames) \in Nat \ {0} /\ \A i \in 1 .. Len(frames) - 1 : frames'[i] = frames[i]
  BY FrontOf DEF Idle, Ends, RouterInv, RouterTypes
<1>2. redirected' = (redirected /\ frames' # << >>)
  BY <1>1 DEF Ends
<1>3. CASE frames' = << >>
  <2>1. Len(frames) = 1
    BY <1>1, <1>3, EmptySeq
  <2>2. outcome' = "done" => ok /\ ~redirected
    BY <1>1, <1>3 DEF Ends
  <2>3. ShownIsTop'
    BY <2>1, <2>2 DEF ShownIsTop
  <2> QED
    BY <1>2, <1>3, <2>3 DEF PopShowsTop
<1>4. CASE frames' # << >>
  <2>1. Len(frames) # 1 /\ frames'[1] = frames[1] /\ frames # << >>
    BY <1>1, <1>4, EmptySeq
  <2>2. frames[1].op = "pop" => redirected
    BY <2>1 DEF RouterInv, PopShowsTop
  <2>3. redirected' <=> redirected
    BY <1>2, <1>4
  <2>4. PopShowsTop'
    BY <2>1, <2>2, <2>3 DEF PopShowsTop
  <2>5. ShownIsTop'
    BY <1>4 DEF ShownIsTop, Idle
  <2> QED
    BY <1>2, <2>4, <2>5
<1> QED
  BY <1>3, <1>4

LEMMA CallStep ==
  ASSUME RouterInv,
         Pop \/ \E uri \in Uris : Push(uri) \/ Replace(uri) \/ SwitchToTab(uri)
  PROVE  RouterInv'
<1>0. /\ stack \in Seq(Uris) /\ frames \in Seq(Frame) /\ DOMAIN frames = 1 .. Len(frames)
      /\ RouterTypes
  BY LenProperties DEF RouterInv, RouterTypes
<1>1. ASSUME NEW op \in {"push", "replace", "pop"}, NEW uri \in Uris,
             Execute(op, uri), stack' \in Seq(Uris),
             ReplaceHasTop', PopUriIsHeld', PopsNestPushes',
             Idle /\ op = "pop" => stack' # << >> /\ uri = Last(stack')
      PROVE  RouterInv'
  BY <1>0, <1>1, ExecuteFrames, ExecuteShown DEF RouterInv, RouterTypes
<1>2. ASSUME NEW uri \in Uris, Push(uri)
      PROVE  RouterInv'
  <2>1. Execute("push", uri) /\ stack' = stack
    BY <1>2 DEF Push
  <2>2. ReplaceHasTop' /\ PopUriIsHeld' /\ PopsNestPushes'
    BY <1>0, <2>1, ExecuteKept DEF RouterInv, ReplaceHasTop
  <2> QED
    BY <1>0, <1>1, <2>1, <2>2
<1>3. ASSUME NEW uri \in Uris, Replace(uri)
      PROVE  RouterInv'
  <2>1. MayCall("replace") /\ stack' = stack
    BY <1>3 DEF Replace
  <2>2. \A i \in DOMAIN frames : frames[i].op # "pop"
    BY <2>1, WithinAssumption DEF MayCall
  <2>3. PICK op \in {"push", "replace"} :
          Execute(op, uri) /\ (op = "replace" => stack # << >>)
    BY <1>3 DEF Replace
  <2>4. ReplaceHasTop' /\ PopUriIsHeld' /\ PopsNestPushes'
    BY <1>0, <2>1, <2>2, <2>3, ExecuteKept DEF RouterInv, ReplaceHasTop
  <2> QED
    BY <1>0, <1>1, <2>1, <2>3, <2>4
<1>4. ASSUME NEW uri \in Uris, SwitchToTab(uri)
      PROVE  RouterInv'
  <2>1. MayCall("switch") /\ stack' = << >> /\ Execute("push", uri)
    BY <1>4 DEF SwitchToTab
  <2>2. \A i \in DOMAIN frames : frames[i].op # "pop" /\ frames[i].op # "replace"
    BY <2>1, WithinAssumption DEF MayCall
  <2>3. stack' \in Seq(Uris)
    BY <2>1, EmptySeq
  <2>4. ReplaceHasTop' /\ PopUriIsHeld' /\ PopsNestPushes'
    BY <2>1, <2>2, <2>3, ExecuteKept
  <2> QED
    BY <1>1, <2>1, <2>3, <2>4
<1>5. CASE Pop
  <2>1. MayCall("pop") /\ Len(stack) > 1 /\ stack' = Front(stack)
    BY <1>5 DEF Pop, UnderTheTop
  <2>2. \A i \in DOMAIN frames : frames[i].op # "pop"
    BY <2>1, WithinAssumption DEF MayCall
  <2>3. PICK n \in Nat : n = Len(stack) - 1 /\ n > 0
    BY <1>0, <2>1, LenProperties
  <2>4. /\ stack' \in Seq(Uris) /\ Len(stack') = n /\ stack'[n] = stack[n]
        /\ stack' # << >>
    BY <1>0, <2>1, <2>3, FrontOf, EmptySeq, SMTT(60)
  <2>5. /\ Last(stack') = stack[n] /\ n \in DOMAIN stack' /\ stack[n] \in Uris
    BY <1>0, <2>3, <2>4, LenProperties, ElementOfSeq DEF Last
  <2>6. Execute("pop", stack[n])
    BY <1>5, <2>3 DEF Pop
  <2>7. ReplaceHasTop' /\ PopUriIsHeld' /\ PopsNestPushes'
    BY <2>2, <2>4, <2>5, <2>6, ExecuteKept
  <2> QED
    BY <1>1, <2>4, <2>5, <2>6, <2>7
<1> QED
  BY <1>2, <1>3, <1>4, <1>5

LEMMA GuardStep == ASSUME RouterInv, GuardReturns PROVE RouterInv'
<1>1. /\ frames # << >> /\ ~Idle /\ UNCHANGED <<stack, view>>
      /\ stack \in Seq(Uris) /\ frames \in Seq(Frame) /\ redirected \in BOOLEAN
  BY DEF GuardReturns, Idle, RouterInv, RouterTypes
<1>2. CASE Ends(Front(frames), FALSE)
  <2>1. ShownIsTop' /\ PopShowsTop' /\ redirected' \in BOOLEAN
    BY <1>1, <1>2, EndsShown
  <2>2. /\ frames' \in Seq(Frame) /\ Len(frames') = Len(frames) - 1 /\ Len(frames) \in Nat
        /\ \A i \in 1 .. Len(frames') : frames'[i] = frames[i]
    BY <1>1, <1>2, FrontOf DEF Ends
  <2>3. ReplaceHasTop' /\ PopUriIsHeld' /\ PopsNestPushes'
    BY <1>1, <2>2, ReturnKept
  <2> QED
    BY <1>1, <2>1, <2>2, <2>3 DEF RouterInv, RouterTypes
<1>3. CASE frames' = [frames EXCEPT ![Len(frames)].at = "builder"] /\ UNCHANGED <<outcome, redirected>>
  <2>1. PICK n \in Nat \ {0} : n = Len(frames)
    BY <1>1, EmptySeq
  <2>2. PICK f \in Frame : /\ f.op = frames[n].op /\ f.uri = frames[n].uri
                           /\ frames' = [frames EXCEPT ![n] = f]
    <3>1. frames[n] \in Frame
      BY <1>1, <2>1, ElementOfSeq
    <3>2. [frames[n] EXCEPT !.at = "builder"] \in Frame
      BY <3>1 DEF Frame
    <3>3. frames' = [frames EXCEPT ![n] = [frames[n] EXCEPT !.at = "builder"]]
      BY <1>3, <2>1
    <3> QED
      BY <3>1, <3>2, <3>3 DEF Frame
  <2>3. /\ frames' \in Seq(Frame) /\ Len(frames') = n
        /\ \A i \in 1 .. n : frames'[i] = IF i = n THEN f ELSE frames[i]
    BY <1>1, <2>1, <2>2, ExceptSeq
  <2>4. \A i \in 1 .. n : frames'[i].op = frames[i].op /\ frames'[i].uri = frames[i].uri
    BY <2>2, <2>3
  <2>5. frames' # << >> /\ 1 \in 1 .. n
    BY <2>1, <2>3, EmptySeq
  <2>6. ShownIsTop' /\ PopShowsTop'
    BY <1>1, <1>3, <2>1, <2>3, <2>4, <2>5 DEF ShownIsTop, Idle, PopShowsTop, RouterInv
  <2>7. ReplaceHasTop' /\ PopUriIsHeld' /\ PopsNestPushes'
    BY <1>1, <2>1, <2>3, <2>4, ReturnKept
  <2> QED
    BY <1>1, <1>3, <2>3, <2>6, <2>7 DEF RouterInv, RouterTypes
<1> QED
  BY <1>2, <1>3 DEF GuardReturns

LEMMA BuilderStep == ASSUME RouterInv, BuilderReturns PROVE RouterInv'
<1>1. /\ frames # << >> /\ ~Idle
      /\ stack \in Seq(Uris) /\ frames \in Seq(Frame) /\ redirected \in BOOLEAN
  BY DEF BuilderReturns, Idle, RouterInv, RouterTypes
<1>2. PICK n \in Nat \ {0} : n = Len(frames)
  BY <1>1, EmptySeq
<1>3. PICK f \in Frame : f = frames[n] /\ f = Callback
  BY <1>1, <1>2, ElementOfSeq DEF Callback, Last
<1>4. /\ f.op \in {"push", "replace", "pop"} /\ f.uri \in Uris
      /\ n \in DOMAIN frames
  BY <1>1, <1>2, <1>3, LenProperties DEF Frame
<1>5. /\ Front(frames) \in Seq(Frame) /\ Len(Front(frames)) = n - 1
      /\ \A i \in 1 .. n - 1 : Front(frames)[i] = frames[i]
  BY <1>1, <1>2, FrontOf
<1>6. ASSUME NEW ok \in BOOLEAN, Ends(Front(frames), ok), stack' \in Seq(Uris),
             stack # << >> => stack' # << >>,
             ok /\ n = 1 /\ ~redirected => stack' # << >> /\ view' = Last(stack'),
             (\E i \in 1 .. n - 1 : frames[i].op = "pop") =>
               \A j \in DOMAIN stack : j \in DOMAIN stack' /\ stack'[j] = stack[j]
      PROVE  RouterInv'
  <2>1. ShownIsTop' /\ PopShowsTop' /\ redirected' \in BOOLEAN
    BY <1>1, <1>2, <1>6, EndsShown
  <2>2. /\ frames' \in Seq(Frame) /\ Len(frames') = n - 1 /\ n - 1 <= n
        /\ \A i \in 1 .. n - 1 : frames'[i] = frames[i]
    BY <1>5, <1>6 DEF Ends
  <2>3. ReplaceHasTop' /\ PopUriIsHeld' /\ PopsNestPushes'
    BY <1>2, <1>6, <2>2, ReturnKept
  <2> QED
    BY <1>6, <2>1, <2>2, <2>3 DEF RouterInv, RouterTypes
<1>7. CASE Ends(Front(frames), FALSE) /\ stack' = stack
  BY <1>1, <1>6, <1>7
<1>8. CASE stack' = StackAfter(f.op, f.uri) /\ Ends(Front(frames), TRUE)
  <2>1. view' = f.uri
    BY <1>3 DEF BuilderReturns
  <2>2. CASE f.op = "push"
    <3>1. stack' = Append(stack, f.uri)
      BY <1>8, <2>2 DEF StackAfter
    <3>2. /\ stack' \in Seq(Uris) /\ stack' # << >> /\ Last(stack') = f.uri
          /\ \A j \in DOMAIN stack : j \in DOMAIN stack' /\ stack'[j] = stack[j]
      <4>1. /\ stack' \in Seq(Uris) /\ stack' # << >> /\ Last(stack') = f.uri
            /\ Len(stack') = Len(stack) + 1 /\ Len(stack) \in Nat
            /\ \A j \in 1 .. Len(stack) : stack'[j] = stack[j]
        BY <1>1, <1>4, <3>1, LastOfAppend
      <4>2. DOMAIN stack = 1 .. Len(stack) /\ DOMAIN stack' = 1 .. Len(stack')
        BY <1>1, <4>1, LenProperties
      <4> QED
        BY <4>1, <4>2
    <3> QED
      BY <1>6, <1>8, <2>1, <3>2
  <2>3. CASE f.op = "replace"
    <3>1. stack' = Append(Front(stack), f.uri)
      BY <1>8, <2>3 DEF StackAfter
    <3>2. stack # << >>
      BY <1>3, <1>4, <2>3 DEF RouterInv, ReplaceHasTop
    <3>3. stack' \in Seq(Uris) /\ stack' # << >> /\ Last(stack') = f.uri
      <4>1. Front(stack) \in Seq(Uris)
        BY <1>1, <3>2, FrontOf
      <4> QED
        BY <1>4, <3>1, <4>1, LastOfAppend
    <3>4. \A i \in 1 .. n - 1 : frames[i].op # "pop"
      <4>1. \A i \in 1 .. n - 1 : i \in DOMAIN frames /\ i < n
        BY <1>1, <1>2, LenProperties
      <4> QED
        BY <1>3, <1>4, <2>3, <4>1 DEF RouterInv, PopsNestPushes
    <3> QED
      BY <1>6, <1>8, <2>1, <3>3, <3>4
  <2>4. CASE f.op = "pop"
    <3>1. stack' = stack
      BY <1>8, <2>4 DEF StackAfter
    <3>2. n = 1 /\ ~redirected => stack # << >> /\ f.uri = Last(stack)
      BY <1>1, <1>3, <2>4 DEF RouterInv, PopShowsTop
    <3> QED
      BY <1>1, <1>6, <1>8, <2>1, <3>1, <3>2
  <2> QED
    BY <1>4, <2>2, <2>3, <2>4
<1> QED
  BY <1>3, <1>7, <1>8 DEF BuilderReturns

LEMMA RouterAlways == RouterSpec => []RouterInv
<1>1. RouterInit => RouterInv
  <2> SUFFICES ASSUME RouterInit PROVE RouterInv
    OBVIOUS
  <2>1. stack = << >> /\ frames = << >> /\ outcome = "none" /\ redirected = FALSE
    BY DEF RouterInit
  <2>2. RouterTypes
    BY <2>1, EmptySeq DEF RouterTypes
  <2>3. DOMAIN frames = {}
    BY <2>1
  <2> QED
    BY <2>1, <2>2, <2>3
       DEF RouterInv, ShownIsTop, PopShowsTop, ReplaceHasTop, PopUriIsHeld, PopsNestPushes
<1>2. RouterInv /\ [RouterNext]_routerVars => RouterInv'
  <2> SUFFICES ASSUME RouterInv, [RouterNext]_routerVars PROVE RouterInv'
    OBVIOUS
  <2>1. CASE Register \/ UNCHANGED routerVars
    <3>1. UNCHANGED <<stack, view, frames, outcome, redirected>>
      BY <2>1 DEF Register, routerVars
    <3> QED
      BY <3>1 DEF RouterInv, RouterTypes, ShownIsTop, Idle, PopShowsTop, ReplaceHasTop,
                  PopUriIsHeld, PopsNestPushes
  <2> QED
    BY <2>1, CallStep, GuardStep, BuilderStep DEF RouterNext
<1> QED
  BY <1>1, <1>2, PTL DEF RouterSpec

\* Guards and builders may navigate as deep as they like within the contract:
\* what is shown after a navigation that succeeded is the top of the stack.
THEOREM ViewIsTop == RouterSpec => []ShownIsTop
BY RouterAlways, PTL DEF RouterInv

\* The contract is enough for the memory, too: a replace finds a URI to free,
\* and that of a pop, which belongs to the stack, is not freed under its builder.
THEOREM StackOutlivesCallbacks == RouterSpec => [](ReplaceHasTop /\ PopUriIsHeld)
BY RouterAlways, PTL DEF RouterInv

-----------------------------------------------------------------------------
(***************************************************************************)
(* EditorTabs.  The two ways in which the active tab is kept agree, for    *)
(* any number of tabs, and only closing it or opening another makes        *)
(* another tab active.                                                     *)
(***************************************************************************)

TabRecord == [tab : Tabs, active : BOOLEAN]

\* Each tab is open once, and exactly the one at activeIndex is marked.
TabsInv ==
  /\ tabs \in Seq(TabRecord)
  /\ activeIndex \in 0 .. Len(tabs)
  /\ activeIndex = 0 <=> Len(tabs) = 0
  /\ \A i \in 1 .. Len(tabs) : tabs[i].active <=> i = activeIndex
  /\ \A i, j \in 1 .. Len(tabs) : tabs[i].tab = tabs[j].tab => i = j

LEMMA TabsInvInit == TabsInit => TabsInv
  BY DEF TabsInit, TabsInv

\* A function on 1 .. n is a sequence of that length.
LEMMA FunctionIsSeq ==
  ASSUME NEW S, NEW n \in Nat, NEW f \in [1 .. n -> S]
  PROVE  f \in Seq(S) /\ Len(f) = n /\ DOMAIN f = 1 .. n
  OBVIOUS

LEMMA AddKeepsInv ==
  ASSUME TabsInv, NEW t \in Tabs, AddTab(t)
  PROVE  TabsInv'
<1> DEFINE old == [i \in DOMAIN tabs |-> [tabs[i] EXCEPT !.active = FALSE]]
           new == [tab |-> t, active |-> TRUE]
           n   == Len(tabs)
<1>1. tabs \in Seq(TabRecord) /\ n \in Nat /\ DOMAIN tabs = 1 .. n
  BY DEF TabsInv
<1>2. \A i \in 1 .. n : tabs[i] \in TabRecord
  BY <1>1
<1>3. old \in [1 .. n -> TabRecord]
  BY <1>1, <1>2 DEF TabRecord
<1>4. old \in Seq(TabRecord) /\ Len(old) = n
  BY <1>1, <1>3, FunctionIsSeq
<1>5. new \in TabRecord
  BY DEF TabRecord
<1>6. tabs' = Append(old, new) /\ activeIndex' = n + 1
  BY DEF AddTab
<1>7. tabs' \in Seq(TabRecord) /\ Len(tabs') = n + 1
  BY <1>1, <1>4, <1>5, <1>6
<1>8. \A i \in 1 .. n : tabs'[i].tab = tabs[i].tab /\ tabs'[i].active = FALSE
  BY <1>1, <1>2, <1>4, <1>6 DEF TabRecord
<1>9. tabs'[n + 1].tab = t /\ tabs'[n + 1].active = TRUE
  BY <1>1, <1>4, <1>6
<1>10. \A i \in 1 .. n : tabs[i].tab # t
  BY <1>1 DEF AddTab, Open
<1>11. \A i \in 1 .. n + 1 : tabs'[i].active <=> i = n + 1
  <2> SUFFICES ASSUME NEW i \in 1 .. n + 1 PROVE tabs'[i].active <=> i = n + 1
    OBVIOUS
  <2>1. CASE i = n + 1
    BY <1>9, <2>1
  <2>2. CASE i \in 1 .. n
    BY <1>1, <1>8, <2>2
  <2> QED
    BY <1>1, <2>1, <2>2
<1>12. \A i, j \in 1 .. n + 1 : tabs'[i].tab = tabs'[j].tab => i = j
  <2> SUFFICES ASSUME NEW i \in 1 .. n + 1, NEW j \in 1 .. n + 1, tabs'[i].tab = tabs'[j].tab
               PROVE  i = j
    OBVIOUS
  <2> HIDE DEF old, new
  <2>1. CASE i \in 1 .. n /\ j \in 1 .. n
    BY <1>1, <1>8, <2>1 DEF TabsInv
  <2>2. CASE i = n + 1 \/ j = n + 1
    BY <1>1, <1>8, <1>9, <1>10, <2>2
  <2> QED
    BY <1>1, <2>1, <2>2
<1> HIDE DEF new, old
<1> QED
  BY <1>1, <1>6, <1>7, <1>11, <1>12 DEF TabsInv

LEMMA CloseKeepsInv ==
  ASSUME TabsInv, NEW i \in DOMAIN tabs, CloseTab(i)
  PROVE  /\ TabsInv'
         /\ Len(tabs') = Len(tabs) - 1
         /\ \A j \in 1 .. Len(tabs) - 1 : tabs'[j].tab = Without(i)[j].tab
<1> DEFINE n == Len(tabs)
           others == Without(i)
           k == activeIndex'
<1>1. tabs \in Seq(TabRecord) /\ n \in Nat /\ DOMAIN tabs = 1 .. n /\ i \in 1 .. n
  BY DEF TabsInv
<1>2. \A j \in 1 .. n : tabs[j] \in TabRecord
  BY <1>1
<1>3. others \in [1 .. n - 1 -> TabRecord] /\ n - 1 \in Nat
  BY <1>1, <1>2 DEF Without
<1>4. others \in Seq(TabRecord) /\ Len(others) = n - 1 /\ DOMAIN others = 1 .. n - 1
  BY <1>3, FunctionIsSeq
<1>5. k = IndexAfterClose(i)
  BY DEF CloseTab
<1>6. k \in 0 .. n - 1 /\ (k = 0 <=> n - 1 = 0)
  BY <1>1, <1>5 DEF IndexAfterClose, TabsInv
<1>7. \A j \in 1 .. n - 1 : others[j] = tabs[IF j < i THEN j ELSE j + 1]
  BY <1>1 DEF Without
<1>8. \A a, b \in 1 .. n - 1 : others[a].tab = others[b].tab => a = b
  BY <1>1, <1>7 DEF TabsInv
<1>9. CASE activeIndex = i /\ n > 1
  <2>1. tabs' = [others EXCEPT ![k].active = TRUE]
    BY <1>9 DEF CloseTab
  <2>2. tabs' \in [1 .. n - 1 -> TabRecord]
    BY <1>3, <2>1 DEF TabRecord
  <2>3. tabs' \in Seq(TabRecord) /\ Len(tabs') = n - 1
    BY <1>3, <2>2, FunctionIsSeq
  <2>4. \A j \in 1 .. n - 1 : ~ tabs[IF j < i THEN j ELSE j + 1].active
    BY <1>1, <1>9 DEF TabsInv
  <2>5. \A j \in 1 .. n - 1 : j # k => tabs'[j] = others[j]
    BY <1>3, <1>4, <2>1
  <2>6. k \in 1 .. n - 1
    BY <1>1, <1>6, <1>9
  <2>7. tabs'[k] = [others[k] EXCEPT !.active = TRUE] /\ others[k] \in TabRecord
    BY <1>3, <1>4, <2>1, <2>6
  <2>8. tabs'[k].active = TRUE /\ tabs'[k].tab = others[k].tab
    BY <2>7 DEF TabRecord
  <2>9. \A j \in 1 .. n - 1 : tabs'[j].tab = others[j].tab
    BY <2>5, <2>8
  <2>10. \A j \in 1 .. n - 1 : tabs'[j].active <=> j = k
    BY <1>7, <2>4, <2>5, <2>8
  <2> HIDE DEF k, others
  <2> QED
    BY <1>1, <1>6, <1>8, <2>3, <2>9, <2>10 DEF TabsInv, n, k, others
<1>10. CASE ~(activeIndex = i /\ n > 1)
  <2>1. tabs' = others
    BY <1>10 DEF CloseTab
  <2>2. \A j \in 1 .. n - 1 : tabs[IF j < i THEN j ELSE j + 1].active <=> j = k
    BY <1>1, <1>5, <1>10 DEF TabsInv, IndexAfterClose
  <2>3. \A j \in 1 .. n - 1 : tabs'[j].active <=> j = k
    BY <1>7, <2>1, <2>2
  <2> HIDE DEF k, others
  <2> QED
    BY <1>1, <1>4, <1>6, <1>8, <2>1, <2>3 DEF TabsInv, n, k, others
<1> QED
  BY <1>9, <1>10

\* Where the tab at j is taken from when tabs are shifted.
Source(from, to, j) ==
  IF j = to THEN from
  ELSE IF from <= j /\ j < to THEN j + 1
  ELSE IF to < j /\ j <= from THEN j - 1
  ELSE j

\* Shifting n tabs loses none and doubles none.
Permutes(from, to, n) ==
  /\ \A j \in 1 .. n : Source(from, to, j) \in 1 .. n
  /\ \A a, b \in 1 .. n : Source(from, to, a) = Source(from, to, b) => a = b
  /\ \A m \in 1 .. n : \E j \in 1 .. n : Source(from, to, j) = m

LEMMA SourceIsPermutation ==
  ASSUME NEW n \in Nat, NEW from \in 1 .. n, NEW to \in 1 .. n
  PROVE  Permutes(from, to, n)
<1>1. \A j \in 1 .. n : Source(from, to, j) \in 1 .. n
  BY DEF Source
<1>2. \A a, b \in 1 .. n : Source(from, to, a) = Source(from, to, b) => a = b
  BY DEF Source
<1>3. ASSUME NEW m \in 1 .. n PROVE \E j \in 1 .. n : Source(from, to, j) = m
  <2>1. CASE m = from
    <3>1. Source(from, to, to) = m
      BY <2>1 DEF Source
    <3> QED
      BY <3>1
  <2>2. CASE from < m /\ m <= to
    <3>1. m - 1 \in 1 .. n /\ Source(from, to, m - 1) = m
      BY <2>2 DEF Source
    <3> QED
      BY <3>1
  <2>3. CASE to <= m /\ m < from
    <3>1. m + 1 \in 1 .. n /\ Source(from, to, m + 1) = m
      BY <2>3 DEF Source
    <3> QED
      BY <3>1
  <2>4. CASE (m < from /\ m < to) \/ (m > from /\ m > to)
    <3>1. Source(from, to, m) = m
      BY <2>4 DEF Source
    <3> QED
      BY <3>1
  <2>5. \/ m = from
        \/ from < m /\ m <= to
        \/ to <= m /\ m < from
        \/ (m < from /\ m < to) \/ (m > from /\ m > to)
    OBVIOUS
  <2> QED
    BY <2>1, <2>2, <2>3, <2>4, <2>5
<1> QED
  BY <1>1, <1>2, <1>3 DEF Permutes

LEMMA MoveKeepsInv ==
  ASSUME TabsInv, NEW from \in DOMAIN tabs, NEW to \in DOMAIN tabs, MoveTab(from, to)
  PROVE  /\ TabsInv'
         /\ activeIndex # 0 => tabs'[activeIndex'].tab = tabs[activeIndex].tab
<1> DEFINE n == Len(tabs)
           S(j) == Source(from, to, j)
           k == activeIndex'
<1>1. /\ tabs \in Seq(TabRecord) /\ n \in Nat /\ DOMAIN tabs = 1 .. n
      /\ from \in 1 .. n /\ to \in 1 .. n
  BY DEF TabsInv
<1>2. \A j \in 1 .. n : tabs[j] \in TabRecord
  BY <1>1
<1>3. /\ \A j \in 1 .. n : S(j) \in 1 .. n
      /\ \A a, b \in 1 .. n : S(a) = S(b) => a = b
      /\ \A m \in 1 .. n : \E j \in 1 .. n : S(j) = m
  <2>1. Permutes(from, to, n)
    BY <1>1, SourceIsPermutation
  <2> QED
    BY <2>1 DEF Permutes
<1>4. tabs' = Shifted(from, to)
  BY DEF MoveTab
<1>5. \A j \in 1 .. n : tabs'[j] = tabs[S(j)]
  BY <1>1, <1>4 DEF Shifted, Source
<1>6. tabs' \in [1 .. n -> TabRecord]
  <2>1. DOMAIN tabs' = 1 .. n /\ tabs' = [j \in 1 .. n |-> Shifted(from, to)[j]]
    BY <1>1, <1>4 DEF Shifted
  <2> QED
    BY <1>2, <1>3, <1>5, <2>1
<1>7. tabs' \in Seq(TabRecord) /\ Len(tabs') = n
  BY <1>1, <1>6, FunctionIsSeq
<1>8. activeIndex \in 1 .. n
  BY <1>1 DEF TabsInv
<1>9. PICK m \in 1 .. n : S(m) = activeIndex
  BY <1>3, <1>8
<1>10. \A j \in 1 .. n : tabs'[j].active <=> j = m
  BY <1>3, <1>5, <1>8, <1>9 DEF TabsInv
<1>11. k = m
  <2> DEFINE marked == {j \in DOMAIN tabs : Shifted(from, to)[j].active}
  <2>1. marked = {m}
    BY <1>1, <1>4, <1>10
  <2>2. k = CHOOSE j \in marked : \A l \in marked : j <= l
    BY <2>1 DEF MoveTab
  <2> QED
    BY <2>1, <2>2
<1>12. tabs'[k].tab = tabs[activeIndex].tab
  BY <1>5, <1>9, <1>11
<1>13. ASSUME NEW a \in 1 .. n, NEW b \in 1 .. n, tabs'[a].tab = tabs'[b].tab
       PROVE  a = b
  <2>1. tabs[S(a)].tab = tabs[S(b)].tab /\ S(a) \in 1 .. n /\ S(b) \in 1 .. n
    BY <1>3, <1>5, <1>13
  <2>2. S(a) = S(b)
    <3> HIDE DEF S
    <3> QED
      BY <2>1 DEF TabsInv
  <2> QED
    BY <1>3, <2>2
<1> HIDE DEF S
<1> QED
  BY <1>1, <1>7, <1>8, <1>10, <1>11, <1>12, <1>13 DEF TabsInv

LEMMA TabsInvNext == TabsInv /\ [TabsNext]_tabVars => TabsInv'
<1> SUFFICES ASSUME TabsInv, [TabsNext]_tabVars PROVE TabsInv'
  OBVIOUS
<1>1. ASSUME NEW t \in Tabs, AddTab(t) PROVE TabsInv'
  BY <1>1, AddKeepsInv
<1>2. ASSUME NEW i \in DOMAIN tabs, CloseTab(i) PROVE TabsInv'
  BY <1>2, CloseKeepsInv
<1>3. ASSUME NEW from \in DOMAIN tabs, NEW to \in DOMAIN tabs, MoveTab(from, to)
      PROVE  TabsInv'
  BY <1>3, MoveKeepsInv
<1>4. CASE UNCHANGED tabVars
  BY <1>4 DEF tabVars, TabsInv
<1> QED
  BY <1>1, <1>2, <1>3, <1>4 DEF TabsNext

(* The mark of a tab and nav->active_index agree, for any number of tabs.    *)
THEOREM MarksAgree == TabsSpec => []ActiveTabIsMarked
<1>1. TabsInv => ActiveTabIsMarked
  BY DEF TabsInv, ActiveTabIsMarked
<1> QED
  BY <1>1, TabsInvInit, TabsInvNext, PTL DEF TabsSpec

\* What ActiveTabStays says of a step.
Stays ==
  LET active == tabs[activeIndex].tab
  IN  activeIndex # 0 /\ Open' \subseteq Open /\ active \in Open'
        => activeIndex' \in DOMAIN tabs' /\ tabs'[activeIndex'].tab = active

LEMMA StepStays == TabsInv /\ TabsInv' /\ [TabsNext]_tabVars => [Stays]_tabVars
<1> SUFFICES ASSUME TabsInv, TabsInv', TabsNext,
                    activeIndex # 0, Open' \subseteq Open, tabs[activeIndex].tab \in Open'
             PROVE  activeIndex' \in DOMAIN tabs' /\ tabs'[activeIndex'].tab = tabs[activeIndex].tab
  BY DEF Stays
<1> DEFINE n == Len(tabs)
<1>1. /\ n \in Nat /\ DOMAIN tabs = 1 .. n /\ activeIndex \in 1 .. n
      /\ DOMAIN tabs' = 1 .. Len(tabs') /\ Len(tabs') \in Nat
  BY DEF TabsInv
<1>2. PICK m \in 1 .. Len(tabs') : tabs'[m].tab = tabs[activeIndex].tab
  BY <1>1 DEF Open
<1>3. activeIndex' \in 1 .. Len(tabs')
  BY <1>1, <1>2 DEF TabsInv
<1>4. ASSUME NEW t \in Tabs, AddTab(t) PROVE FALSE
  <2>1. tabs' = Append([i \in DOMAIN tabs |-> [tabs[i] EXCEPT !.active = FALSE]],
                       [tab |-> t, active |-> TRUE]) /\ t \notin Open
    BY <1>4 DEF AddTab
  <2>2. [i \in DOMAIN tabs |-> [tabs[i] EXCEPT !.active = FALSE]] \in Seq(TabRecord)
    <3>1. \A i \in 1 .. n : tabs[i] \in TabRecord
      BY <1>1 DEF TabsInv
    <3>2. [i \in DOMAIN tabs |-> [tabs[i] EXCEPT !.active = FALSE]] \in [1 .. n -> TabRecord]
      BY <1>1, <3>1 DEF TabRecord
    <3> QED
      BY <1>1, <3>2, FunctionIsSeq
  <2>3. tabs'[Len(tabs')].tab = t /\ Len(tabs') \in DOMAIN tabs'
    BY <2>1, <2>2
  <2> QED
    BY <2>1, <2>3 DEF Open
<1>5. ASSUME NEW i \in DOMAIN tabs, CloseTab(i)
      PROVE  tabs'[activeIndex'].tab = tabs[activeIndex].tab
  <2>1. /\ \A j \in 1 .. n - 1 : tabs'[j].tab = tabs[IF j < i THEN j ELSE j + 1].tab
        /\ Len(tabs') = n - 1
    <3>1. \A j \in 1 .. n - 1 : tabs'[j].tab = Without(i)[j].tab
      BY <1>5, CloseKeepsInv
    <3>2. \A j \in 1 .. n - 1 : Without(i)[j] = tabs[IF j < i THEN j ELSE j + 1]
      BY DEF Without
    <3>3. Len(tabs') = n - 1
      BY <1>5, CloseKeepsInv
    <3> QED
      BY <3>1, <3>2, <3>3
  <2>2. i \in 1 .. n /\ m \in 1 .. n - 1
    BY <1>1, <2>1
  <2>3. (IF m < i THEN m ELSE m + 1) = activeIndex
    <3>1. tabs[IF m < i THEN m ELSE m + 1].tab = tabs[activeIndex].tab
      BY <1>2, <2>1, <2>2
    <3>2. (IF m < i THEN m ELSE m + 1) \in 1 .. n
      BY <1>1, <2>2
    <3> QED
      BY <1>1, <3>1, <3>2 DEF TabsInv
  <2>4. activeIndex' = m
    <3>1. activeIndex' = IndexAfterClose(i)
      BY <1>5 DEF CloseTab
    <3> QED
      BY <1>1, <2>2, <2>3, <3>1 DEF IndexAfterClose
  <2> QED
    BY <1>2, <2>4
<1>6. ASSUME NEW from \in DOMAIN tabs, NEW to \in DOMAIN tabs, MoveTab(from, to)
      PROVE  tabs'[activeIndex'].tab = tabs[activeIndex].tab
  BY <1>6, MoveKeepsInv
<1> QED
  BY <1>1, <1>3, <1>4, <1>5, <1>6 DEF TabsNext

(* Whatever tabs are closed and moved, the active one stays active while it  *)
(* is open and no other is opened.                                           *)
THEOREM ActiveTabIsKept == TabsSpec => ActiveTabStays
<1>1. TabsInv /\ TabsInv' /\ [TabsNext]_tabVars => [Stays]_tabVars
  BY StepStays
<1>2. ActiveTabStays <=> [][Stays]_tabVars
  BY DEF ActiveTabStays, Stays
<1> QED
  BY <1>1, <1>2, TabsInvInit, TabsInvNext, PTL DEF TabsSpec

-----------------------------------------------------------------------------
(***************************************************************************)
(* UndoStack.  Undo reads within the states there are, for an array of any *)
(* size: the position is ahead of the count after a failed push only, and  *)
(* then the array is not full, so that the next push drops nothing.        *)
(***************************************************************************)

UndoInv ==
  /\ count \in 0 .. Limit
  /\ position \in 0 .. count + 1
  /\ read \in 0 .. count
  /\ position = count + 1 => count = Limit - 1

LEMMA UndoInvInit == UndoInit => UndoInv
  BY LimitAssumption DEF UndoInit, UndoInv

LEMMA UndoInvNext == UndoInv /\ [UndoNext]_undoVars => UndoInv'
<1> SUFFICES ASSUME UndoInv, [UndoNext]_undoVars PROVE UndoInv'
  OBVIOUS
<1> USE LimitAssumption DEF UndoInv
<1>1. CASE PushState
  <2>1. CASE count' = RoomMade + 1 /\ position' = RoomMade + 1 /\ read' = 0
    BY <2>1 DEF RoomMade
  <2>2. CASE count' = RoomMade /\ position' = position /\ read' = 0
    <3>1. CASE count >= Limit
      BY <2>2, <3>1 DEF RoomMade
    <3>2. CASE ~(count >= Limit)
      BY <2>2, <3>2 DEF RoomMade
    <3> QED
      BY <3>1, <3>2
  <2> QED
    BY <1>1, <2>1, <2>2 DEF PushState
<1>2. CASE Undo
  BY <1>2 DEF Undo
<1>3. CASE UNCHANGED undoVars
  BY <1>3 DEF undoVars
<1> QED
  BY <1>1, <1>2, <1>3 DEF UndoNext

(* Whatever pushes fail, cmp_undo_redo_undo reads a state that is there.     *)
THEOREM UndoReadsWhatIsThere == UndoSpec => []UndoReadsLiveState
<1>1. UndoInv => UndoReadsLiveState
  BY LimitAssumption DEF UndoInv, UndoReadsLiveState
<1> QED
  BY <1>1, UndoInvInit, UndoInvNext, PTL DEF UndoSpec

-----------------------------------------------------------------------------
(***************************************************************************)
(* Dispatch.  The walk of an event keeps to what it gathered when it began,*)
(* and the list it is in changes only at the end it has passed: what it    *)
(* still has to do is known by counting from the end.                      *)
(***************************************************************************)

DListener == [id : ListenerIds, capture : BOOLEAN]
VisitRecord == [node : UiNodeIds, phase : {"capture", "target", "bubble"}]
Call == [visits : Nat \ {0}, rest : Nat \ {0}, id : ListenerIds]

DispatchTypes ==
  /\ parent \in [UiNodeIds -> UiNodeIds \cup {NoParent}]
  /\ listeners \in [UiNodeIds -> Seq(DListener)]
  /\ visits \in Seq(VisitRecord) /\ rest \in Seq(DListener)
  /\ heard \in Seq(ListenerIds) /\ due \subseteq Call

\* Every node has a root above it: the parents make no cycle.
Rooted == \A n \in UiNodeIds : \E c \in Seq(UiNodeIds) : IsLineage(c, n)

(* Listeners are added in front and visits taken from the front, so both are  *)
(* counted from the end.                                                      *)
FromEnd(s, e) == s[Len(s) + 1 - e]
Count(n) == Len(listeners[n])
At(n, e) == FromEnd(listeners[n], e)

\* Each listener is in one list, once.
OnePlace ==
  \A m, n \in UiNodeIds : \A d \in 1 .. Count(m), e \in 1 .. Count(n) :
    At(m, d).id = At(n, e).id => m = n /\ d = e

\* A node that is visited twice is visited on the way down and on the way up.
DownAndUp ==
  \A i, j \in 1 .. Len(visits) : i < j /\ visits[i].node = visits[j].node =>
    visits[i].phase = "capture" /\ visits[j].phase = "bubble"

\* What is left of the list is its end.
RestIsEnd ==
  IF Under THEN /\ Len(rest) <= Count(visits[1].node)
                /\ \A e \in 1 .. Len(rest) : FromEnd(rest, e) = At(visits[1].node, e)
           ELSE rest = << >>

\* A listener that was called is not called again at any visit that is left.
NotAgain ==
  \A a \in 1 .. Len(heard) :
    /\ \E n \in UiNodeIds : \E e \in 1 .. Count(n) : At(n, e).id = heard[a]
    /\ \A k \in 1 .. Len(visits) : \A e \in 1 .. Count(visits[k].node) :
         At(visits[k].node, e).id = heard[a] /\ Hears(At(visits[k].node, e), visits[k].phase)
           => k = 1 /\ e > Len(rest)

(* A call that has to be made is behind, or its listener is still where it    *)
(* will be found; those behind were made in their order.                      *)
Passed(c) == c.visits > Len(visits) \/ (c.visits = Len(visits) /\ c.rest > Len(rest))
Coming(c) ==
  /\ c.rest <= Count(FromEnd(visits, c.visits).node)
  /\ At(FromEnd(visits, c.visits).node, c.rest).id = c.id
  /\ Hears(At(FromEnd(visits, c.visits).node, c.rest), FromEnd(visits, c.visits).phase)

DueIsMet == \A c \in due : IF Passed(c) THEN \E a \in 1 .. Len(heard) : heard[a] = c.id
                                        ELSE Coming(c)
InOrder ==
  \A c, d \in due : \A a, b \in 1 .. Len(heard) :
    Passed(c) /\ Passed(d) /\ Before(c, d) /\ heard[a] = c.id /\ heard[b] = d.id => a < b

HeardOnce == \A i, j \in 1 .. Len(heard) : heard[i] = heard[j] => i = j

DispatchInv ==
  /\ DispatchTypes /\ Rooted /\ OnePlace /\ DownAndUp /\ RestIsEnd
  /\ HeardOnce /\ NotAgain /\ DueIsMet /\ InOrder

(* A set of numbers up to n that is not empty has a greatest one. *)
LEMMA GreatestNumber ==
  ASSUME NEW n \in Nat, NEW T, T \subseteq 0 .. n, T # {}
  PROVE  \E m \in T : \A k \in T : k <= m
<1> DEFINE Less == OpToRel(<, Nat)
           U == {d \in 0 .. n : n - d \in T}
<1>1. IsWellFoundedOn(Less, Nat)
  BY NatLessThanWellFounded
<1>2. \A x, y \in Nat : x < y => <<x, y>> \in Less
  BY DEF OpToRel
<1>3. U \subseteq Nat /\ U # {}
  <2>1. PICK t \in T : TRUE
    OBVIOUS
  <2>2. n - t \in U
    BY <2>1
  <2> QED
    BY <2>2
<1> HIDE DEF Less
<1>4. PICK x \in U : \A y \in U : <<y, x>> \notin Less
  BY <1>1, <1>3, WFMin
<1>5. ASSUME NEW k \in T PROVE k <= n - x
  <2>1. n - k \in U
    OBVIOUS
  <2>2. ~(n - k < x)
    BY <1>2, <1>3, <1>4, <2>1
  <2> QED
    BY <2>2
<1> QED
  BY <1>5

(* A walk along parent that ends does not come to a node twice. *)
LEMMA LineageIsDistinct ==
  ASSUME NodesAssumption, parent \in [UiNodeIds -> UiNodeIds \cup {NoParent}],
         NEW n, NEW c \in Seq(UiNodeIds), IsLineage(c, n)
  PROVE  \A i, j \in 1 .. Len(c) : c[i] = c[j] => i = j
<1> DEFINE T == {j \in 1 .. Len(c) : \E i \in 1 .. j - 1 : c[i] = c[j]}
<1>1. SUFFICES T = {}
  BY <1>1
<1>2. SUFFICES ASSUME T # {} PROVE FALSE
  OBVIOUS
<1>3. PICK j \in T : \A k \in T : k <= j
  <2>1. T \subseteq 0 .. Len(c) /\ Len(c) \in Nat
    OBVIOUS
  <2> HIDE DEF T
  <2> QED
    BY <1>2, <2>1, GreatestNumber
<1>4. PICK i \in 1 .. j - 1 : c[i] = c[j]
  BY <1>3
<1>5. i \in 1 .. Len(c) - 1 /\ parent[c[i]] = c[i + 1] /\ c[i + 1] \in UiNodeIds
  BY DEF IsLineage
<1>6. CASE j = Len(c)
  BY <1>4, <1>5, <1>6 DEF IsLineage, Last, NodesAssumption
<1>7. CASE j # Len(c)
  <2>1. j + 1 \in 1 .. Len(c) /\ i + 1 \in 1 .. j /\ c[j + 1] = c[i + 1]
    BY <1>4, <1>5, <1>7 DEF IsLineage
  <2> QED
    BY <1>3, <2>1
<1> QED
  BY <1>6, <1>7

LEMMA LineageIsFound ==
  ASSUME DispatchTypes, Rooted, NEW n \in UiNodeIds
  PROVE  /\ Lineage(n) \in Seq(UiNodeIds) /\ IsLineage(Lineage(n), n)
         /\ \A i, j \in 1 .. Len(Lineage(n)) : Lineage(n)[i] = Lineage(n)[j] => i = j
<1>1. PICK c \in Seq(UiNodeIds) : IsLineage(c, n)
  BY DEF Rooted
<1>2. \A i, j \in 1 .. Len(c) : c[i] = c[j] => i = j
  BY <1>1, NodesAssumption, LineageIsDistinct DEF DispatchTypes
<1>3. Len(c) <= Cardinality(UiNodeIds) /\ Cardinality(UiNodeIds) \in Nat
  <2>1. c \in Injection(1 .. Len(c), UiNodeIds)
    BY <1>2 DEF Injection, IsInjective
  <2>2. Cardinality(1 .. Len(c)) = Len(c)
    <3>1. 1 \in Int /\ Len(c) \in Int /\ Len(c) >= 0
      OBVIOUS
    <3>2. Cardinality(1 .. Len(c)) = IF 1 > Len(c) THEN 0 ELSE Len(c) - 1 + 1
      BY <3>1, FS_Interval
    <3> QED
      BY <3>1, <3>2
  <2> QED
    BY <2>1, <2>2, FS_Injection, FS_CardinalityType, NodesAssumption DEF NodesAssumption
<1>4. c \in SeqOf(UiNodeIds, Cardinality(UiNodeIds))
  BY <1>3 DEF SeqOf
<1>5. Lineage(n) \in SeqOf(UiNodeIds, Cardinality(UiNodeIds)) /\ IsLineage(Lineage(n), n)
  BY <1>1, <1>4 DEF Lineage
<1>6. Lineage(n) \in Seq(UiNodeIds)
  BY <1>3, <1>5 DEF SeqOf
<1> QED
  BY <1>5, <1>6, NodesAssumption, LineageIsDistinct DEF DispatchTypes

-----------------------------------------------------------------------------
LEMMA DispatchStart == DispatchInit => DispatchInv
<1> SUFFICES ASSUME DispatchInit PROVE DispatchInv
  OBVIOUS
<1>1. DispatchTypes
  <2>1. << >> \in Seq(DListener) /\ << >> \in Seq(VisitRecord) /\ << >> \in Seq(ListenerIds)
    OBVIOUS
  <2> QED
    BY <2>1 DEF DispatchInit, DispatchTypes
<1>2. Rooted
  <2>1. ASSUME NEW n \in UiNodeIds PROVE <<n>> \in Seq(UiNodeIds) /\ IsLineage(<<n>>, n)
    BY DEF DispatchInit, IsLineage, Last
  <2> QED
    BY <2>1 DEF Rooted
<1>3. OnePlace /\ RestIsEnd /\ DueIsMet /\ InOrder
  BY DEF DispatchInit, OnePlace, Count, RestIsEnd, Under, DueIsMet, InOrder
<1>4. DownAndUp /\ HeardOnce /\ NotAgain
  BY DEF DispatchInit, DownAndUp, HeardOnce, NotAgain
<1> QED
  BY <1>1, <1>2, <1>3, <1>4 DEF DispatchInv

LEMMA TailFromEnd ==
  ASSUME NEW S, NEW s \in Seq(S), s # << >>
  PROVE  /\ Len(s) \in Nat /\ Len(s) > 0 /\ Tail(s) \in Seq(S) /\ Len(Tail(s)) = Len(s) - 1
         /\ Head(s) = FromEnd(s, Len(s)) /\ Head(s) = s[1] /\ Head(s) \in S
         /\ \A e \in 1 .. Len(s) - 1 : FromEnd(Tail(s), e) = FromEnd(s, e)
         /\ \A i \in 1 .. Len(s) - 1 : Tail(s)[i] = s[i + 1]
BY DEF FromEnd

LEMMA ConsFromEnd ==
  ASSUME NEW S, NEW s \in Seq(S), NEW x \in S
  PROVE  /\ <<x>> \o s \in Seq(S) /\ Len(<<x>> \o s) = Len(s) + 1
         /\ FromEnd(<<x>> \o s, Len(s) + 1) = x
         /\ \A e \in 1 .. Len(s) : FromEnd(<<x>> \o s, e) = FromEnd(s, e)
BY DEF FromEnd

LEMMA Concatenation ==
  ASSUME NEW S, NEW s \in Seq(S), NEW t \in Seq(S)
  PROVE  /\ s \o t \in Seq(S) /\ Len(s \o t) = Len(s) + Len(t)
         /\ \A i \in 1 .. Len(s) : (s \o t)[i] = s[i]
         /\ \A i \in Len(s) + 1 .. Len(s) + Len(t) : (s \o t)[i] = t[i - Len(s)]
OBVIOUS

LEMMA FromEndType ==
  ASSUME NEW S, NEW s \in Seq(S), NEW e \in 1 .. Len(s)
  PROVE  FromEnd(s, e) \in S
BY DEF FromEnd

LEMMA AddChildStep ==
  ASSUME DispatchInv, NEW p \in UiNodeIds, NEW n \in UiNodeIds, AddChildTo(p, n)
  PROVE  DispatchInv'
<1>1. parent' = [parent EXCEPT ![n] = p] /\ n \notin ToSet(Lineage(p))
      /\ UNCHANGED <<listeners, visits, rest, heard, due>>
  BY DEF AddChildTo
<1>2. DispatchTypes'
  BY <1>1 DEF DispatchInv, DispatchTypes
<1>3. ASSUME NEW m \in UiNodeIds PROVE \E c \in Seq(UiNodeIds) : IsLineage(c, m)'
  <2> DEFINE q == Lineage(p)
             c == Lineage(m)
  <2>1. q \in Seq(UiNodeIds) /\ IsLineage(q, p) /\ \A i \in 1 .. Len(q) : q[i] # n
    BY <1>1, LineageIsFound DEF DispatchInv, ToSet
  <2>2. /\ c \in Seq(UiNodeIds) /\ IsLineage(c, m)
        /\ \A i, j \in 1 .. Len(c) : c[i] = c[j] => i = j
    BY LineageIsFound DEF DispatchInv
  <2>3. parent \in [UiNodeIds -> UiNodeIds \cup {NoParent}]
    BY DEF DispatchInv, DispatchTypes
  <2> HIDE DEF c, q
  <2>4. CASE \A i \in 1 .. Len(c) : c[i] # n
    <3>1. \A i \in 1 .. Len(c) : parent'[c[i]] = parent[c[i]]
      BY <1>1, <2>2, <2>3, <2>4
    <3> QED
      BY <2>2, <3>1 DEF IsLineage, Last
  <2>5. ASSUME NEW i \in 1 .. Len(c), c[i] = n PROVE \E d \in Seq(UiNodeIds) : IsLineage(d, m)'
    <3> DEFINE d == SubSeq(c, 1, i) \o q
    <3>1. /\ d \in Seq(UiNodeIds) /\ Len(d) = i + Len(q) /\ Len(q) \in Nat /\ Len(q) > 0
          /\ \A k \in 1 .. i : d[k] = c[k]
          /\ \A k \in i + 1 .. i + Len(q) : d[k] = q[k - i]
      BY <2>1, <2>2, <2>5 DEF IsLineage
    <3>2. \A k \in 1 .. i - 1 : parent'[c[k]] = c[k + 1]
      BY <1>1, <2>2, <2>3, <2>5 DEF IsLineage
    <3>3. parent'[c[i]] = q[1]
      BY <1>1, <2>1, <2>3, <2>5 DEF IsLineage
    <3>4. \A k \in 1 .. Len(q) : parent'[q[k]] = parent[q[k]]
      BY <1>1, <2>1, <2>3
    <3> HIDE DEF d
    <3>5. d[1] = m /\ d # << >> /\ parent'[d[Len(d)]] = NoParent
      <4>1. d[1] = m /\ d # << >>
        BY <2>2, <3>1 DEF IsLineage
      <4>2. d[Len(d)] = q[Len(q)] /\ Len(q) \in 1 .. Len(q)
        BY <3>1
      <4>3. parent'[q[Len(q)]] = NoParent
        BY <2>1, <3>4, <4>2 DEF IsLineage, Last
      <4> QED
        BY <4>1, <4>2, <4>3
    <3>6. ASSUME NEW k \in 1 .. Len(d) - 1 PROVE parent'[d[k]] = d[k + 1]
      <4>1. CASE k < i
        <5>1. k \in 1 .. i - 1 /\ k \in 1 .. i /\ k + 1 \in 1 .. i
          BY <3>1, <4>1
        <5> QED
          BY <3>1, <3>2, <5>1
      <4>2. CASE k = i
        <5>1. i \in 1 .. i /\ i + 1 \in i + 1 .. i + Len(q) /\ (i + 1) - i = 1
          BY <3>1
        <5>2. d[i] = c[i] /\ d[i + 1] = q[1]
          BY <3>1, <5>1
        <5> QED
          BY <3>3, <4>2, <5>2
      <4>3. CASE k > i
        <5>1. PICK e \in 1 .. Len(q) - 1 : e = k - i
          BY <3>1, <4>3
        <5>2. d[k] = q[e] /\ d[k + 1] = q[e + 1] /\ e \in 1 .. Len(q)
          <6>1. k \in i + 1 .. i + Len(q) /\ k + 1 \in i + 1 .. i + Len(q) /\ (k + 1) - i = e + 1
            BY <3>1, <4>3, <5>1
          <6> QED
            BY <3>1, <5>1, <6>1
        <5> QED
          BY <2>1, <3>4, <5>1, <5>2 DEF IsLineage
      <4> QED
        BY <3>1, <4>1, <4>2, <4>3
    <3> QED
      BY <3>1, <3>5, <3>6 DEF IsLineage, Last
  <2> QED
    BY <2>2, <2>4, <2>5
<1>4. Rooted'
  BY <1>3 DEF Rooted
<1>5. OnePlace' /\ DownAndUp' /\ HeardOnce'
  BY <1>1 DEF DispatchInv, OnePlace, At, Count, DownAndUp, HeardOnce
<1>6. RestIsEnd'
  BY <1>1 DEF DispatchInv, RestIsEnd, At, Count, Under
<1>7. NotAgain'
  BY <1>1 DEF DispatchInv, NotAgain, At, Count
<1>8. DueIsMet' /\ InOrder'
  BY <1>1 DEF DispatchInv, DueIsMet, InOrder, Passed, Coming, At, Count
<1> QED
  BY <1>2, <1>4, <1>5, <1>6, <1>7, <1>8 DEF DispatchInv

LEMMA AddListenerStep ==
  ASSUME DispatchInv, NEW n \in UiNodeIds, AddListenerTo(n)
  PROVE  DispatchInv'
<1>1. PICK l \in DListener :
        /\ \A m \in UiNodeIds : \A i \in DOMAIN listeners[m] : listeners[m][i].id # l.id
        /\ listeners' = [listeners EXCEPT ![n] = <<l>> \o @]
        /\ UNCHANGED <<parent, visits, rest, heard, due>>
  <2> DEFINE L(id, capture) == [id |-> id, capture |-> capture]
  <2>1. PICK id \in ListenerIds, capture \in BOOLEAN :
          /\ \A m \in UiNodeIds : \A i \in DOMAIN listeners[m] : listeners[m][i].id # id
          /\ listeners' = [listeners EXCEPT ![n] = <<L(id, capture)>> \o @]
          /\ rest' = RestAfterAdd(n, L(id, capture))
          /\ UNCHANGED <<parent, visits, heard, due>>
    BY Zenon DEF AddListenerTo
  <2>2. L(id, capture) \in DListener /\ L(id, capture).id = id
    BY DEF DListener
  <2>3. rest' = rest
    BY <2>1 DEF RestAfterAdd
  <2> QED
    BY <2>1, <2>2, <2>3
<1>2. /\ listeners \in [UiNodeIds -> Seq(DListener)]
      /\ visits \in Seq(VisitRecord) /\ due \subseteq Call
  BY DEF DispatchInv, DispatchTypes
<1>3. \A m \in UiNodeIds : listeners[m] \in Seq(DListener) /\ Count(m) \in Nat
  BY <1>2 DEF Count
<1>4. /\ listeners'[n] \in Seq(DListener) /\ Count(n)' = Count(n) + 1
      /\ FromEnd(listeners'[n], Count(n) + 1) = l
      /\ \A e \in 1 .. Count(n) : At(n, e)' = At(n, e)
  <2>1. PICK s \in Seq(DListener) : s = listeners[n]
    BY <1>3
  <2>2. listeners'[n] = <<l>> \o s
    BY <1>1, <1>2, <2>1
  <2>3. /\ <<l>> \o s \in Seq(DListener) /\ Len(<<l>> \o s) = Len(s) + 1
        /\ FromEnd(<<l>> \o s, Len(s) + 1) = l
        /\ \A e \in 1 .. Len(s) : FromEnd(<<l>> \o s, e) = FromEnd(s, e)
    BY ConsFromEnd
  <2>4. /\ Count(n) = Len(s) /\ Count(n)' = Len(<<l>> \o s)
        /\ \A e : At(n, e) = FromEnd(s, e) /\ At(n, e)' = FromEnd(<<l>> \o s, e)
    BY <2>1, <2>2 DEF Count, At
  <2> QED
    BY <2>2, <2>3, <2>4
<1>5. \A m \in UiNodeIds : m # n =>
        Count(m)' = Count(m) /\ \A e \in 1 .. Count(m) : At(m, e)' = At(m, e)
  BY <1>1, <1>2 DEF Count, At
\* What was in a list is still at its place, and what was not is l.
<1>6. ASSUME NEW m \in UiNodeIds
      PROVE  /\ Count(m)' \in Nat /\ Count(m) <= Count(m)'
             /\ \A e \in 1 .. Count(m) : e \in 1 .. Count(m)' /\ At(m, e)' = At(m, e)
             /\ \A e \in 1 .. Count(m)' :
                  e \in 1 .. Count(m) \/ (m = n /\ e = Count(n) + 1 /\ At(m, e)' = l)
  <2>1. CASE m = n
    <3>1. PICK k \in Nat : k = Count(n)
      BY <1>3
    <3>2. \A e \in 1 .. k + 1 : e \in 1 .. k \/ e = k + 1
      OBVIOUS
    <3>3. Count(m)' = k + 1 /\ \A e \in 1 .. k : At(m, e)' = At(m, e)
      BY <1>4, <2>1, <3>1
    <3>4. \A e : e = k + 1 => At(m, e)' = l
      BY <1>4, <2>1, <3>1 DEF At
    <3> QED
      BY <2>1, <3>1, <3>2, <3>3, <3>4
  <2>2. CASE m # n
    <3>1. Count(m)' = Count(m) /\ \A e \in 1 .. Count(m) : At(m, e)' = At(m, e)
      BY <1>5, <2>2
    <3> QED
      BY <1>3, <3>1
  <2> QED
    BY <2>1, <2>2
<1>7. \A m \in UiNodeIds : \A e \in 1 .. Count(m) : At(m, e).id # l.id
  <2> SUFFICES ASSUME NEW m \in UiNodeIds, NEW e \in 1 .. Count(m) PROVE At(m, e).id # l.id
    OBVIOUS
  <2>1. Len(listeners[m]) + 1 - e \in DOMAIN listeners[m]
    BY <1>3 DEF Count
  <2> QED
    BY <1>1, <2>1 DEF At, FromEnd
<1>8. \A e \in 1 .. Len(visits) : FromEnd(visits, e).node \in UiNodeIds
  <2>1. \A e \in 1 .. Len(visits) : FromEnd(visits, e) \in VisitRecord
    BY <1>2, FromEndType
  <2> QED
    BY <2>1 DEF VisitRecord
<1>9. \A k \in 1 .. Len(visits) : visits[k].node \in UiNodeIds
  <2>1. \A k \in 1 .. Len(visits) : visits[k] \in VisitRecord
    BY <1>2, ElementOfSeq
  <2> QED
    BY <2>1 DEF VisitRecord
<1>10. DispatchTypes'
  <2>1. listeners' \in [UiNodeIds -> Seq(DListener)]
    BY <1>1, <1>2, <1>4
  <2> QED
    BY <1>1, <2>1 DEF DispatchInv, DispatchTypes
<1>11. Rooted' /\ DownAndUp' /\ HeardOnce'
  BY <1>1 DEF DispatchInv, Rooted, IsLineage, DownAndUp, HeardOnce
<1>12. OnePlace'
  <2> SUFFICES ASSUME NEW m \in UiNodeIds, NEW k \in UiNodeIds,
                      NEW d \in 1 .. Count(m)', NEW e \in 1 .. Count(k)',
                      At(m, d)'.id = At(k, e)'.id
               PROVE  m = k /\ d = e
    BY DEF OnePlace
  <2>1. CASE d \in 1 .. Count(m) /\ e \in 1 .. Count(k)
    BY <1>6, <2>1 DEF DispatchInv, OnePlace
  <2>2. CASE d \notin 1 .. Count(m) /\ e \in 1 .. Count(k)
    BY <1>6, <1>7, <2>2
  <2>3. CASE d \in 1 .. Count(m) /\ e \notin 1 .. Count(k)
    BY <1>6, <1>7, <2>3
  <2>4. CASE d \notin 1 .. Count(m) /\ e \notin 1 .. Count(k)
    BY <1>6, <2>4
  <2> QED
    BY <2>1, <2>2, <2>3, <2>4
<1>13. RestIsEnd'
  <2>1. CASE Under
    <3>1. PICK m \in UiNodeIds : m = visits[1].node
      BY <1>2, <1>9, <2>1 DEF Under
    <3>2. Len(rest) <= Count(m) /\ \A e \in 1 .. Len(rest) : FromEnd(rest, e) = At(m, e)
      BY <2>1, <3>1 DEF DispatchInv, RestIsEnd
    <3>3. Len(rest) \in Nat
      BY DEF DispatchInv, DispatchTypes
    <3>4. Len(rest) <= Count(m)' /\ \A e \in 1 .. Len(rest) : FromEnd(rest, e) = At(m, e)'
      BY <1>3, <1>6, <3>2, <3>3
    <3> QED
      BY <1>1, <2>1, <3>1, <3>4 DEF RestIsEnd, Under
  <2>2. CASE ~Under
    BY <1>1, <2>2 DEF DispatchInv, RestIsEnd, Under
  <2> QED
    BY <2>1, <2>2
<1>14. NotAgain'
  <2> SUFFICES ASSUME NEW a \in 1 .. Len(heard')
               PROVE  (/\ \E m \in UiNodeIds : \E e \in 1 .. Count(m) : At(m, e).id = heard[a]
                       /\ \A k \in 1 .. Len(visits) : \A e \in 1 .. Count(visits[k].node) :
                            At(visits[k].node, e).id = heard[a]
                            /\ Hears(At(visits[k].node, e), visits[k].phase)
                              => k = 1 /\ e > Len(rest))'
    BY DEF NotAgain
  <2>a. a \in 1 .. Len(heard) /\ heard' = heard /\ visits' = visits /\ rest' = rest
    BY <1>1
  <2>0. PICK m \in UiNodeIds : \E e \in 1 .. Count(m) : At(m, e).id = heard[a]
    BY <2>a DEF DispatchInv, NotAgain
  <2>1. PICK e \in 1 .. Count(m) : At(m, e).id = heard[a]
    BY <2>0
  <2>2. heard[a] # l.id
    BY <1>7, <2>1
  <2>3. ASSUME NEW k \in 1 .. Len(visits'), NEW d \in 1 .. Count(visits[k].node)',
               (At(visits[k].node, d).id = heard[a])',
               Hears(At(visits[k].node, d), visits[k].phase)'
        PROVE  k = 1 /\ d > Len(rest')
    <3>1. PICK o \in UiNodeIds : o = visits[k].node
      BY <1>9, <2>a
    <3>2. d \in 1 .. Count(o)' /\ At(o, d)'.id = heard[a] /\ Hears(At(o, d)', visits[k].phase)
      BY <2>a, <2>3, <3>1 DEF At, Count
    <3>3. d \in 1 .. Count(o) /\ At(o, d)' = At(o, d)
      BY <1>6, <2>2, <3>2
    <3> QED
      BY <2>a, <2>3, <3>1, <3>2, <3>3 DEF DispatchInv, NotAgain
  <2>4. e \in 1 .. Count(m)' /\ At(m, e)'.id = heard[a]
    BY <1>6, <2>1
  <2>5. (\E o \in UiNodeIds : \E d \in 1 .. Count(o) : At(o, d).id = heard[a])'
    BY <2>a, <2>4
  <2>6. (\A k \in 1 .. Len(visits) : \A d \in 1 .. Count(visits[k].node) :
           At(visits[k].node, d).id = heard[a] /\ Hears(At(visits[k].node, d), visits[k].phase)
             => k = 1 /\ d > Len(rest))'
    BY <2>3
  <2> QED
    BY <2>5, <2>6
<1>15. DueIsMet' /\ InOrder'
  <2>1. \A c \in due : Passed(c)' <=> Passed(c)
    BY <1>1 DEF Passed
  <2>2. ASSUME NEW c \in due, ~Passed(c) PROVE Coming(c)'
    <3>1. /\ Len(visits) \in Nat /\ Len(rest) \in Nat
          /\ c.visits \in Nat /\ c.visits > 0 /\ c.rest \in Nat /\ c.rest > 0
      BY <1>2 DEF Call, DispatchInv, DispatchTypes
    <3>2. c.visits \in 1 .. Len(visits) /\ Coming(c)
      BY <2>2, <3>1 DEF Passed, DispatchInv, DueIsMet
    <3>3. PICK o \in UiNodeIds : o = FromEnd(visits, c.visits).node
      BY <1>8, <3>2
    <3>4. c.rest \in 1 .. Count(o) /\ At(o, c.rest).id = c.id
          /\ Hears(At(o, c.rest), FromEnd(visits, c.visits).phase)
      BY <1>3, <3>1, <3>2, <3>3 DEF Coming
    <3>5. Count(o) <= Count(o)' /\ Count(o)' \in Nat /\ At(o, c.rest)' = At(o, c.rest)
      BY <1>6, <3>4
    <3>6. c.rest <= Count(o)'
      BY <1>3, <3>4, <3>5
    <3> QED
      BY <1>1, <3>3, <3>4, <3>5, <3>6 DEF Coming, Hears
  <2> QED
    BY <1>1, <2>1, <2>2 DEF DispatchInv, DueIsMet, InOrder
<1> QED
  BY <1>10, <1>11, <1>12, <1>13, <1>14, <1>15 DEF DispatchInv

(* The journey of an event visits the target once, and each of its ancestors  *)
(* on the way down and on the way up.                                         *)
LEMMA JourneyShape ==
  ASSUME DispatchTypes, Rooted, NEW target \in UiNodeIds
  PROVE  /\ Journey(target) \in Seq(VisitRecord) /\ Journey(target) # << >>
         /\ \A i, j \in 1 .. Len(Journey(target)) :
              i < j /\ Journey(target)[i].node = Journey(target)[j].node =>
                Journey(target)[i].phase = "capture" /\ Journey(target)[j].phase = "bubble"
<1> DEFINE c == Lineage(target)
<1>1. /\ c \in Seq(UiNodeIds) /\ c # << >> /\ c[1] = target
      /\ \A i, j \in 1 .. Len(c) : c[i] = c[j] => i = j
  BY LineageIsFound DEF IsLineage
<1> HIDE DEF c
<1> DEFINE chain == Tail(c)
           m == Len(chain)
           down == InPhase(Reverse(chain), "capture")
           up == InPhase(chain, "bubble")
           here == <<Visit(target, "target")>>
<1>2. /\ chain \in Seq(UiNodeIds) /\ m \in Nat /\ Len(c) = m + 1
      /\ \A i \in 1 .. m : chain[i] = c[i + 1] /\ chain[i] \in UiNodeIds
  BY <1>1
<1>3. /\ \A i, j \in 1 .. m : chain[i] = chain[j] => i = j
      /\ \A i \in 1 .. m : chain[i] # target
  BY <1>1, <1>2
<1>4. Journey(target) = down \o here \o up
  BY DEF Journey, c
<1> HIDE DEF chain
<1>5. /\ Reverse(chain) = [i \in 1 .. m |-> chain[(m - i) + 1]]
      /\ DOMAIN chain = 1 .. m
  BY <1>2 DEF Reverse
<1>6. /\ down = [i \in 1 .. m |-> Visit(chain[(m - i) + 1], "capture")]
      /\ up = [i \in 1 .. m |-> Visit(chain[i], "bubble")]
  BY <1>5 DEF InPhase
<1>7. \A x \in UiNodeIds : \A ph \in {"capture", "target", "bubble"} :
        Visit(x, ph) \in VisitRecord /\ Visit(x, ph).node = x /\ Visit(x, ph).phase = ph
  BY DEF Visit, VisitRecord
<1>8. down \in Seq(VisitRecord) /\ up \in Seq(VisitRecord) /\ here \in Seq(VisitRecord)
      /\ Len(down) = m /\ Len(up) = m /\ Len(here) = 1
  <2>1. \A i \in 1 .. m : (m - i) + 1 \in 1 .. m
    BY <1>2
  <2>2. \A i \in 1 .. m : /\ Visit(chain[(m - i) + 1], "capture") \in VisitRecord
                          /\ Visit(chain[i], "bubble") \in VisitRecord
    BY <1>2, <1>7, <2>1
  <2>3. down \in [1 .. m -> VisitRecord] /\ up \in [1 .. m -> VisitRecord]
    BY <1>6, <2>2
  <2>4. here \in Seq(VisitRecord) /\ Len(here) = 1
    <3>1. Visit(target, "target") \in VisitRecord
      BY <1>7
    <3> QED
      BY <3>1
  <2> HIDE DEF down, up, here, m
  <2>5. \A f : f \in [1 .. m -> VisitRecord] => f \in Seq(VisitRecord) /\ Len(f) = m
    BY <1>2
  <2> QED
    BY <2>3, <2>4, <2>5
<1>9. /\ Journey(target) \in Seq(VisitRecord) /\ Len(Journey(target)) = m + 1 + m
      /\ \A i \in 1 .. m : Journey(target)[i] = down[i]
      /\ Journey(target)[m + 1] = here[1]
      /\ \A i \in m + 2 .. m + 1 + m : Journey(target)[i] = up[i - (m + 1)]
  <2> DEFINE half == down \o here
  <2> HIDE DEF down, up, here, m
  <2>1. /\ half \in Seq(VisitRecord) /\ Len(half) = m + 1
        /\ \A i \in 1 .. m : half[i] = down[i]
        /\ half[m + 1] = here[1]
    <3>1. /\ half \in Seq(VisitRecord) /\ Len(half) = Len(down) + Len(here)
          /\ \A i \in 1 .. Len(down) : half[i] = down[i]
          /\ \A i \in Len(down) + 1 .. Len(down) + Len(here) : half[i] = here[i - Len(down)]
      BY <1>8, Concatenation
    <3>2. m + 1 \in m + 1 .. m + 1 /\ (m + 1) - m = 1
      BY <1>2
    <3> HIDE DEF half
    <3> QED
      BY <1>2, <1>8, <3>1, <3>2
  <2> HIDE DEF half
  <2>2. /\ half \o up \in Seq(VisitRecord) /\ Len(half \o up) = m + 1 + m
        /\ \A i \in 1 .. m + 1 : (half \o up)[i] = half[i]
        /\ \A i \in m + 2 .. m + 1 + m : (half \o up)[i] = up[i - (m + 1)]
    <3>1. /\ half \o up \in Seq(VisitRecord) /\ Len(half \o up) = Len(half) + Len(up)
          /\ \A i \in 1 .. Len(half) : (half \o up)[i] = half[i]
          /\ \A i \in Len(half) + 1 .. Len(half) + Len(up) : (half \o up)[i] = up[i - Len(half)]
      BY <1>8, <2>1, Concatenation
    <3>2. (m + 1) + 1 = m + 2
      BY <1>2
    <3> QED
      BY <1>2, <1>8, <2>1, <3>1, <3>2
  <2>3. Journey(target) = half \o up
    BY <1>4 DEF half
  <2> QED
    BY <1>2, <2>1, <2>2, <2>3
<1>10. /\ \A i \in 1 .. m : /\ Journey(target)[i].node = chain[(m - i) + 1]
                             /\ Journey(target)[i].phase = "capture"
                             /\ (m - i) + 1 \in 1 .. m
       /\ Journey(target)[m + 1].node = target
       /\ \A i \in m + 2 .. m + 1 + m : /\ Journey(target)[i].node = chain[i - (m + 1)]
                                         /\ Journey(target)[i].phase = "bubble"
                                         /\ i - (m + 1) \in 1 .. m
  <2>1. \A i \in 1 .. m : (m - i) + 1 \in 1 .. m
    BY <1>2
  <2>2. \A i \in m + 2 .. m + 1 + m : i - (m + 1) \in 1 .. m
    BY <1>2
  <2>3. here[1] = Visit(target, "target")
    OBVIOUS
  <2>4. /\ \A i \in 1 .. m : Journey(target)[i] = Visit(chain[(m - i) + 1], "capture")
        /\ \A i \in m + 2 .. m + 1 + m : Journey(target)[i] = Visit(chain[i - (m + 1)], "bubble")
    BY <1>6, <1>9, <2>2
  <2>5. /\ \A i \in 1 .. m : chain[(m - i) + 1] \in UiNodeIds
        /\ \A i \in m + 2 .. m + 1 + m : chain[i - (m + 1)] \in UiNodeIds
    BY <1>2, <2>1, <2>2
  <2> QED
    BY <1>7, <1>9, <2>1, <2>2, <2>3, <2>4, <2>5
<1> HIDE DEF m
<1>11. ASSUME NEW i \in 1 .. m + 1 + m, NEW j \in 1 .. m + 1 + m, i < j,
              Journey(target)[i].node = Journey(target)[j].node
       PROVE  Journey(target)[i].phase = "capture" /\ Journey(target)[j].phase = "bubble"
  <2>1. CASE i <= m /\ j <= m
    <3>1. chain[(m - i) + 1] = chain[(m - j) + 1]
      BY <1>10, <1>11, <2>1
    <3>2. (m - i) + 1 = (m - j) + 1
      BY <1>3, <1>10, <2>1, <3>1
    <3> QED
      BY <1>2, <1>11, <3>2
  <2>2. CASE i <= m /\ j = m + 1
    <3>1. chain[(m - i) + 1] = target
      BY <1>10, <1>11, <2>2
    <3> QED
      BY <1>3, <1>10, <2>2, <3>1
  <2>3. CASE i <= m /\ j > m + 1
    BY <1>2, <1>10, <2>3
  <2>4. CASE i = m + 1 /\ j > m + 1
    <3>1. j \in m + 2 .. m + 1 + m
      BY <1>2, <2>4
    <3>2. chain[j - (m + 1)] = target
      BY <1>10, <1>11, <2>4, <3>1
    <3> QED
      BY <1>3, <1>10, <3>1, <3>2
  <2>5. CASE i > m + 1 /\ j > m + 1
    <3>1. i \in m + 2 .. m + 1 + m /\ j \in m + 2 .. m + 1 + m
      BY <1>2, <2>5
    <3>2. chain[i - (m + 1)] = chain[j - (m + 1)]
      BY <1>10, <1>11, <3>1
    <3>3. i - (m + 1) = j - (m + 1)
      BY <1>3, <1>10, <3>1, <3>2
    <3> QED
      BY <1>2, <1>11, <3>3
  <2> QED
    BY <1>2, <1>11, <2>1, <2>2, <2>3, <2>4, <2>5
<1> QED
  BY <1>2, <1>9, <1>11

LEMMA BeginStep ==
  ASSUME DispatchInv, NEW target \in UiNodeIds, BeginDispatch(target)
  PROVE  DispatchInv'
<1>1. /\ visits' = Journey(target) /\ rest' = listeners[Head(visits').node]
      /\ heard' = << >> /\ due' = CallsOf(visits') /\ parent' = parent /\ listeners' = listeners
  BY DEF BeginDispatch
<1>2. /\ visits' \in Seq(VisitRecord) /\ visits' # << >>
      /\ \A i, j \in 1 .. Len(visits') : i < j /\ visits'[i].node = visits'[j].node =>
           visits'[i].phase = "capture" /\ visits'[j].phase = "bubble"
  BY <1>1, JourneyShape DEF DispatchInv
<1>3. \A k \in 1 .. Len(visits') : visits'[k].node \in UiNodeIds
  <2>1. \A k \in 1 .. Len(visits') : visits'[k] \in VisitRecord
    BY <1>2, ElementOfSeq
  <2> QED
    BY <2>1 DEF VisitRecord
<1>4. \A m \in UiNodeIds : listeners[m] \in Seq(DListener) /\ Len(listeners[m]) \in Nat
  BY DEF DispatchInv, DispatchTypes
<1>5. Len(visits') \in Nat /\ Len(visits') > 0 /\ Head(visits') = visits'[1]
  BY <1>2
<1>6. rest' \in Seq(DListener) /\ rest' = listeners[visits'[1].node]
  BY <1>1, <1>3, <1>4, <1>5
\* Each call that is due is that of a listener at a place in a list that is visited.
<1>7. ASSUME NEW c \in due'
      PROVE  \E k \in 1 .. Len(visits') : \E i \in 1 .. Len(listeners[visits'[k].node]) :
               /\ c = [visits |-> Len(visits') + 1 - k,
                       rest |-> Len(listeners[visits'[k].node]) + 1 - i,
                       id |-> listeners[visits'[k].node][i].id]
               /\ Hears(listeners[visits'[k].node][i], visits'[k].phase)
  <2>1. PICK k \in DOMAIN visits' :
          c \in {[visits |-> Len(visits') + 1 - k,
                  rest |-> Len(listeners[visits'[k].node]) + 1 - i,
                  id |-> listeners[visits'[k].node][i].id] :
                   i \in {j \in DOMAIN listeners[visits'[k].node] :
                           Hears(listeners[visits'[k].node][j], visits'[k].phase)}}
    BY <1>1 DEF CallsOf
  <2>2. k \in 1 .. Len(visits')
    BY <1>2
  <2>3. DOMAIN listeners[visits'[k].node] = 1 .. Len(listeners[visits'[k].node])
    BY <1>3, <1>4, <2>2
  <2> QED
    BY <2>1, <2>2, <2>3
<1>8. ASSUME NEW c \in due' PROVE c \in Call /\ ~Passed(c)' /\ Coming(c)'
  <2>1. PICK k \in 1 .. Len(visits') : \E i \in 1 .. Len(listeners[visits'[k].node]) :
          /\ c = [visits |-> Len(visits') + 1 - k,
                  rest |-> Len(listeners[visits'[k].node]) + 1 - i,
                  id |-> listeners[visits'[k].node][i].id]
          /\ Hears(listeners[visits'[k].node][i], visits'[k].phase)
    BY <1>7
  <2>2. PICK l \in Seq(DListener) : l = listeners[visits'[k].node]
    BY <1>3, <1>4
  <2>3. PICK i \in 1 .. Len(l) :
          /\ c = [visits |-> Len(visits') + 1 - k, rest |-> Len(l) + 1 - i, id |-> l[i].id]
          /\ Hears(l[i], visits'[k].phase)
    BY <2>1, <2>2
  <2>4. /\ c.visits = Len(visits') + 1 - k /\ c.rest = Len(l) + 1 - i /\ c.id = l[i].id
        /\ c.visits \in Nat \ {0} /\ c.rest \in Nat \ {0} /\ Len(l) \in Nat
    BY <1>5, <2>3
  <2>5. c \in Call
    <3>1. l[i] \in DListener
      BY ElementOfSeq
    <3>2. l[i].id \in ListenerIds
      BY <3>1 DEF DListener
    <3> QED
      BY <2>3, <2>4, <3>2 DEF Call
  <2>6. ~Passed(c)'
    <3>1. k = 1 => Len(rest') = Len(l)
      BY <1>6, <2>2
    <3> QED
      BY <1>5, <2>4, <3>1 DEF Passed
  <2>7. Len(visits') + 1 - c.visits = k /\ Len(l) + 1 - c.rest = i
    BY <1>5, <2>4
  <2>8. FromEnd(visits, c.visits)' = visits'[k] /\ At(visits[k].node, c.rest)' = l[i]
        /\ Count(visits[k].node)' = Len(l)
    BY <1>1, <2>2, <2>7 DEF FromEnd, At, Count
  <2>9. Coming(c)'
    <3>1. (c.rest <= Count(visits[k].node))' /\ (At(visits[k].node, c.rest).id = c.id)'
          /\ Hears(At(visits[k].node, c.rest), visits[k].phase)'
      BY <2>3, <2>4, <2>8
    <3> QED
      BY <2>8, <3>1 DEF Coming
  <2> QED
    BY <2>5, <2>6, <2>9
<1>9. DispatchTypes'
  <2>1. << >> \in Seq(ListenerIds)
    OBVIOUS
  <2> QED
    BY <1>1, <1>2, <1>6, <1>8, <2>1 DEF DispatchInv, DispatchTypes
<1>10. Rooted' /\ OnePlace'
  <2>1. Rooted'
    BY <1>1 DEF DispatchInv, Rooted, IsLineage
  <2>2. OnePlace'
    BY <1>1 DEF DispatchInv, OnePlace, At, Count
  <2> QED
    BY <2>1, <2>2
<1>11. DownAndUp'
  BY <1>2 DEF DownAndUp
<1>12. HeardOnce' /\ NotAgain' /\ InOrder'
  BY <1>1 DEF HeardOnce, NotAgain, InOrder
<1>13. RestIsEnd'
  <2>1. Count(visits[1].node)' = Len(rest') /\ Len(rest') \in Nat
    BY <1>1, <1>6 DEF Count
  <2>2. \A e : FromEnd(rest, e)' = At(visits[1].node, e)'
    BY <1>1, <1>6 DEF At, FromEnd
  <2> QED
    BY <1>2, <2>1, <2>2 DEF RestIsEnd, Under
<1> QED
  BY <1>8, <1>9, <1>10, <1>11, <1>12, <1>13 DEF DispatchInv, DueIsMet

LEMMA ListenerStep ==
  ASSUME DispatchInv, CallListener
  PROVE  DispatchInv'
<1> DEFINE r == Len(rest)
           x == Head(rest)
<1>1. /\ Under /\ rest # << >> /\ rest' = Tail(rest)
      /\ UNCHANGED <<parent, listeners, visits, due>>
      /\ heard' = IF Hears(x, visits[1].phase) THEN Append(heard, x.id) ELSE heard
  BY DEF CallListener
<1>2. /\ listeners \in [UiNodeIds -> Seq(DListener)]
     /\ visits \in Seq(VisitRecord) /\ due \subseteq Call
      /\ rest \in Seq(DListener) /\ heard \in Seq(ListenerIds)
  BY DEF DispatchInv, DispatchTypes
<1>3. /\ r \in Nat /\ r > 0 /\ rest' \in Seq(DListener) /\ Len(rest') = r - 1
      /\ x = FromEnd(rest, r) /\ x \in DListener /\ x.id \in ListenerIds /\ x.capture \in BOOLEAN
      /\ \A e \in 1 .. r - 1 : FromEnd(rest', e) = FromEnd(rest, e)
  <2>1. x \in DListener => x.id \in ListenerIds /\ x.capture \in BOOLEAN
    BY DEF DListener
  <2> QED
    BY <1>1, <1>2, <2>1, TailFromEnd
<1>4. \A k \in 1 .. Len(visits) : visits[k].node \in UiNodeIds
  <2>1. \A k \in 1 .. Len(visits) : visits[k] \in VisitRecord
    BY <1>2, ElementOfSeq
  <2> QED
    BY <2>1 DEF VisitRecord
<1>5. Len(visits) \in Nat /\ Len(visits) > 0
  BY <1>1, <1>2 DEF Under
<1>6. PICK v \in UiNodeIds : v = visits[1].node
  BY <1>4, <1>5
<1>7. \A m \in UiNodeIds : Count(m) \in Nat
  BY <1>2 DEF Count
\* The listener is the one its list has at r from the end.
<1>8. r \in 1 .. Count(v) /\ r <= Count(v) /\ At(v, r) = x
      /\ \A e \in 1 .. r : FromEnd(rest, e) = At(v, e)
  <2>1. r <= Count(v) /\ \A e \in 1 .. r : FromEnd(rest, e) = At(v, e)
    BY <1>1, <1>6 DEF DispatchInv, RestIsEnd
  <2> QED
    BY <1>3, <1>7, <2>1
<1>9. /\ \A m : Count(m)' = Count(m) /\ \A e : At(m, e)' = At(m, e)
      /\ \A e : FromEnd(visits, e)' = FromEnd(visits, e)
  BY <1>1 DEF Count, At, FromEnd
<1> HIDE DEF r, x
<1>10. DispatchTypes'
  <2>1. heard' \in Seq(ListenerIds)
    BY <1>1, <1>2, <1>3
  <2> QED
    BY <1>1, <1>2, <1>3, <2>1 DEF DispatchInv, DispatchTypes
<1>11. Rooted' /\ DownAndUp'
  BY <1>1 DEF DispatchInv, Rooted, IsLineage, DownAndUp
<1>12. OnePlace'
  BY <1>9 DEF DispatchInv, OnePlace
<1>13. RestIsEnd'
  <2>1. Len(rest') <= Count(v) /\ \A e \in 1 .. Len(rest') : FromEnd(rest', e) = At(v, e)
    BY <1>3, <1>7, <1>8
  <2>2. FromEnd(rest, 0)' = FromEnd(rest', 0) /\ \A e : FromEnd(rest, e)' = FromEnd(rest', e)
    OBVIOUS
  <2>3. visits' = visits /\ Under'
    BY <1>1 DEF Under
  <2> QED
    BY <1>6, <1>9, <2>1, <2>2, <2>3 DEF RestIsEnd
\* The listener has not been called yet, and if it is called now, not again.
<1>14. ASSUME Hears(x, visits[1].phase)
       PROVE  /\ \A a \in 1 .. Len(heard) : heard[a] # x.id
              /\ \A k \in 1 .. Len(visits) : \A e \in 1 .. Count(visits[k].node) :
                   At(visits[k].node, e).id = x.id /\ Hears(At(visits[k].node, e), visits[k].phase)
                     => k = 1 /\ e = r
  <2>1. ASSUME NEW a \in 1 .. Len(heard), heard[a] = x.id PROVE FALSE
    <3>1. 1 \in 1 .. Len(visits) /\ r \in 1 .. Count(visits[1].node)
          /\ At(visits[1].node, r).id = heard[a] /\ Hears(At(visits[1].node, r), visits[1].phase)
      BY <1>5, <1>6, <1>8, <1>14, <2>1
    <3>2. r > Len(rest)
      BY <3>1 DEF DispatchInv, NotAgain
    <3> QED
      BY <1>3, <3>2 DEF r
  <2>2. ASSUME NEW k \in 1 .. Len(visits), NEW e \in 1 .. Count(visits[k].node),
               At(visits[k].node, e).id = x.id, Hears(At(visits[k].node, e), visits[k].phase)
        PROVE  k = 1 /\ e = r
    <3>1. visits[k].node = v /\ e = r
      BY <1>4, <1>8, <2>2 DEF DispatchInv, OnePlace
    <3>2. CASE k # 1
      <4>1. visits[1].phase = "capture" /\ visits[k].phase = "bubble"
        BY <1>5, <1>6, <3>1, <3>2 DEF DispatchInv, DownAndUp
      <4>2. Hears(x, "capture") /\ Hears(x, "bubble")
        BY <1>8, <1>14, <2>2, <3>1, <4>1
      <4> QED
        BY <1>3, <4>2 DEF Hears
    <3> QED
      BY <3>1, <3>2
  <2> QED
    BY <2>1, <2>2
<1>15. /\ Len(heard) \in Nat
       /\ Hears(x, visits[1].phase) =>
            /\ Len(heard') = Len(heard) + 1 /\ heard'[Len(heard) + 1] = x.id
            /\ \A a \in 1 .. Len(heard) : heard'[a] = heard[a]
       /\ ~Hears(x, visits[1].phase) => heard' = heard
  BY <1>1, <1>2, <1>3
<1>16. HeardOnce'
  <2>1. CASE Hears(x, visits[1].phase)
    <3> SUFFICES ASSUME NEW i \in 1 .. Len(heard) + 1, NEW j \in 1 .. Len(heard) + 1,
                        heard'[i] = heard'[j]
                 PROVE  i = j
      BY <1>15, <2>1 DEF HeardOnce
    <3>1. CASE i \in 1 .. Len(heard) /\ j \in 1 .. Len(heard)
      BY <1>15, <2>1, <3>1 DEF DispatchInv, HeardOnce
    <3>2. CASE ~(i \in 1 .. Len(heard) /\ j \in 1 .. Len(heard))
      BY <1>14, <1>15, <2>1, <3>2
    <3> QED
      BY <3>1, <3>2
  <2>2. CASE ~Hears(x, visits[1].phase)
    BY <1>15, <2>2 DEF DispatchInv, HeardOnce
  <2> QED
    BY <2>1, <2>2
<1>17. NotAgain'
  <2>0. /\ Len(rest) = r /\ visits' = visits
    BY <1>1 DEF r
  <2>1. ASSUME NEW a \in 1 .. Len(heard), heard'[a] = heard[a]
        PROVE  /\ \E m \in UiNodeIds : \E e \in 1 .. Count(m) : At(m, e).id = heard'[a]
               /\ \A k \in 1 .. Len(visits) : \A e \in 1 .. Count(visits[k].node) :
                    At(visits[k].node, e).id = heard'[a]
                    /\ Hears(At(visits[k].node, e), visits[k].phase)
                      => k = 1 /\ e > Len(rest')
    <3>1. /\ \E m \in UiNodeIds : \E e \in 1 .. Count(m) : At(m, e).id = heard[a]
          /\ \A k \in 1 .. Len(visits) : \A e \in 1 .. Count(visits[k].node) :
               At(visits[k].node, e).id = heard[a] /\ Hears(At(visits[k].node, e), visits[k].phase)
                 => k = 1 /\ e > r
      BY <2>0 DEF DispatchInv, NotAgain
    <3>2. ASSUME NEW k \in 1 .. Len(visits), NEW e \in 1 .. Count(visits[k].node), e > r
          PROVE  e > Len(rest')
      BY <1>3, <1>4, <1>7, <3>2
    <3> QED
      BY <2>1, <3>1, <3>2
  <2>2. ASSUME Hears(x, visits[1].phase), NEW a, a = Len(heard) + 1
        PROVE  /\ \E m \in UiNodeIds : \E e \in 1 .. Count(m) : At(m, e).id = heard'[a]
               /\ \A k \in 1 .. Len(visits) : \A e \in 1 .. Count(visits[k].node) :
                    At(visits[k].node, e).id = heard'[a]
                    /\ Hears(At(visits[k].node, e), visits[k].phase)
                      => k = 1 /\ e > Len(rest')
    <3>1. heard'[a] = x.id /\ r > Len(rest')
      BY <1>3, <1>15, <2>2
    <3> QED
      BY <1>8, <1>14, <2>2, <3>1
  <2>3. \A a \in 1 .. Len(heard') :
          \/ a \in 1 .. Len(heard) /\ heard'[a] = heard[a]
          \/ Hears(x, visits[1].phase) /\ a = Len(heard) + 1
    BY <1>15
  <2>4. \A a \in 1 .. Len(heard') :
          /\ \E m \in UiNodeIds : \E e \in 1 .. Count(m) : At(m, e).id = heard'[a]
          /\ \A k \in 1 .. Len(visits) : \A e \in 1 .. Count(visits[k].node) :
               At(visits[k].node, e).id = heard'[a] /\ Hears(At(visits[k].node, e), visits[k].phase)
                 => k = 1 /\ e > Len(rest')
    BY <2>1, <2>2, <2>3
  <2>5. /\ \A k : Count(visits[k].node)' = Count(visits[k].node)
        /\ \A k, e : At(visits[k].node, e)' = At(visits[k].node, e)
        /\ \A k, e : Hears(At(visits[k].node, e), visits[k].phase)'
                    <=> Hears(At(visits[k].node, e), visits[k].phase)
    BY <1>1 DEF Count, At, FromEnd, Hears
  <2> QED
    BY <1>9, <2>0, <2>4, <2>5 DEF NotAgain
\* A call is behind after the step if it was before, or if it is this one.
<1>18. ASSUME NEW c \in due
       PROVE  /\ Passed(c) => Passed(c)' /\ \E a \in 1 .. Len(heard) : heard[a] = c.id
              /\ ~Passed(c)' => Coming(c)
              /\ Passed(c)' /\ ~Passed(c) => /\ Hears(x, visits[1].phase) /\ c.id = x.id
                                            /\ c.visits = Len(visits) /\ c.rest = r
  <2>1. c.visits \in Nat /\ c.rest \in Nat
    BY <1>2 DEF Call
  <2>2. Passed(c) <=> c.visits > Len(visits) \/ (c.visits = Len(visits) /\ c.rest > r)
    BY DEF Passed, r
  <2>3. Passed(c)' <=> c.visits > Len(visits) \/ (c.visits = Len(visits) /\ c.rest > r - 1)
    BY <1>1, <1>3 DEF Passed
  <2>4. Passed(c) => \E a \in 1 .. Len(heard) : heard[a] = c.id
    BY DEF DispatchInv, DueIsMet
  <2>5. ~Passed(c) => Coming(c)
    BY DEF DispatchInv, DueIsMet
  <2>6. Passed(c) => Passed(c)'
    BY <1>3, <2>1, <2>2, <2>3
  <2>7. ASSUME Passed(c)', ~Passed(c)
        PROVE  /\ Hears(x, visits[1].phase) /\ c.id = x.id
               /\ c.visits = Len(visits) /\ c.rest = r
    <3>1. c.visits = Len(visits) /\ c.rest = r
      BY <1>3, <1>5, <2>1, <2>2, <2>3, <2>7
    <3>2. FromEnd(visits, c.visits) = visits[1]
      BY <1>5, <3>1 DEF FromEnd
    <3> QED
      BY <1>6, <1>8, <2>5, <2>7, <3>1, <3>2 DEF Coming
  <2> QED
    BY <2>4, <2>5, <2>6, <2>7
<1>19. DueIsMet'
  <2> SUFFICES ASSUME NEW c \in due
               PROVE  IF Passed(c)' THEN \E a \in 1 .. Len(heard') : heard'[a] = c.id
                       ELSE Coming(c)'
    BY <1>1 DEF DueIsMet
  <2>1. CASE ~Passed(c)'
    <3>1. Coming(c)
      BY <1>18, <2>1
    <3>2. Coming(c)'
      BY <1>1, <3>1 DEF Coming, At, Count, FromEnd, Hears
    <3> QED
      BY <2>1, <3>2
  <2>2. CASE Passed(c)
    BY <1>15, <1>18, <2>2
  <2>3. CASE Passed(c)' /\ ~Passed(c)
    <3>1. Len(heard) + 1 \in 1 .. Len(heard') /\ heard'[Len(heard) + 1] = c.id
      BY <1>15, <1>18, <2>3
    <3> QED
      BY <2>3, <3>1
  <2> QED
    BY <2>1, <2>2, <2>3
<1>20. InOrder'
  <2> SUFFICES ASSUME NEW c \in due, NEW d \in due,
                      NEW a \in 1 .. Len(heard'), NEW b \in 1 .. Len(heard'),
                      Passed(c)', Passed(d)', Before(c, d), heard'[a] = c.id, heard'[b] = d.id
               PROVE  a < b
    BY <1>1 DEF InOrder, Before
  <2>1. /\ c.visits \in Nat /\ c.rest \in Nat /\ d.visits \in Nat /\ d.rest \in Nat
        /\ a \in Nat /\ b \in Nat
    BY <1>2 DEF Call
  <2>2. \A i \in 1 .. Len(heard') : \A j \in 1 .. Len(heard') : heard'[i] = heard'[j] => i = j
    BY <1>16 DEF HeardOnce
  \* Where the listener of a call that was behind before is in heard.
  <2>3. ASSUME NEW f \in due, Passed(f), NEW i \in 1 .. Len(heard'), heard'[i] = f.id
        PROVE  i \in 1 .. Len(heard) /\ heard[i] = f.id
    <3>1. PICK j \in 1 .. Len(heard) : heard[j] = f.id
      BY <1>18, <2>3
    <3>2. j \in 1 .. Len(heard') /\ heard'[j] = f.id
      BY <1>15, <3>1
    <3> QED
      BY <2>2, <2>3, <3>1, <3>2
  <2>4. CASE Passed(c) /\ Passed(d)
    BY <2>3, <2>4 DEF DispatchInv, InOrder
  <2>5. CASE Passed(c) /\ ~Passed(d)
    <3>1. a \in 1 .. Len(heard)
      BY <2>3, <2>5
    <3>2. Len(heard) + 1 \in 1 .. Len(heard') /\ heard'[Len(heard) + 1] = d.id
      BY <1>15, <1>18, <2>5
    <3>3. b = Len(heard) + 1
      BY <2>2, <3>2
    <3> QED
      BY <1>15, <3>1, <3>3
  <2>6. CASE ~Passed(c)
    <3>1. c.visits = Len(visits) /\ c.rest = r
      BY <1>18, <2>6
    <3>2. d.visits > Len(visits) \/ (d.visits = Len(visits) /\ d.rest > r - 1)
      BY <1>1, <1>3 DEF Passed
    <3> QED
      BY <1>3, <1>5, <2>1, <3>1, <3>2 DEF Before
  <2> QED
    BY <2>4, <2>5, <2>6
<1> QED
  BY <1>10, <1>11, <1>12, <1>13, <1>16, <1>17, <1>19, <1>20 DEF DispatchInv

LEMMA NextNodeStep ==
  ASSUME DispatchInv, NextNode
  PROVE  DispatchInv'
<1> DEFINE n == Len(visits)
<1>1. /\ visits # << >> /\ rest = << >> /\ visits' = Tail(visits)
      /\ rest' = IF visits' = << >> THEN << >> ELSE listeners[Head(visits').node]
      /\ UNCHANGED <<parent, listeners, heard, due>>
  BY DEF NextNode, Under
<1>2. /\ listeners \in [UiNodeIds -> Seq(DListener)]
     /\ visits \in Seq(VisitRecord) /\ due \subseteq Call
  BY DEF DispatchInv, DispatchTypes
<1>3. /\ n \in Nat /\ n > 0 /\ visits' \in Seq(VisitRecord) /\ Len(visits') = n - 1
      /\ \A e \in 1 .. n - 1 : FromEnd(visits', e) = FromEnd(visits, e)
      /\ \A k \in 1 .. n - 1 : visits'[k] = visits[k + 1]
  BY <1>1, <1>2, TailFromEnd
<1>4. \A k \in 1 .. n : visits[k].node \in UiNodeIds
  <2>1. \A k \in 1 .. n : visits[k] \in VisitRecord
    BY <1>2, ElementOfSeq
  <2> QED
    BY <2>1 DEF VisitRecord
<1>5. visits' # << >> => /\ n - 1 > 0 /\ Head(visits') = visits'[1]
                          /\ Head(visits') = FromEnd(visits, n - 1)
  <2>1. visits' # << >> => 
          Len(visits') > 0 /\ Head(visits') = visits'[1] /\ Head(visits') = FromEnd(visits', Len(visits'))
    BY <1>3, TailFromEnd
  <2> QED
    BY <1>3, <2>1
<1>6. /\ visits' # << >> => /\ visits'[1].node \in UiNodeIds /\ rest' = listeners[visits'[1].node]
                            /\ rest' \in Seq(DListener) /\ Len(rest') = Count(visits'[1].node)
      /\ visits' = << >> => rest' = << >>
  <2>1. ASSUME visits' # << >>
        PROVE visits'[1].node \in UiNodeIds /\ rest' = listeners[visits'[1].node]
    <3>1. 1 \in 1 .. n - 1 /\ 1 + 1 \in 1 .. n /\ visits'[1] = visits[1 + 1]
      BY <1>3, <1>5, <2>1
    <3> QED
      BY <1>1, <1>4, <1>5, <2>1, <3>1
  <2> QED
    BY <1>1, <1>2, <2>1 DEF Count
<1>7. \A m : Count(m)' = Count(m) /\ \A e : At(m, e)' = At(m, e)
  BY <1>1 DEF Count, At, FromEnd
<1> HIDE DEF n
<1>8. DispatchTypes'
  <2>1. rest' \in Seq(DListener)
    <3>1. << >> \in Seq(DListener)
      OBVIOUS
    <3> QED
      BY <1>6, <3>1
  <2> QED
    BY <1>1, <1>3, <2>1 DEF DispatchInv, DispatchTypes
<1>9. Rooted' /\ OnePlace' /\ HeardOnce'
  <2>1. Rooted' /\ HeardOnce'
    BY <1>1 DEF DispatchInv, Rooted, IsLineage, HeardOnce
  <2>2. OnePlace'
    BY <1>7 DEF DispatchInv, OnePlace
  <2> QED
    BY <2>1, <2>2
<1>10. DownAndUp'
  <2> SUFFICES ASSUME NEW i \in 1 .. n - 1, NEW j \in 1 .. n - 1,
                      i < j, visits'[i].node = visits'[j].node
               PROVE  visits'[i].phase = "capture" /\ visits'[j].phase = "bubble"
    BY <1>3 DEF DownAndUp
  <2>1. i + 1 \in 1 .. n /\ j + 1 \in 1 .. n /\ i + 1 < j + 1
        /\ visits'[i] = visits[i + 1] /\ visits'[j] = visits[j + 1]
    BY <1>3
  <2> QED
    BY <2>1 DEF DispatchInv, DownAndUp, n
<1>11. RestIsEnd'
  <2>1. CASE visits' # << >>
    <3>1. PICK m \in UiNodeIds : m = visits'[1].node
      BY <1>6, <2>1
    <3>2. Len(rest') = Count(m) /\ Len(rest') \in Nat
      BY <1>6, <2>1, <3>1
    <3>3. \A e : FromEnd(rest', e) = At(m, e)
      BY <1>6, <2>1, <3>1 DEF At
    <3>4. \A e : FromEnd(rest, e)' = FromEnd(rest', e)
      OBVIOUS
    <3> QED
      BY <1>7, <2>1, <3>1, <3>2, <3>3, <3>4 DEF RestIsEnd, Under
  <2>2. CASE visits' = << >>
    BY <1>6, <2>2 DEF RestIsEnd, Under
  <2> QED
    BY <2>1, <2>2
\* What was called is not called at a visit after the one that ends.
<1>12. NotAgain'
  <2> SUFFICES ASSUME NEW a \in 1 .. Len(heard)
               PROVE  (/\ \E m \in UiNodeIds : \E e \in 1 .. Count(m) : At(m, e).id = heard[a]
                       /\ \A k \in 1 .. Len(visits) : \A e \in 1 .. Count(visits[k].node) :
                            At(visits[k].node, e).id = heard[a]
                            /\ Hears(At(visits[k].node, e), visits[k].phase)
                              => k = 1 /\ e > Len(rest))'
    BY <1>1 DEF NotAgain
  <2>1. (\E m \in UiNodeIds : \E e \in 1 .. Count(m) : At(m, e).id = heard[a])'
    BY <1>1, <1>7 DEF DispatchInv, NotAgain
  <2>2. ASSUME NEW k \in 1 .. Len(visits'), NEW e \in 1 .. Count(visits[k].node)',
               (At(visits[k].node, e).id = heard[a])', Hears(At(visits[k].node, e), visits[k].phase)'
        PROVE  FALSE
    <3>1. k + 1 \in 1 .. n /\ visits'[k] = visits[k + 1] /\ k + 1 # 1
      BY <1>3
    <3>2. PICK m \in UiNodeIds : m = visits[k + 1].node
      BY <1>4, <3>1
    <3>3. Count(visits[k].node)' = Count(m) /\ At(visits[k].node, e)' = At(m, e)
      BY <1>1, <3>1, <3>2 DEF Count, At, FromEnd
    <3>4. e \in 1 .. Count(m) /\ At(m, e).id = heard[a] /\ Hears(At(m, e), visits[k + 1].phase)
      BY <1>1, <2>2, <3>1, <3>3
    <3> QED
      BY <3>1, <3>2, <3>4 DEF DispatchInv, NotAgain, n
  <2> QED
    BY <2>1, <2>2
\* The same calls are behind after the step as before.
<1>13. ASSUME NEW c \in due
       PROVE  (Passed(c)' <=> Passed(c)) /\ (~Passed(c) => Coming(c)')
  <2>1. c.visits \in Nat /\ c.visits > 0 /\ c.rest \in Nat /\ c.rest > 0
    BY <1>2 DEF Call
  <2>2. Passed(c) <=> c.visits > n \/ c.visits = n
    <3>1. Len(rest) = 0
      BY <1>1
    <3> QED
      BY <2>1, <3>1 DEF Passed, n
  <2>3. Passed(c) => Passed(c)'
    BY <1>3, <2>1, <2>2 DEF Passed
  <2>4. ASSUME ~Passed(c)
        PROVE  ~Passed(c)' /\ Coming(c)'
    <3>1. c.visits \in 1 .. n - 1 /\ Coming(c)
      BY <1>3, <2>1, <2>2, <2>4 DEF DispatchInv, DueIsMet
    <3>2. FromEnd(visits, c.visits)' = FromEnd(visits, c.visits)
      BY <1>3, <3>1
    <3>3. Coming(c)'
      BY <1>7, <3>1, <3>2 DEF Coming
    <3>4. ASSUME c.visits = n - 1 PROVE ~(c.rest > Len(rest'))
      <4>1. visits' # << >>
        BY <1>3, <3>1, <3>4
      <4>2. Len(rest') = Count(FromEnd(visits, c.visits).node) /\ Len(rest') \in Nat
        BY <1>5, <1>6, <3>4, <4>1
      <4> QED
        BY <2>1, <3>1, <4>2 DEF Coming
    <3>5. ~Passed(c)'
      BY <1>3, <2>1, <3>1, <3>4 DEF Passed
    <3> QED
      BY <3>3, <3>5
  <2> QED
    BY <2>3, <2>4
<1>14. DueIsMet' /\ InOrder'
  BY <1>1, <1>13 DEF DispatchInv, DueIsMet, InOrder
<1> QED
  BY <1>8, <1>9, <1>10, <1>11, <1>12, <1>14 DEF DispatchInv

\* Whatever the listeners add and move while an event is on its way, those that
\* were on it when it began hear it once each, in the order of capture, target
\* and bubble, in a tree of any shape and with any number of listeners.
THEOREM ListenersHearOnce == DispatchSpec => []HeardOnTheWay
<1>1. DispatchInv /\ [DispatchNext]_dispatchVars => DispatchInv'
  <2> SUFFICES ASSUME DispatchInv, [DispatchNext]_dispatchVars PROVE DispatchInv'
    OBVIOUS
  <2>1. ASSUME NEW p \in UiNodeIds, NEW n \in UiNodeIds, AddChildTo(p, n) PROVE DispatchInv'
    BY <2>1, AddChildStep
  <2>2. ASSUME NEW n \in UiNodeIds, AddListenerTo(n) PROVE DispatchInv'
    BY <2>2, AddListenerStep
  <2>3. ASSUME NEW n \in UiNodeIds, BeginDispatch(n) PROVE DispatchInv'
    BY <2>3, BeginStep
  <2>4. CASE CallListener
    BY <2>4, ListenerStep
  <2>5. CASE NextNode
    BY <2>5, NextNodeStep
  <2>6. CASE UNCHANGED dispatchVars
    <3>1. /\ DispatchTypes' /\ Rooted' /\ DownAndUp' /\ HeardOnce' /\ OnePlace'
      BY <2>6 DEF dispatchVars, DispatchInv, DispatchTypes, Rooted, IsLineage, DownAndUp, HeardOnce,
                  OnePlace, At, Count
    <3>2. RestIsEnd'
      BY <2>6 DEF dispatchVars, DispatchInv, RestIsEnd, Under, At, Count
    <3>3. NotAgain'
      BY <2>6, SMTT(60) DEF dispatchVars, DispatchInv, NotAgain, At, Count
    <3>4. DueIsMet' /\ InOrder'
      BY <2>6 DEF dispatchVars, DispatchInv, DueIsMet, InOrder, Passed, Coming, At, Count
    <3> QED
      BY <3>1, <3>2, <3>3, <3>4 DEF DispatchInv
  <2> QED
    BY <2>1, <2>2, <2>3, <2>4, <2>5, <2>6 DEF DispatchNext
\* When the event has arrived nothing is left, so every call is behind.
<1>2. DispatchInv => HeardOnTheWay
  <2> SUFFICES ASSUME DispatchInv PROVE HeardOnTheWay
    OBVIOUS
  <2>1. DOMAIN heard = 1 .. Len(heard)
    BY DEF DispatchInv, DispatchTypes
  <2>2. ~Under => \A c \in due : Passed(c)
    <3>1. ASSUME ~Under, NEW c \in due PROVE Passed(c)
      <4>1. c.visits \in Nat \ {0}
        BY DEF DispatchInv, DispatchTypes, Call
      <4> QED
        BY <3>1, <4>1 DEF Under, Passed
    <3> QED
      BY <3>1
  <2>3. ~Under => \A c \in due : \E a \in DOMAIN heard : heard[a] = c.id
    BY <2>1, <2>2 DEF DispatchInv, DueIsMet
  <2> QED
    BY <2>1, <2>2, <2>3 DEF DispatchInv, InOrder, HeardOnce, HeardOnTheWay, ToSet
<1> QED
  BY <1>1, <1>2, DispatchStart, PTL DEF DispatchSpec
=============================================================================
