----------------------------- MODULE Statements -----------------------------
(***************************************************************************)
(* The language in which the tables of classes say what a call of the      *)
(* library does with memory.  A call is a sequence of statements about     *)
(* fields: the pointers of an object and the local variables of the        *)
(* function.  The elements of an array, and the nodes of a list, are one   *)
(* field.  Numbers, flags and the text that is copied are left out; so are *)
(* checks of arguments that return before anything has changed.            *)
(***************************************************************************)
EXTENDS Naturals, SequencesExt

\* Pointers that live in the stack frame of a call and end with it.
Locals == {"it", "copy", "grown", "buffer", "key"}

\* A statement: what it does, on which field, with which others, and how many
\* statements of the call it governs.
Statement(op, f, fs, n) == << [op |-> op, on |-> f, with |-> fs, governs |-> n] >>

\* Allocates f.  When that fails the fields fs are freed and the call fails.
NewElse(f, fs) == Statement("new", f, fs, 0)
New(f)         == NewElse(f, {})

\* Allocates f.  When that fails the call goes on, without s.
Try(f, s) == Statement("try", f, {}, Len(s)) \o s

\* Frees f, which goes on pointing to the block that was; or is set to NULL.
Free(f) == Statement("free", f, {}, 0)
Drop(f) == Statement("drop", f, {}, 0)

\* Follows f.
Use(f) == Statement("use", f, {}, 0)

\* Gives f what g points to, and forgets g: f may have to be free, or be an
\* array that g becomes an element of.
Move(f, g) == Statement("move", f, {g}, 0)
Add(f, g)  == Statement("add", f, {g}, 0)

\* A block of the caller becomes f, or an element of f.
Take(f) == Statement("take", f, {}, 0)
Keep(f) == Statement("keep", f, {}, 0)

\* s when the arguments or the data ask for it; when f is NULL; when it is not.
Maybe(s)     == Statement("maybe", "", {}, Len(s)) \o s
IfNull(f, s) == Statement("ifnull", f, {}, Len(s)) \o s
IfSet(f, s)  == Statement("ifset", f, {}, Len(s)) \o s

\* The call fails here, and frees the fields fs.
Fails(fs) == Statement("fails", "", fs, 0)

-----------------------------------------------------------------------------
(* What is written again and again. *)

\* if (f) CMP_FREE(f), with and without f = NULL after it.
Release(f) == IfSet(f, Free(f))
Clear(f)   == IfSet(f, Drop(f))

\* Several fields are released, in this order.
ReleaseAll(fs) == FlattenSeq([i \in DOMAIN fs |-> Release(fs[i])])

\* An array that is missing is allocated; one that is full is copied into a
\* larger one, which takes its place.
Grow(f) ==
  IfNull(f, New(f)) \o IfSet(f, Maybe(New("grown") \o Free(f) \o Move(f, "grown")))

\* The capacity of an array is doubled before there is a larger one: "room" is
\* there as long as the array is as large as its capacity says.  When there is
\* no larger one the fields fs are freed.
EarlyGrow(f, fs) ==
  Maybe(Drop("room") \o NewElse("grown", fs) \o Free(f) \o Move(f, "grown") \o Take("room"))

\* A block that nothing else refers to: created, and freed.
Block    == New("self")
Unblock  == Free("self")

-----------------------------------------------------------------------------
(* Kinds of classes. *)

\* One block, which the calls between read and write.
Held == [create |-> Block, use |-> Use("self"), destroy |-> Unblock]

\* One block that holds an object of another class: the field "impl".
Wrapper ==
  [create  |-> Block \o NewElse("impl", {"self"}),
   use     |-> Use("self") \o Use("impl"),
   destroy |-> Release("impl") \o Unblock]

\* An array of values, which grows.
Vector ==
  [create  |-> Block,
   add     |-> Grow("array") \o Use("array"),
   read    |-> IfSet("array", Use("array")),
   destroy |-> Release("array") \o Unblock]

\* An array of objects, which grows and frees them in the end; the caller
\* creates them, or the call copies one text for each.
Owner(object) ==
  [create  |-> Block,
   add     |-> Grow("array") \o Use("array") \o object,
   read    |-> IfSet("array", Use("array")),
   destroy |-> IfSet("array", Release("items") \o Free("array")) \o Unblock]
Given  == Keep("items")
Copies == New("it") \o Add("items", "it")

\* The same with an array that is there from the start and grows early.
EarlyOwner ==
  [create  |-> Block \o NewElse("array", {"self"}) \o Take("room"),
   add     |-> EarlyGrow("array", {}) \o New("it") \o Use("room") \o Add("items", "it"),
   read    |-> Use("array") \o IfSet("items", Use("items")),
   destroy |-> Release("items") \o Drop("room") \o Free("array") \o Unblock]
=============================================================================
