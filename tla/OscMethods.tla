----------------------------- MODULE OscMethods -----------------------------
(***************************************************************************)
(* The list of methods of liblo's server (lo_server_add_method,            *)
(* lo_server_del_method, dispatch_method in server.c) as RTSOSC uses it:   *)
(* a Module adds its methods in its constructor and deletes them in its    *)
(* destructor.  The program's main thread makes and deletes modules while  *)
(* the server's thread dispatches messages, whose handlers, a              *)
(* ModuleController's, make and delete modules too.  Nothing locks the     *)
(* list.  A deletion is one step here; adding finds the end of the list in *)
(* one step and links the method in another.                               *)
(***************************************************************************)
EXTENDS Naturals, Sequences, FiniteSets, Selection

CONSTANTS Objects,        \* modules
          Path,           \* the OSC address of a module
          Adds,           \* the type specifications it adds methods for, in order
          Deletes,        \* those its destructor names
          MainObjects,    \* the modules the main thread makes and may delete
          Controller,     \* the one whose method makes and deletes the others
          Types,          \* the type strings of messages
          Numeric,        \* those that consist of numbers, which liblo converts
          PassesOn,       \* modules whose handlers return 1
          NoMethod

Others == Objects \ MainObjects
Added(o) == {Adds[o][n] : n \in DOMAIN Adds[o]}

\* A module adds each of its methods once; the program's own modules have
\* addresses of their own, and what shares an address is of one class.
ASSUME OscMethodsAssumption ==
    /\ Controller \in MainObjects /\ MainObjects \subseteq Objects
    /\ \A o \in Objects :
           /\ Adds[o] \in Seq(STRING) /\ Deletes[o] \subseteq Added(o)
           /\ \A n, k \in DOMAIN Adds[o] : Adds[o][n] = Adds[o][k] => n = k
    /\ \A o, x \in Objects : Path[o] = Path[x] =>
           Deletes[o] = Deletes[x] /\ (o \in MainObjects => o = x)
    /\ NoMethod \notin [obj : Objects, spec : STRING]

Threads == {"main", "server"}

VARIABLES methods,        \* s->first and the list behind it: [obj, spec]
          life,           \* "unborn", "alive", "dead"
          jobs,           \* additions and deletions a thread has before it
          found,          \* the end of the list a thread's addition has found
          msg,            \* the message being dispatched, or <<>>
          it,             \* dispatch_method's it
          called,         \* the handler of it has been called
          argv,           \* "given", or "NULL" after a conversion
          wild,           \* history: methods called for a module that was deleted;
          dangling,       \* the list was read where it is freed;
          unargued,       \* a handler got no argv;
          overlapped      \* two threads' edits, or an edit and a walk, overlapped

listVars == <<methods, life, jobs, found>>
walkVars == <<msg, it, called, argv>>
methodHistory == <<wild, dangling, unargued, overlapped>>
oscMethodsVars == <<listVars, walkVars, methodHistory>>

OscMethodsInit ==
    /\ methods = <<>>
    /\ life = [o \in Objects |-> "unborn"]
    /\ jobs = [th \in Threads |-> <<>>]
    /\ found = [th \in Threads |-> <<>>]
    /\ msg = <<>> /\ it = NoMethod /\ called = FALSE /\ argv = "given"
    /\ wild = {} /\ dangling = FALSE /\ unargued = FALSE /\ overlapped = FALSE

Listed == {methods[n] : n \in DOMAIN methods}
InList(m) == \E n \in DOMAIN methods : methods[n] = m
PlaceOf(m) == CHOOSE n \in DOMAIN methods : methods[n] = m
Other(th) == IF th = "main" THEN "server" ELSE "main"
ListOps(op, o, specs) == [n \in DOMAIN specs |-> [op |-> op, obj |-> o, spec |-> specs[n]]]

\* A constructor and a destructor of Module and its subclasses
Constructs(o) == ListOps("add", o, Adds[o])
Destructs(o) == ListOps("del", o, Selected(Adds[o], Deletes[o]))

-----------------------------------------------------------------------------
(* lo_server_add_method, lo_server_del_method                              *)

Job(th, op) == jobs[th] # <<>> /\ Head(jobs[th]).op = op
Clash(th) == found[Other(th)] # <<>>
Overlaps(b) == overlapped' = (overlapped \/ b)

\* Slip: the loop to the last method is left out.
FindEndUnwalked(th) ==
    /\ Job(th, "add") /\ found[th] = <<>>
    /\ found' = [found EXCEPT ![th] = <<IF methods = <<>> THEN NoMethod ELSE methods[1]>>]
    /\ UNCHANGED <<methods, life, jobs, walkVars, methodHistory>>
FindEnd(th) ==
    /\ Job(th, "add") /\ found[th] = <<>>
    /\ found' = [found EXCEPT ![th] = <<IF methods = <<>> THEN NoMethod
                                        ELSE methods[Len(methods)]>>]
    /\ UNCHANGED <<methods, life, jobs, walkVars, methodHistory>>

\* What another thread has linked to the same end is cut off; to a freed
\* end the method is linked in vain.
LinkMethod(th) ==
    /\ Job(th, "add") /\ found[th] # <<>>
    /\ LET m == [obj |-> Head(jobs[th]).obj, spec |-> Head(jobs[th]).spec]
           end == found[th][1]
       IN  methods' = IF end = NoMethod THEN <<m>>
                      ELSE IF InList(end) THEN SubSeq(methods, 1, PlaceOf(end)) \o <<m>>
                      ELSE methods
    /\ jobs' = [jobs EXCEPT ![th] = Tail(@)]
    /\ found' = [found EXCEPT ![th] = <<>>]
    /\ Overlaps(Clash(th))
    /\ UNCHANGED <<life, walkVars, wild, dangling, unargued>>

\* Slip: the path is compared without its first character, the destructor's
\* with it (ModuleManager's destructor names "ModuleManager/RequestML").
GoneUnslashed(m, o, spec) == FALSE
Gone(m, o, spec) == Path[m.obj] = Path[o] /\ m.spec = spec
DelMethod(th) ==
    /\ Job(th, "del")
    /\ methods' = Selected(methods, {m \in Listed : ~Gone(m, Head(jobs[th]).obj, Head(jobs[th]).spec)})
    /\ jobs' = [jobs EXCEPT ![th] = Tail(@)]
    /\ Overlaps(Clash(th) \/ (th = "main" /\ msg # <<>>))
    /\ UNCHANGED <<life, found, walkVars, wild, dangling, unargued>>

-----------------------------------------------------------------------------
(* The main thread                                                         *)

Make(o) == life[o] = "unborn" /\ life' = [life EXCEPT ![o] = "alive"]
Free(o) == life[o] = "alive" /\ life' = [life EXCEPT ![o] = "dead"]

MainMakes(o) ==
    /\ o \in MainObjects /\ jobs["main"] = <<>>
    /\ Make(o)
    /\ jobs' = [jobs EXCEPT !["main"] = Constructs(o)]
    /\ UNCHANGED <<methods, found, walkVars, methodHistory>>
MainDeletes(o) ==
    /\ o \in MainObjects \ {Controller} /\ jobs["main"] = <<>>
    /\ Free(o)
    /\ jobs' = [jobs EXCEPT !["main"] = Destructs(o)]
    /\ Overlaps(msg # <<>>)
    /\ UNCHANGED <<methods, found, walkVars, wild, dangling, unargued>>

-----------------------------------------------------------------------------
(* The server thread: dispatch_method                                      *)

\* A message to an address, or to a pattern that every address matches;
\* for the Controller it says which module to make or delete.
Messages == [path : {Path[o] : o \in Objects}, types : Types,
             pattern : BOOLEAN, about : Others]

Start(m) ==
    /\ msg = <<>>
    /\ msg' = <<m>>
    /\ it' = IF methods = <<>> THEN NoMethod ELSE methods[1]
    /\ called' = FALSE /\ argv' = "given"
    /\ Overlaps(\E o \in MainObjects : Job("main", "del"))
    /\ UNCHANGED <<listVars, wild, dangling, unargued>>

CanCoerce(a, b) == a = b \/ (a \in Numeric /\ b \in Numeric)
Matches(m, x) == (m.pattern \/ m.path = Path[x.obj]) /\ CanCoerce(m.types, x.spec)

Walking == msg # <<>> /\ jobs["server"] = <<>>
\* The handler of it, if the message is for it
CallHandler ==
    /\ Walking /\ ~called /\ it # NoMethod /\ InList(it)
    /\ called' = TRUE
    /\ IF ~Matches(msg[1], it) THEN UNCHANGED <<life, jobs, wild, argv, unargued>>
       ELSE /\ wild' = wild \cup {x \in {it} : life[x.obj] = "dead"}
            /\ IF it.spec = msg[1].types
               THEN unargued' = (unargued \/ argv = "NULL") /\ UNCHANGED argv
               ELSE argv' = "NULL" /\ UNCHANGED unargued
            /\ IF it.obj # Controller THEN UNCHANGED <<life, jobs>>
               ELSE LET o == msg[1].about
                    IN  \/ /\ Make(o) /\ \A x \in Objects : Path[x] = Path[o] => life[x] # "alive"
                           /\ jobs' = [jobs EXCEPT !["server"] = Constructs(o)]
                        \/ Free(o) /\ jobs' = [jobs EXCEPT !["server"] = Destructs(o)]
                        \/ UNCHANGED <<life, jobs>>
    /\ UNCHANGED <<methods, found, msg, it, dangling, overlapped>>

Handled == Matches(msg[1], it) /\ it.obj \notin PassesOn /\ ~msg[1].pattern

EndDispatch == msg' = <<>> /\ it' = NoMethod /\ called' = FALSE /\ argv' = "given"
NextOf(m) == IF PlaceOf(m) = Len(methods) THEN NoMethod ELSE methods[PlaceOf(m) + 1]

\* it = it->next, after the handler
Advance ==
    /\ Walking /\ called /\ InList(it)
    /\ IF Handled THEN EndDispatch
       ELSE called' = FALSE /\ it' = NextOf(it) /\ UNCHANGED <<msg, argv>>
    /\ UNCHANGED <<listVars, methodHistory>>

\* The end of the list; or it has been freed, and what follows is undefined.
Leave ==
    /\ Walking
    /\ it = NoMethod \/ ~InList(it)
    /\ dangling' = (dangling \/ it # NoMethod)
    /\ EndDispatch
    /\ UNCHANGED <<listVars, wild, unargued, overlapped>>

ListStep == \E th \in Threads : FindEnd(th) \/ LinkMethod(th) \/ DelMethod(th)
MainStep == \E o \in Objects : MainMakes(o) \/ MainDeletes(o)
DispatchStep == CallHandler \/ Advance \/ Leave \/ \E m \in Messages : Start(m)

OscMethodsNext == ListStep \/ MainStep \/ DispatchStep
OscMethodsSpec == OscMethodsInit /\ [][OscMethodsNext]_oscMethodsVars

-----------------------------------------------------------------------------
Resting == \A th \in Threads : jobs[th] = <<>>
MethodsOf(o, specs) == {[obj |-> o, spec |-> s] : s \in specs}

(* Modules made and deleted by both threads, as long as their calls do not *)
(* overlap: the list holds the methods of the living modules and of the    *)
(* deleted ones what their destructors forget, each once.  (If two         *)
(* additions overlap, one of the methods is lost.)                         *)
ListIsOfTheLiving ==
    (~overlapped /\ Resting) =>
        /\ Listed =
               UNION {MethodsOf(o, CASE life[o] = "unborn" -> {}
                                     [] life[o] = "alive"  -> Added(o)
                                     [] life[o] = "dead"   -> Added(o) \ Deletes[o]) : o \in Objects}
        /\ Len(methods) = Cardinality(Listed)

(* A handler makes and deletes modules, which changes the list that        *)
(* dispatch_method is walking: no freed entry is read, in this walk or a   *)
(* later one, and no method that its module's destructor deletes is called *)
(* after it; as long as the main thread does not edit the list in the      *)
(* middle, which nothing prevents.                                         *)
OnlyForgotten == \A m \in wild : m.spec \notin Deletes[m.obj]
CallsReachTheLiving == ~overlapped => OnlyForgotten /\ ~dangling

(* A deleted module is called no more.  Not so: DAC's destructor leaves    *)
(* its method for two channels in the list (DAC.cpp:289).                  *)
NoCallsOfTheDead == ~overlapped => wild = {}

(* "If the first argument of the incoming message is of type 'f' then the  *)
(* value will be found in argv[0]->f" (lo_types.h): a handler is called    *)
(* with the arguments.                                                     *)
ArgumentsArrive == ~unargued
=============================================================================
