----------------------------- MODULE MCProgress -----------------------------
(***************************************************************************)
(* What has to happen in uACPI eventually, for TLC: `part' names the part   *)
(* that a behaviour is of, x1, x2, ... are its variables (0 where it has    *)
(* fewer).  Each part comes with its own fairness, see its FairSpec.        *)
(***************************************************************************)
EXTENDS Integers, Sequences

CONSTANT Parts

VARIABLES part, x1, x2, x3, x4, x5, x6, x7, x8, x9, x10, x11, x12, x13, x14

rest9 == <<x9, x10, x11, x12, x13, x14>>
mcvars == <<part, x1, x2, x3, x4, x5, x6, x7, x8, rest9>>
Eight == x9 = 0 /\ x10 = 0 /\ x11 = 0 /\ x12 = 0 /\ x13 = 0 /\ x14 = 0

Lock == INSTANCE GlobalLock WITH Aml <- {"a", "b"}, Api <- {}, MaxDepth <- 2, MaxSpins <- 3,
    MaxSeq <- 2, IrqOff <- TRUE, Waits <- TRUE, facs <- x1, fw <- x2, irq <- x3,
    global_lock_pending <- x4, event <- x5, mutex <- x6, owner <- x7, depth <- x8, ns <- x9,
    seq <- x10, acquired <- x11, out_seq <- x12, pc <- x13, spins <- x14
Fixed == INSTANCE FixedEvents WITH Events <- 0..2, status <- x1, enable <- x2, stuck <- x3,
    facs <- x4, handler <- x5, has_global_lock <- x6, phase <- x7, todo <- x8
Gpes == INSTANCE Gpe WITH Events <- {0}, Devices <- {}, MaxUsers <- 1, MaxWork <- 2,
    IrqOff <- TRUE, Works <- TRUE, IoFails <- FALSE, Calls <- {"enable", "disable", "finish"},
    hw <- x1, reg <- x2, ev <- x3, todo <- x4, work <- x5, done <- x6, owed <- x7, asked <- x8

MCInit ==
    /\ part \in Parts
    /\ \/ part = "lock" /\ Lock!Init
       \/ part = "fixed" /\ Fixed!Init /\ Eight
       \/ part = "gpe" /\ Gpes!Init /\ Eight

MCNext ==
    /\ UNCHANGED part
    /\ \/ part = "lock" /\ Lock!Next
       \/ part = "fixed" /\ Fixed!Next /\ UNCHANGED rest9
       \/ part = "gpe" /\ Gpes!Next /\ UNCHANGED rest9

MCSpec ==
    /\ MCInit /\ [][MCNext]_mcvars
    /\ \A t \in {"a", "b"} : WF_mcvars(part = "lock" /\ Lock!Steps(t) /\ UNCHANGED part)
    /\ WF_mcvars(part = "lock" /\ Lock!FwRelease /\ UNCHANGED part)
    /\ WF_mcvars(part = "lock" /\ Lock!FwTry /\ UNCHANGED part)
    /\ WF_mcvars(part = "lock" /\ Lock!HandleGlobalLock /\ UNCHANGED part)
    /\ WF_mcvars(part = "fixed" /\ Fixed!Continue /\ UNCHANGED <<part, rest9>>)
    /\ WF_mcvars(part = "fixed" /\ Fixed!HandleSci /\ UNCHANGED <<part, rest9>>)
    /\ WF_mcvars(part = "gpe" /\ Gpes!TakeWork /\ UNCHANGED <<part, rest9>>)
    /\ WF_mcvars(part = "gpe" /\ Gpes!Interrupt /\ UNCHANGED <<part, rest9>>)
    /\ \A a \in {"thread", "worker"} :
           WF_mcvars(part = "gpe" /\ Gpes!Step(a) /\ UNCHANGED <<part, rest9>>)

-----------------------------------------------------------------------------
\* A thread that waits for the firmware to give the global lock back is woken.
WaitEnds == \A t \in {"a", "b"} :
    (part = "lock" /\ x13[t] = "wait") ~> (part = "lock" /\ x13[t] # "wait")
\* An event that is raised and enabled does not keep the SCI asserted.
ServedIsQuiet == \A e \in 0..1 :
    (part = "fixed" /\ x7 = "on" /\ e \in x1 \cap x2)
        ~> (part = "fixed" /\ (x7 # "on" \/ e \notin x1 \cap x2))
\* A general purpose event whose AML handler was scheduled is given back.
HandledEventReturns ==
    (part = "gpe" /\ x3[0].block /\ Gpes!HasAml(0))
        ~> (part = "gpe" /\ (~x3[0].block \/ ~Gpes!HasAml(0)))
=============================================================================
