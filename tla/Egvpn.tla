-------------------------------- MODULE Egvpn --------------------------------
(***************************************************************************)
(* `egvpn', the tool that prepares and runs the containers of a VPN server *)
(* on a host: `config init', `start', `stop' and `restart'. A command is a *)
(* sequence of steps, most of them one call of docker or of the kernel; it *)
(* takes no lock, so commands in two terminals interleave, and it may be   *)
(* interrupted between two steps. A failed step ends a command except in a *)
(* stop, which prints the failure and goes on. Nothing is ever undone.     *)
(*                                                                         *)
(* The paths given to a command lead to one directory, a relative one to   *)
(* the directory the command is run in. Left out: the images, a telegraf   *)
(* configuration of the operator's own, versions, timeouts, and three more *)
(* kernel settings treated as the huge pages are. Definitions marked as    *)
(* variants carry a plausible bug.                                         *)
(***************************************************************************)
EXTENDS Integers, Sequences, FiniteSets

CONSTANTS
    Terminal,       \* where commands are typed
    Dir,            \* directories on the host
    Name,           \* names of VPN servers at the orchestrator
    Absent,           \* no name, no directory, no file
    StartOptions,   \* options of start: a subset of Options
    RestartOptions, \* options of restart: a subset of Overrides
    InitOptions,    \* options of config init: a subset of InitChoices
    Lines,          \* commands in the VPP day0 configuration
    MaxPages,       \* huge pages the kernel can find
    MaxCommands,    \* bound on the commands typed
    MaxCauses       \* bound on the kinds of trouble in one behaviour

VARIABLES
    disk,     \* by directory and kind of file, what the file says
    named,    \* egvpn-config.json: the server's name
    saved,    \* egvpn-restart-opts.json; history: its directory when saved
    docker,   \* the containers, running or not
    volumes,  \* docker's volumes
    pages,    \* vm.nr_hugepages
    day0,     \* day0 commands the VPP container has been given
    term,     \* by terminal, the command under way and the steps it has left
    last,     \* history: how the last command ended, if none was begun since
    commands, \* the number of commands typed
    causes    \* history: what happened that excuses the tool

host == <<disk, named, saved, docker, volumes, pages, day0, term, last, commands, causes>>

Service == {"server", "healthcheck", "all"}
Container == {"server", "vpp", "telegraf", "healthcheck"}
Kind == {"secrets", "config", "vpp", "day0"}
Content == Name \cup {"vpp", "linux", "text", Absent}
Unchecked == -1   \* huge pages: leave the kernel's setting alone
Kept == -2        \* huge pages: as they were at the start

\* The paths' directory, Absent for relative paths; `conf' is the path of the
\* telegraf configuration.
Options == [at : Dir \cup {Absent}, service : Service, telemetry : BOOLEAN,
            name : Name \cup {Absent}, conf : {"none", "temporary"}, pages : Unchecked..MaxPages]
Overrides == [at : Dir \cup {Absent}, service : Service, name : Name \cup {Absent},
              pages : Kept..MaxPages]
InitChoices == [name : Name, vpp : BOOLEAN, only : Kind \cup {"all"}]

\* The options saved come from a start, or from a restart that got to its start.
Saved == [opts : Options, dir : Dir]
Instance == [up : BOOLEAN, opts : Options, dir : Dir, vpp : BOOLEAN, name : Name \cup {Absent}]
Asked == Options \cup InitChoices \cup [service : Service]
Ending == [cmd : {"init", "start", "restart", "stop"}, opts : Asked, vpp : BOOLEAN,
            ok : BOOLEAN]

ASSUME BoundAssumption == Lines \in Nat /\ MaxPages \in Nat /\ MaxCommands \in Nat
ASSUME OptionsAssumption ==
    /\ StartOptions \subseteq {o \in Options : o.conf = "none"}
    /\ RestartOptions \subseteq Overrides
    /\ InitOptions \subseteq InitChoices
ASSUME AbsentAssumption ==
    Absent \notin Name \cup {"vpp", "linux", "text"} \cup Saved \cup Instance \cup Ending

Idle == [cmd |-> "none", todo |-> <<>>, opts |-> Absent, dir |-> Absent, vpp |-> FALSE]

HostTypeOK ==
    /\ disk \in [Dir -> [Kind -> Content]]
    /\ named \in Name \cup {Absent}
    /\ saved \in Saved \cup {Absent}
    /\ docker \in [Container -> Instance \cup {Absent}]
    /\ volumes \subseteq {"telegraf", "vpp"}
    /\ pages \in 0..MaxPages /\ day0 \in 0..Lines
    /\ \A t \in Terminal : (term[t].cmd = "none") = (term[t].todo = <<>>)
    /\ last \in Ending \cup {Absent}
    /\ commands \in 0..MaxCommands

HostInit ==
    /\ disk = [d \in Dir |-> [k \in Kind |-> Absent]]
    /\ named = Absent /\ saved = Absent
    /\ docker = [c \in Container |-> Absent]
    /\ volumes = {} /\ pages = 0 /\ day0 = 0
    /\ term = [t \in Terminal |-> Idle]
    /\ last = Absent /\ commands = 0 /\ causes = {}

IsUp(c) == docker[c] # Absent /\ docker[c].up

Because(C) == causes' = causes \cup C /\ Cardinality(causes') <= MaxCauses
If(condition, cause) == IF condition THEN {cause} ELSE {}

-----------------------------------------------------------------------------
(* Steps of a command. *)

Proceed(t, new) ==
    IF new.todo # <<>>
    THEN term' = [term EXCEPT ![t] = new] /\ UNCHANGED last
    ELSE /\ term' = [term EXCEPT ![t] = Idle]
         /\ last' = [cmd |-> new.cmd, opts |-> new.opts, vpp |-> new.vpp, ok |-> TRUE]

\* The step returned; what the step learned is in `new'.
GoOnWith(t, new) == Proceed(t, [new EXCEPT !.todo = Tail(@)])
GoOn(t) == GoOnWith(t, term[t])

\* The step returned an error, and so does the command.
ReturnError(t) ==
    /\ term' = [term EXCEPT ![t] = Idle]
    /\ last' = [cmd |-> term[t].cmd, opts |-> term[t].opts, vpp |-> term[t].vpp, ok |-> FALSE]

At(t, step) == term[t].todo # <<>> /\ Head(term[t].todo) = step
Step(op, arg) == <<op, arg>>

Steps(condition, steps) == IF condition THEN steps ELSE <<>>

RemovingServer ==
    <<Step("stop", "server"), Step("rm", "server"), Step("stop", "vpp"), Step("rm", "vpp"),
      Step("stop", "telegraf"), Step("rm", "telegraf")>>
RemovingVolumes == <<Step("rm-volume", "telegraf"), Step("rm-volume", "vpp")>>
RemovingHealthcheck == <<Step("stop", "healthcheck"), Step("rm", "healthcheck")>>

\* Variant: the volumes are removed before the containers that use them.
StoppingVolumesFirst(service) ==
    Steps(service # "healthcheck", RemovingVolumes \o RemovingServer)
    \o Steps(service # "server", RemovingHealthcheck)

Stopping(service) ==
    Steps(service # "healthcheck", RemovingServer \o RemovingVolumes)
    \o Steps(service # "server", RemovingHealthcheck)

Allocating(o, vpp) == Steps(vpp /\ o.pages >= 0, <<Step("read-pages", "host")>>)
Saving == <<Step("save", "host")>>
RunningVpp ==
    <<Step("volume", "vpp"), Step("run", "vpp"), Step("connect", "vpp")>>
    \o [i \in 1..Lines |-> Step("line", "vpp")]
Running(o, vpp) ==
    Steps(o.service # "healthcheck",
          <<Step("run", "server")>> \o Steps(vpp, RunningVpp)
          \o Steps(o.telemetry, <<Step("volume", "telegraf"), Step("run", "telegraf")>>))
    \o Steps(o.service # "server", <<Step("run", "healthcheck")>>)

\* Variant: the options are saved when everything has been started.
StartingThenSaving(o, vpp) == Allocating(o, vpp) \o Running(o, vpp) \o Saving

\* What a start does once the files have been found.
Starting(o, vpp) == Allocating(o, vpp) \o Saving \o Running(o, vpp)

\* The files a config init writes, in this order.
Wanted(i) ==
    IF i.only # "all" THEN {i.only}
    ELSE {"secrets", "config"} \cup (IF i.vpp THEN {"vpp", "day0"} ELSE {})

Writing(i) ==
    Steps("secrets" \in Wanted(i), <<Step("write", "secrets")>>)
    \o Steps("config" \in Wanted(i), <<Step("write", "config")>>)
    \o Steps("vpp" \in Wanted(i), <<Step("write", "vpp")>>)
    \o Steps("day0" \in Wanted(i), <<Step("write", "day0")>>)

\* Variant: the name is saved first.
InitialisingNameFirst(i) == <<Step("name", "host"), Step("check", "host")>> \o Writing(i)

Initialising(i) == <<Step("check", "host")>> \o Writing(i) \o <<Step("name", "host")>>

-----------------------------------------------------------------------------
(* Commands are typed. *)

Somewhere(at, cwd) == IF at = Absent THEN cwd ELSE at

\* Two commands at once are trouble if both initialise or neither does.
AtOnce(t, cmd) ==
    LET others == {term[u].cmd : u \in Terminal \ {t}} \ {"none"}
    IN If(cmd = "init" /\ "init" \in others, "two-inits")
       \cup If(cmd # "init" /\ others \ {"init"} # {}, "two-runs")

Begin(t, cmd, todo, opts, dir, why) ==
    /\ term[t] = Idle /\ commands < MaxCommands
    /\ commands' = commands + 1 /\ last' = Absent
    /\ term' = [term EXCEPT ![t] = [cmd |-> cmd, todo |-> todo, opts |-> opts, dir |-> dir,
                                    vpp |-> FALSE]]
    /\ Because(why \cup AtOnce(t, cmd))
    /\ UNCHANGED <<disk, named, saved, docker, volumes, pages, day0>>

ConfigInit(t, cwd, i) == Begin(t, "init", Initialising(i), i, cwd, {})

\* Variant: the options are saved before the files are looked for.
StartSavingUnverified(t, cwd, o) ==
    Begin(t, "start", Saving \o <<Step("verify", "host")>>, o, Somewhere(o.at, cwd), {})

Start(t, cwd, o) == Begin(t, "start", <<Step("verify", "host")>>, o, Somewhere(o.at, cwd), {})

\* Variant: the number that stands for "as before" is taken for a number.
OverwrittenAlways(o, w) ==
    [o EXCEPT !.at = IF w.at = Absent THEN @ ELSE w.at,
              !.name = IF w.name = Absent THEN @ ELSE w.name,
              !.pages = w.pages, !.service = w.service]

\* `-s' has a default, so the saved service is always replaced.
Overwritten(o, w) ==
    [o EXCEPT !.at = IF w.at = Absent THEN @ ELSE w.at,
              !.name = IF w.name = Absent THEN @ ELSE w.name,
              !.pages = IF w.pages = Kept THEN @ ELSE w.pages,
              !.service = w.service]

\* What is to be stopped is stopped before anything is verified. Without
\* saved options a restart changes nothing.
RestartContainers(t, cwd, w) ==
    /\ saved # Absent
    /\ LET o == Overwritten(saved.opts, w)
           dir == Somewhere(o.at, cwd)
       IN Begin(t, "restart", Stopping(o.service) \o <<Step("verify", "host")>>, o, dir,
                If(w.at # Absent, "elsewhere") \cup If(w.at = Absent /\ dir # saved.dir, "moved"))

Stop(t, service) == Begin(t, "stop", Stopping(service), [service |-> service], Absent, {})

\* The operator interrupts the command.
Interrupt(t) ==
    /\ term[t] # Idle
    /\ Because({"interrupted"})
    /\ term' = [term EXCEPT ![t] = Idle]
    /\ UNCHANGED <<disk, named, saved, docker, volumes, pages, day0, last, commands>>

-----------------------------------------------------------------------------
(* config init *)

\* Every file to be written has to be missing.
Check(t) ==
    /\ At(t, Step("check", "host"))
    /\ IF \E k \in Wanted(term[t].opts) : disk[term[t].dir][k] # Absent
       THEN ReturnError(t) ELSE GoOn(t)
    /\ UNCHANGED <<disk, named, saved, docker, volumes, pages, day0, commands, causes>>

Written(i, kind) ==
    CASE kind = "secrets" -> i.name
      [] kind = "config" -> IF i.vpp THEN "vpp" ELSE "linux"
      [] OTHER -> "text"

\* A file is written whatever is there now; `secrets' only when the
\* orchestrator has let the administrator in and issued the certificate.
Write(t, kind) ==
    /\ At(t, Step("write", kind))
    /\ disk' = [disk EXCEPT ![term[t].dir][kind] = Written(term[t].opts, kind)]
    /\ Because(If(named \notin {Absent, term[t].opts.name}, "other-name"))
    /\ GoOn(t)
    /\ UNCHANGED <<named, saved, docker, volumes, pages, day0, commands>>

WriteFails(t, kind) ==
    /\ At(t, Step("write", kind))
    /\ Because({"not-written"})
    /\ ReturnError(t)
    /\ UNCHANGED <<disk, named, saved, docker, volumes, pages, day0, commands>>

SaveEgvpnConfig(t) ==
    /\ At(t, Step("name", "host"))
    /\ named' = term[t].opts.name
    /\ GoOn(t)
    /\ UNCHANGED <<disk, saved, docker, volumes, pages, day0, commands, causes>>

\* The note may be lost: the file is emptied before it is written.
SaveEgvpnConfigFails(t) ==
    /\ At(t, Step("name", "host"))
    /\ named' \in {named, Absent}
    /\ Because({"not-written"})
    /\ ReturnError(t)
    /\ UNCHANGED <<disk, saved, docker, volumes, pages, day0, commands>>

\* The operator removes a file, as a refused `config init' tells him to.
RemoveFile(d, kind) ==
    /\ disk[d][kind] # Absent
    /\ Because({"removed"})
    /\ disk' = [disk EXCEPT ![d][kind] = Absent]
    /\ UNCHANGED <<named, saved, docker, volumes, pages, day0, term, last, commands>>

-----------------------------------------------------------------------------
(* start: verification *)

Needed(vpp) == {"config", "secrets"} \cup (IF vpp THEN {"vpp", "day0"} ELSE {})

Verify(t) ==
    /\ At(t, Step("verify", "host"))
    /\ LET files == disk[term[t].dir]
           vpp == files["config"] = "vpp"
       IN IF \A k \in Needed(vpp) : files[k] # Absent
          THEN GoOnWith(t, [term[t] EXCEPT !.vpp = vpp,
                                           !.todo = @ \o Starting(term[t].opts, vpp)])
          ELSE ReturnError(t)
    /\ UNCHANGED <<disk, named, saved, docker, volumes, pages, day0, commands, causes>>

\* WireGuard, docker or an image is missing.
NotInstalled(t) ==
    /\ At(t, Step("verify", "host"))
    /\ Because({"host"})
    /\ ReturnError(t)
    /\ UNCHANGED <<disk, named, saved, docker, volumes, pages, day0, commands>>

\* Variant: the number asked for is set whatever there is.
ReadPagesAndSet(t) ==
    /\ At(t, Step("read-pages", "host"))
    /\ Proceed(t, [term[t] EXCEPT !.todo = <<Step("write-pages", "host")>> \o Tail(@)])
    /\ UNCHANGED <<disk, named, saved, docker, volumes, pages, day0, commands, causes>>

\* More huge pages are asked for only if there are too few.
ReadPages(t) ==
    /\ At(t, Step("read-pages", "host"))
    /\ IF pages < term[t].opts.pages
       THEN Proceed(t, [term[t] EXCEPT !.todo = <<Step("write-pages", "host")>> \o Tail(@)])
       ELSE GoOn(t)
    /\ UNCHANGED <<disk, named, saved, docker, volumes, pages, day0, commands, causes>>

\* The kernel does not tell.
ReadPagesFails(t) ==
    /\ At(t, Step("read-pages", "host"))
    /\ Because({"kernel"})
    /\ ReturnError(t)
    /\ UNCHANGED <<disk, named, saved, docker, volumes, pages, day0, commands>>

\* The kernel sets the number asked for, or as many as it can find.
WritePages(t) ==
    /\ At(t, Step("write-pages", "host"))
    /\ \/ pages' = term[t].opts.pages /\ GoOn(t) /\ UNCHANGED causes
       \/ /\ pages' \in pages..(term[t].opts.pages - 1)
          /\ Because({"memory"}) /\ ReturnError(t)
    /\ UNCHANGED <<disk, named, saved, docker, volumes, day0, commands>>

\* Which options matter to the containers that run already.
SameOptions(o, d, c) == c.dir = d /\ c.opts.telemetry = o.telemetry /\ c.opts.pages = o.pages

SaveRestartOpts(t) ==
    /\ At(t, Step("save", "host"))
    /\ saved' = [opts |-> term[t].opts, dir |-> term[t].dir]
    /\ Because(If(\E c \in Container : docker[c] # Absent
                     /\ ~SameOptions(term[t].opts, term[t].dir, docker[c]), "saved-anew"))
    /\ GoOn(t)
    /\ UNCHANGED <<disk, named, docker, volumes, pages, day0, commands>>

\* The file is emptied before it is written.
SaveRestartOptsFails(t) ==
    /\ At(t, Step("save", "host"))
    /\ saved' \in {saved, Absent}
    /\ Because({"not-saved"})
    /\ ReturnError(t)
    /\ UNCHANGED <<disk, named, docker, volumes, pages, day0, commands>>

-----------------------------------------------------------------------------
(* start: containers *)

\* Files of the host a container mounts.
Mounted(c) ==
    CASE c = "vpp" -> {"vpp"}
      [] c = "telegraf" -> {}
      [] OTHER -> {"secrets", "config"}

Volumes(c, v) ==
    CASE c = "vpp" -> {"vpp"}
      [] c = "telegraf" -> {"telegraf"}
      [] c = "server" -> If(v.vpp, "vpp") \cup If(v.opts.telemetry, "telegraf")
      [] OTHER -> {}

\* `docker run' refuses a name in use, creates the volumes that are missing,
\* and a process whose files have gone ends at once. `name' is the name of
\* the server in its certificate, and in telemetry.
Run(t, c, name, starts) ==
    LET files == disk[term[t].dir]
        new == [up |-> starts /\ \A k \in Mounted(c) : files[k] # Absent, opts |-> term[t].opts,
                dir |-> term[t].dir, vpp |-> term[t].vpp, name |-> name]
    IN /\ docker[c] = Absent
       /\ docker' = [docker EXCEPT ![c] = new]
       /\ volumes' = volumes \cup Volumes(c, new)

\* It fails, perhaps with the container created.
RunFails(t, c) ==
    /\ At(t, Step("run", c))
    /\ \/ docker[c] # Absent /\ UNCHANGED <<docker, volumes, day0, causes>>
       \/ Because({"docker"}) /\ UNCHANGED <<docker, volumes, day0>>
       \/ /\ Because({"docker"})
          /\ Run(t, c, Absent, FALSE)
          /\ day0' = IF c = "vpp" THEN 0 ELSE day0
    /\ ReturnError(t)
    /\ UNCHANGED <<disk, named, saved, pages, commands>>

RunServerOrHealthcheck(t, c) ==
    /\ At(t, Step("run", c))
    /\ Run(t, c, disk[term[t].dir]["secrets"], TRUE)
    /\ GoOn(t)
    /\ UNCHANGED <<disk, named, saved, pages, day0, commands, causes>>

RunVpp(t) ==
    /\ At(t, Step("run", "vpp"))
    /\ Run(t, "vpp", Absent, TRUE)
    /\ day0' = 0
    /\ GoOn(t)
    /\ UNCHANGED <<disk, named, saved, pages, commands, causes>>

\* Without a path the configuration goes to a temporary file, whose path
\* replaces the one in the options and which is removed on return.
RunTelegraf(t) ==
    LET o == term[t].opts
        name == IF o.name = Absent THEN named ELSE o.name
        used == [term[t] EXCEPT !.opts.conf = "temporary", !.opts.name = name]
    IN /\ At(t, Step("run", "telegraf"))
       /\ Because(If(name = Absent, "no-name")
                  \cup If(o.name \notin {Absent, named}, "other-name"))
       /\ IF o.conf # "none" \/ name = Absent
          THEN ReturnError(t) /\ UNCHANGED <<docker, volumes>>
          ELSE Run(t, "telegraf", name, TRUE) /\ GoOnWith(t, used)
       /\ UNCHANGED <<disk, named, saved, pages, day0, commands>>

CreateVolume(t, v) ==
    /\ At(t, Step("volume", v))
    /\ \/ volumes' = volumes \cup {v} /\ GoOn(t) /\ UNCHANGED causes
       \/ Because({"docker"}) /\ ReturnError(t) /\ UNCHANGED volumes
    /\ UNCHANGED <<disk, named, saved, docker, pages, day0, commands>>

\* The connection to VPP is made in time, or not.
ConnectVpp(t) ==
    /\ At(t, Step("connect", "vpp"))
    /\ \/ /\ "vpp" \in volumes /\ IsUp("vpp")
          /\ GoOn(t) /\ UNCHANGED causes
       \/ /\ "vpp" \notin volumes \/ ~IsUp("vpp")
          /\ ReturnError(t) /\ UNCHANGED causes
       \/ Because({"timeout"}) /\ ReturnError(t)
    /\ UNCHANGED <<disk, named, saved, docker, volumes, pages, day0, commands>>

\* Variant: a line VPP refuses is passed over.
ApplyLineOrNot(t) ==
    /\ At(t, Step("line", "vpp"))
    /\ IF IsUp("vpp")
       THEN \/ day0' = (IF day0 < Lines THEN day0 + 1 ELSE day0) /\ GoOn(t) /\ UNCHANGED causes
            \/ Because({"line"}) /\ GoOn(t) /\ UNCHANGED day0
       ELSE ReturnError(t) /\ UNCHANGED <<day0, causes>>
    /\ UNCHANGED <<disk, named, saved, docker, volumes, pages, commands>>

ApplyLine(t) ==
    /\ At(t, Step("line", "vpp"))
    /\ IF IsUp("vpp")
       THEN \/ day0' = (IF day0 < Lines THEN day0 + 1 ELSE day0) /\ GoOn(t) /\ UNCHANGED causes
            \/ Because({"line"}) /\ ReturnError(t) /\ UNCHANGED day0
       ELSE ReturnError(t) /\ UNCHANGED <<day0, causes>>
    /\ UNCHANGED <<disk, named, saved, docker, volumes, pages, commands>>

\* The file cannot be read on: the loop ends and nobody asks why.
ScanFails(t) ==
    LET todo == term[t].todo
        line == Step("line", "vpp")
    IN /\ At(t, line)
       /\ Because({"unread"})
       /\ \E n \in 1..Len(todo) :
             /\ \A i \in 1..n : todo[i] = line
             /\ n < Len(todo) => todo[n + 1] # line
             /\ Proceed(t, [term[t] EXCEPT !.todo = SubSeq(@, n + 1, Len(@))])
       /\ UNCHANGED <<disk, named, saved, docker, volumes, pages, day0, commands>>

\* A container ends by itself.
Exit(c) ==
    /\ IsUp(c)
    /\ Because({"ended"})
    /\ docker' = [docker EXCEPT ![c].up = FALSE]
    /\ UNCHANGED <<disk, named, saved, volumes, pages, day0, term, last, commands>>

-----------------------------------------------------------------------------
(* stop *)

StopContainer(t, c) ==
    /\ At(t, Step("stop", c))
    /\ \/ docker' = (IF docker[c] = Absent THEN docker ELSE [docker EXCEPT ![c].up = FALSE])
          /\ UNCHANGED causes
       \/ docker[c] # Absent /\ Because({"docker"}) /\ UNCHANGED docker
    /\ GoOn(t)
    /\ UNCHANGED <<disk, named, saved, volumes, pages, day0, commands>>

\* `docker rm' refuses a container that is running.
RemoveContainer(t, c) ==
    /\ At(t, Step("rm", c))
    /\ \/ docker' = (IF docker[c] # Absent /\ ~docker[c].up
                     THEN [docker EXCEPT ![c] = Absent] ELSE docker)
          /\ UNCHANGED causes
       \/ docker[c] # Absent /\ Because({"docker"}) /\ UNCHANGED docker
    /\ GoOn(t)
    /\ UNCHANGED <<disk, named, saved, volumes, pages, day0, commands>>

\* A volume that a container, running or not, has mounted stays.
RemoveVolume(t, v) ==
    /\ At(t, Step("rm-volume", v))
    /\ \/ volumes' = (IF \E c \in Container : docker[c] # Absent /\ v \in Volumes(c, docker[c])
                      THEN volumes ELSE volumes \ {v})
          /\ UNCHANGED causes
       \/ v \in volumes /\ Because({"docker"}) /\ UNCHANGED volumes
    /\ GoOn(t)
    /\ UNCHANGED <<disk, named, saved, docker, pages, day0, commands>>

-----------------------------------------------------------------------------
Typed ==
    \E t \in Terminal :
        \/ \E s \in Service : Stop(t, s)
        \/ \E cwd \in Dir :
              \/ \E i \in InitOptions : ConfigInit(t, cwd, i)
              \/ \E o \in StartOptions : Start(t, cwd, o)
              \/ \E w \in RestartOptions : RestartContainers(t, cwd, w)

InitStep(t) ==
    \/ Check(t) \/ SaveEgvpnConfig(t) \/ SaveEgvpnConfigFails(t)
    \/ \E k \in Kind : Write(t, k) \/ WriteFails(t, k)

StartStep(t) ==
    \/ Verify(t) \/ NotInstalled(t) \/ ReadPages(t) \/ ReadPagesFails(t) \/ WritePages(t)
    \/ SaveRestartOpts(t) \/ SaveRestartOptsFails(t)
    \/ \E c \in {"server", "healthcheck"} : RunServerOrHealthcheck(t, c)
    \/ RunVpp(t) \/ RunTelegraf(t)
    \/ \E c \in Container : RunFails(t, c)
    \/ \E v \in {"telegraf", "vpp"} : CreateVolume(t, v)
    \/ ConnectVpp(t) \/ ApplyLine(t) \/ ScanFails(t)

StopStep(t) ==
    \/ \E c \in Container : StopContainer(t, c) \/ RemoveContainer(t, c)
    \/ \E v \in {"telegraf", "vpp"} : RemoveVolume(t, v)

HostNext ==
    \/ Typed
    \/ \E t \in Terminal : Interrupt(t) \/ InitStep(t) \/ StartStep(t) \/ StopStep(t)
    \/ \E d \in Dir, k \in Kind : RemoveFile(d, k)
    \/ \E c \in Container : Exit(c)

HostSpec == HostInit /\ [][HostNext]_host

-----------------------------------------------------------------------------
Unless(C) == causes \cap C = {}
Succeeded(cmds) == last # Absent /\ last.cmd \in cmds /\ last.ok

(***************************************************************************)
(* A restart stops first and verifies after, so a restart that fails has   *)
(* taken a working server down. It fails only for a reason outside the     *)
(* tool: whatever starts, refused starts, initialisations and partial stops *)
(* came before, the options saved can be used again, the stop has freed    *)
(* every name `docker run' will take, and the kernel still has the pages.  *)
(***************************************************************************)
RestartSucceeds ==
    last # Absent /\ last.cmd = "restart" /\ ~last.ok => causes # {}

(***************************************************************************)
(* What `restart' will use is what the containers were started with, even  *)
(* when the start that created them failed halfway or was interrupted,     *)
(* unless a later start with other options saved its own, be it refused    *)
(* because the containers exist or for the other service only, or lost the *)
(* saved ones in a write that failed.                                      *)
(***************************************************************************)
SavedIsRunning ==
    Unless({"saved-anew", "not-saved", "two-runs"}) =>
        \A c \in Container :
            docker[c] # Absent => saved # Absent /\ SameOptions(saved.opts, saved.dir, docker[c])

(***************************************************************************)
(* A command that succeeded has started all it was asked for, and VPP has  *)
(* got its whole day0 configuration, which the server's tunnels run over,  *)
(* unless the configuration could not be read to its end: the command does *)
(* not notice that.                                                        *)
(***************************************************************************)
SuccessMeansUp ==
    Succeeded({"start", "restart"}) /\ Unless({"ended", "removed", "unread", "two-runs"}) =>
        /\ last.opts.service # "healthcheck" =>
             /\ IsUp("server")
             /\ last.vpp => IsUp("vpp") /\ day0 = Lines
             /\ last.opts.telemetry => IsUp("telegraf")
        /\ last.opts.service # "server" => IsUp("healthcheck")

(***************************************************************************)
(* A stop leaves none of its containers and volumes, whatever commands     *)
(* failed or were interrupted before it.                                   *)
(***************************************************************************)
StopLeavesNothing ==
    Succeeded({"stop"}) /\ Unless({"docker", "two-runs"}) =>
        /\ last.opts.service # "healthcheck" =>
             /\ docker["server"] = Absent /\ docker["vpp"] = Absent /\ docker["telegraf"] = Absent
             /\ volumes = {}
        /\ last.opts.service # "server" => docker["healthcheck"] = Absent

(***************************************************************************)
(* VPP keeps the huge pages it was started with: no later command, not one *)
(* that is refused because VPP is running, gives any back to the kernel.   *)
(* Two commands at once may: one sets the number it decided on before the  *)
(* other asked for more.                                                   *)
(***************************************************************************)
VppKeepsItsPages ==
    IsUp("vpp") /\ Unless({"two-runs"}) =>
        pages >= docker["vpp"].opts.pages

(***************************************************************************)
(* Telemetry carries the name of the server that sends it, the one in its  *)
(* certificate: the tool's own note of the name is about the files it will *)
(* be used with. It keeps one for the host, so an initialisation for       *)
(* another name, in whatever directory, or one that does not reach its end *)
(* parts the two, and so does another name among the options of a start.   *)
(***************************************************************************)
TelemetryNamesTheServer ==
    IsUp("telegraf") /\ IsUp("server")
    /\ Unless({"other-name", "interrupted", "not-written", "removed", "two-runs",
               "two-inits"}) =>
        docker["telegraf"].name = docker["server"].name

(***************************************************************************)
(* What is on the host fits together: the types, the options saved and the *)
(* containers, the huge pages and the names (start.go, config.go).         *)
(***************************************************************************)
HostSound ==
    /\ HostTypeOK
    /\ SavedIsRunning
    /\ VppKeepsItsPages
    /\ TelemetryNamesTheServer
==============================================================================
