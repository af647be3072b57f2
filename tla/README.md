# Bananian installer: TLA+ models, checks and proofs

The repository builds and installs Bananian, a Debian for KaiOS phones. Its
program is a Makefile and a handful of shell scripts; what is hard about it is
not computation but what is left behind when one of many external programs
fails, a build is interrupted, `make` runs jobs in parallel, a cable is pulled,
pipelines overlap, or a documented sequence of commands is repeated.

## The system and its parts

| Part | Source | Module | Status |
|---|---|---|---|
| Build graph, invocations of make, `clean`, `package-%` | `Makefile` | `Makefile`, `HostBuild`; seen from outside: `Build` | modelled |
| Preflight checks, download of prebuilt packages | `scripts/check` | `HostBuild` | modelled |
| Boot image | `Makefile`, `scripts/pack-initrd`, `bootimg.cfg` | `HostBuild` | partly (image layout is data) |
| Debian tree and archive | `Makefile` (`debroot`, `copy-files`, `debroot.tar`) | `HostBuild` | modelled |
| QEMU bootstrap on the build machine | `scripts/qemubootstrap` | `HostBuild` | modelled |
| Installation over adb | `Makefile` (`install-to-device`), `install-bootimage.sh`, `unpack-debian.sh` | `Device` | partly (options `-d`, `-p`) |
| Bootstrap on the phone, shells entered by hand | `bootstrap-debian.sh`, `run-in-debian.sh` | `Device` | partly (options `-d`, `-p`) |
| Boot | `ramdisk/init` | `Device` | modelled |
| The installer as a whole | `Makefile` (`install-to-device`) | `System`; seen from outside: `Installer`, `Outputs` | modelled |
| CI and release | `.gitlab-ci.yml` | `Release` | modelled |
| Kernel configuration, modules, headers | `kernel-config`, `modules*`, `sysincludes`, `KERNEL.md` | none | data, vendored output |
| Bananui protocol | `docs/Bananui-Protocol.html` | none | documentation; the server is in another repository |
| busybox, adbd | `ramdisk/sbin` | none | prebuilt binaries |

The build machine makes `boot.img` and `debroot.tar`. With `USE_QEMU=1` it also
runs Debian's second stage in a chroot, with its own /dev, /proc and /sys bound
into the tree. `install-to-device` first remakes `all`, then pushes the two
files and the scripts, flashes the recovery partition, extracts the archive
onto the card and, without QEMU, bootstraps it there. At boot the ramdisk's
`init` mounts the card and hands over to Debian. A push to the branch stable
runs a pipeline that builds the packages and publishes them.

The modules build on each other like this:

    Makefile -> HostBuild ==implements==> Build
                    |                       |
                 System ===implements==> Installer            Release
                    |                       |
                    +--- Device <-----------+
                           |
                        Outputs

## HostBuild: the build machine

`Makefile.tla` is the rule graph: targets, prerequisites that are targets
(`Prereq`), prerequisites no rule makes (`SrcOf`), and the order of a serial
walk (`Pos`). `HostBuild.tla` extends it with state and steps.

| State | Stands for |
|---|---|
| `tools`, `sources` | installed programs; the kernel and package sources the user supplied |
| `ver`, `stamp` | per source directory, its content and its content when its mtime last changed |
| `art`, `outdated` | initrd.img, boot.img and the .debs: there, whole, made from which version; those older than a prerequisite |
| `debroot`, `tar` | the parts of `debroot/`; the archive |
| `mnt`, `wiped` | bind mounts under debroot; whether an `rm -rf` went through one |
| `phase`, `qemu`, `pc` | the running make and where each recipe stands |
| `mishap`, `fault`, `prev`, `result` | history variables the properties use; no guard reads them |

Each recipe is cut at the points where a program can fail, a signal arrive or
another job run. `Visit` and `NoRule` are make's decision about a target;
`CheckPackages`, `CheckTools`, `PackInitrd`, `MakeBootImg`, `BuildDeb`,
`Debootstrap`, `CopyFiles`, `QemuMount`, `QemuChroot`, `QemuUmount`, `MakeTar`
and `Install` are the recipes and the scripts they call. `Signal` is INT, HUP
or KILL (a power cut). A program can fail when its target is in `Flaky`.

Points of the code that the model keeps although they are easy to miss:

- a recipe guarded by `[ ! -f ... ] &&` fails when the file is there;
- `|| rm -rf debroot` makes a failed debootstrap a *successful* recipe;
- `copy-files` does not depend on `debroot`, so with `-j` they run together;
- `(cd debroot; tar ...)` goes on when there is no debroot;
- the status of a pipeline or loop is that of its last command;
- an interrupted make deletes the files it was making but no directory;
- `qemubootstrap` traps INT and TERM; HUP and KILL skip its EXIT trap;
- the mtime of a directory does not change when a file in it is edited.

Properties: `SingleMount`, `HostUntouched`, `NoHostFilesShipped` (mounts);
`TarballComplete`, `PushedTarIsCurrent` (archive); `ImageWhole` (boot image);
`FreshOutputs` (up-to-date outputs); `FailureExplained` (why a build fails when
no program did); `OnceOnly`, `SourcesNeeded` (when one cannot succeed);
`MakeEnds` (termination) and the two facts it comes from, `OnlyForward` (a
recipe is never taken back: `Left` counts down) and `NeverStuck` (make never
waits for what nobody makes); `Implements` (see below). The exceptions they
name, values of `mishap`, are what the code does not protect against: a
bootstrap whose mounts were left ("leak"), an interrupted debootstrap whose
directory stays ("cut"), a package file cut short ("torn"), an image cut short
by a failing program or KILL ("image"), a failed second stage ("second").

## Build: what the build machine promises

`Build.tla` is the abstract specification of a make: a stage (idle, making,
ready), the outputs, and whether a mishap excuses them. Its content is in two
places: `Finish`, the only way to "ready", needs outputs that are `Good`
(module `Outputs`: what the phone's scripts rely on in each mode), or an excuse,
or that there is no `debroot.tar` at all; and from "ready" on nothing but the
end of make changes anything.

`HostBuild` implements it. The refinement mapping is instance `B` in
`HostBuild`: the stage is "ready" when the target `all` is done; the outputs are
what is there of `debroot.tar` and `boot.img`; the excuse is any mishap but
"leak". `Implements` holds for every `-j`. The missing archive is the price of
that: under `-j2` a make can succeed without a `debroot.tar` (run `announced`),
and the phone's side then relies on the first `adb push` failing.

## Device: the phone

| State | Stands for |
|---|---|
| `recovery` | the recovery partition: stock, half written, written |
| `dir`, `over` | /data/debian exists; the card is mounted on it |
| `binds`, `hand` | how often the other mounts were made, and how often of that by hand |
| `sd`, `own` | the tree on the card, and the one in the directory itself that a mount hides |
| `pushed` | the latest debroot.tar and boot.img in /data |
| `proc` | the script adb waits for ("fg"), and one that outlived its connection or was started by hand ("bg") |
| `line`, `ending` | the line of install-to-device's recipe, and how the latest one ended |
| `boot`, `log` | outcome of the latest boot from the recovery partition; whether it logged `Mounted root` |
| `unseen` | history variable: card not mounted, second stage failed, script orphaned, bad archive pushed |

`Push`, `AdbReturn` and `Remove` are the recipe. `Flash` is
`install-bootimage.sh`; `MakeDir`, `StartTar`, `EndTar` are `unpack-debian.sh`;
`Enter`, `SecondStage`, `Setup` are `run-in-debian.sh` with the command of
`bootstrap-debian.sh`; `StartShell`, `Enter`, `EndShell` are `run-in-debian.sh`
by hand; `BootRecovery` is `ramdisk/init`. `Disconnect` pulls the cable at any
step; the script is hung up or runs on. `Unmount`, `Delete` and `Format` are
what the script's messages ask of the user. Old versions of adb do not return
the status of a remote command: `AdbStatus` says which kind this is.

Properties: `InstalledOnCard`, `BootsAfterInstall` (what success of
install-to-device means after any number of failed and repeated attempts),
`UnpackAlone`, `BindsOnce` (a retry does not work in a tree an orphaned script
still uses, nor mounts twice), `InstallForward` (no line of the recipe and no
step of a script is taken twice in one installation), `LogComplete` (what the
boot log can tell: the line `Mounted root` is printed in any case,
ramdisk/init:10, but is missing whenever the log's own failure kept the root
from being mounted).

## Installer and System: both machines together

`Installer` composes `Build` and `Device` in the recipe of install-to-device.
`Deliver` starts that recipe when the build is ready, `Hand` pushes the build's
present outputs, `Joined` notes in `recipe` how it ends, and make exits with
that. `Good` is here not an assumption about what is pushed, but follows from
`Finish`. `EndToEnd` is the promise to the user: after a successful make
install-to-device, without one of the named mishaps on either machine, the card
holds a Debian that is set up and every boot that can mount it starts it.
`InStep` says that the outputs do not change under the scripts, that make waits
for them and exits with their status; `InstallExits` that every installation
ends.

`System` composes `HostBuild` itself, recipe by recipe, with `Device`. What
`HostBuild` does in the one step `Install` is here as long as the phone takes:
`Reach` is make at the first line, `Return` the step of make when the recipe
ends, with the recipe's status, and `Interrupt` a signal while adb is at work,
which the phone sees as a lost connection. The variables of `Build` are what
`Stage`, `Out` and `Excused` show of the build machine (`View`). `Composed` says
that all of this is a behaviour of `Installer`, so `EndToEnd` and `InStep` are
about the Makefile and the scripts and not only about `Build`. `System` needs
"install-to-device" in `Flaky`: HostBuild's `Install` has to be able to fail
when a line of the recipe does.

## Release: the pipelines

| State | Stands for |
|---|---|
| `count`, `tag`, `ver` | pushes to stable; the newest tag; the version each pipeline sees |
| `files`, `job` | the artifacts of each build job; where each job stands |
| `site`, `registry` | what pages and packages have published |
| `unseen`, `retries` | history: pipelines with a refused upload; jobs retried |

`Build`, `Pages` and `Packages` are the three jobs. The two uploads are separate
steps, so pipelines overlap between them; `curl` without `--fail` succeeds when
the registry refuses a file. `RegistryHonest` and `Released` say what the
registry holds, `PipelineEnds` that every pipeline ends. `Pages` can only fail:
the second file it copies has a name that no build job leaves
(.gitlab-ci.yml:25), which is the subject of run `site`. The upload at line 38
puts device-startup under a file name that begins with bananui-base; it is still
in the package device-startup, and no text says what the file is called there.

## Runs

| Run | Checks | Instance |
|---|---|---|
| `serial` | all invariants of `HostBuild` but `NeverStuck`; `Implements` | one job, everything may fail, INT/HUP/KILL, both modes, every subset of the inputs, six sets of programs; 2.3 million states |
| `fresh` | `FreshOutputs` | one edit to each of two directories, INT/KILL |
| `parallel` | `TarballComplete`, `SingleMount`, `HostUntouched`, `NeverStuck`, `MakeEnds`, `OnlyForward`, `Implements` | `-j2`, the tree's targets may fail, INT/HUP; 0.7 million states |
| `device` | all properties of `Device` | status returned, orphans, shells by hand, everything may fail, good archives of both modes; 4.8 million states |
| `system` | `EndToEnd`, `InStep`, `InstallExits`, `Composed` | one job, USE_QEMU, INT, lost connections, restarts; 0.35 million states |
| `release` | `RegistryHonest`, `Released`, `PipelineEnds` | three pushes, one retry, build and uploads may fail |

Each run repeats builds or installations without a bound on their number. The
bounds are: `MaxEdits = 1`, enough for one output to be older than its source,
which is all make compares; `Jobs = 2`, because the largest set of recipes that
share `debroot` and can run together has two members, `debroot` and
`copy-files`; `MaxBinds = 2` in `device`, one more than `BindsOnce` allows, and
1 in `system`, where mounts are not counted; one script besides the one adb
waits for; `MaxPipes = 3`, two pipelines of one version and one of another;
`MaxRetries = 1`. In `parallel` only the targets that touch `debroot` may fail:
the images and packages share no state with them. KILL is left to the serial
runs, where it truncates files in every state. In `system` the build is
interrupted, cleaned and repeated, but only install-to-device fails, and on the
phone only adb fails and no script is orphaned: the other failures are in the
runs of each machine. The archives that a mishap of the build excuses are there
because INT cuts a debootstrap short; the proofs have none of these limits.
`release` does not check for deadlock: when all pipelines have ended and the
bounds are reached, nothing is left to do.

Six further runs each state one sentence of the repository and end in a
counterexample:

| Run | Says | What happens |
|---|---|---|
| `again` | README.md:27, :44: make, then make install-to-device | the second make stops in `copy-files` (Makefile:55) |
| `prebuilt` | README.md:11: prebuilt packages are used without the sources | `No rule to make target 'bananui-base'` (Makefile:32) |
| `announced` | Makefile:74: now the README's commands can be run | under `-j2` there may be no debroot.tar |
| `install_boots` | README.md:44: installs automatically | unpack-debian.sh:26 ignores a card it cannot mount |
| `not_empty` | unpack-debian.sh:30: partition not empty | the test is always false (line 28) |
| `site` | README.md:11-12: the download may fail if the version is too old | pages always fails (.gitlab-ci.yml:25), so it fails for the newest, too |

Further places where a failure goes unseen are in the models as mishaps: a
missing or failing cpio (pack-initrd:3; not among the programs `scripts/check`
looks for), a download that fails before the last one (check:62), a failing
second stage (qemubootstrap:12, bootstrap-debian.sh:3), and an upload that the
registry refuses (.gitlab-ci.yml:37).

## Fairness

Safety needs none. `MakeEnds` assumes weak fairness of make with its recipes:
every external program returns. `InstallExits` assumes weak fairness of make,
its recipes and the script it waits for taken together, that is, a phone that is
connected (`adb wait-for-device` waits as long as it takes) and programs that
return.
`PipelineEnds` assumes weak fairness of each pipeline: GitLab has a runner for
it and jobs return. Nothing is assumed of the user, signals, the cable,
orphaned scripts or shells, pushes or retries.

## Proofs

Every safety property that a passing run checks, and every refinement, is proved
for every value of the constants: every `-j`, every set of failing programs,
signals, tools, sources and build outputs, any number of edits, shells,
pipelines and retries. The only assumptions are the types of the constants
(`HostAssumption`, `DeviceAssumption`, `ReleaseAssumption`) and, for `System`,
`SystemAssumption`. The inductive invariants below were also checked with TLC,
on the instances of the runs.

| Module | Theorems | Inductive invariant |
|---|---|---|
| `HostBuildProofs` | `TypeCorrect`, `MountsNeverStack`, `HostSafe`, `ArchiveClean` | `MountInv` |
| `BuildProofs` | `ArchiveComplete`, `BootImageWhole`, `NoStaleTar` | `BuildInv` |
| `OutcomeProofs` | `FailuresExplained` | `Explained` |
| | `OutputsFresh` | `FreshInv` |
| | `NoBuildWithoutSources`, `MakeGoesForward`, `MakeNeverWaits` | `Walking` |
| | `MakeSucceedsOnce` | `Spent` |
| `RefinementProofs` | `MakeImplements` | those of `BuildProofs` |
| `DeviceProofs` | `DeviceTypeCorrect`, `InstallationComplete`, `InstallationBoots`, `BoundOnce`, `BootLogged`, `ExtractsAlone`, `InstallGoesForward` | `DevInv` |
| `InstallerProofs` | `SourcesToPhone`, `MakeWaits` | `IInv` |
| `SystemProofs` | `SystemBuilds`, `SystemInstalls`, `MakeToPhone`, `MakeAndPhoneInStep`, `PhoneInSystem` | `SysInv` |
| `ReleaseProofs` | `HonestRegistry`, `ReleaseComplete` | `RInv` |

**Mounts.** `qemubootstrap` itself never looks whether its mounts are already
there; that it does not stack them follows from four facts about other recipes:

- `Ordered`: an idle make runs no recipe; while qemu-install runs, debroot and
  copy-files are done, and while debroot.tar runs, qemu-install is;
- `Guarded`: nothing is mounted under a debroot that `copy-files` would accept
  (one with a skeleton and no wpa_supplicant.conf);
- `Accepted`: once `copy-files` is past its guard nothing is mounted until the
  bootstrap, and the recipe of debroot, in another job, cannot put a fresh tree
  in the place of the one that was accepted;
- `Leaked`: a mount outside a bootstrap is one that was left behind and
  recorded as such; with it the three properties themselves.

**Archive and image.** A recipe that has begun has all its prerequisites done,
and with one job everything before it in the walk (`Sequenced`). A debroot with
a skeleton has the whole first stage (`Sound`); what copy-files and the chroot
add is there from the step on that adds it (`Copied`, `Bootstrapped`), unless
the recipe of debroot removed the whole tree in another job; the archive equals
debroot from then on (`Archived`); an image that is there is whole (`Imaged`).

**Failures.** `Rooted`: a debroot that is there has a skeleton unless something
was left behind. `Stopped`: a make that is failing with no program having failed
has one of the three reasons, and no recipe is still running.

**Freshness.** `Lasting`: a package or initrd.img that make takes for up to date
is no older than its directory, unless it was downloaded, and a boot.img up to
date with such an initrd.img is no older than the ramdisk. `Made`: what this
make is done with is up to date, so a make that succeeds has nothing old left.
The two need `Dated`: sources that are not there have not been edited, so a
download over them hides no edit.

**Going forward.** `Onwards` is the shape of every step of a recipe: it goes to
a label with a smaller `Left`, or fails. All recipes are shown to have it one by
one (`RecipeOnwards`), and `Visit` and `NoRule` too (`WalkOnwards`);
`MakeGoesForward`, and that the sources of whatever was begun are there
(`Walking`), are then one argument for all recipes. A signal needs to know that
qemubootstrap is in one of its own steps, which is in `Walking` as well.
`MakeNeverWaits`: if nothing is at work or failing, the first target of the walk
that is not done has all its prerequisites before it, so it can be started.
`Left` sums to at most a constant, so that a make takes a bounded number of
steps, signals in an unmount aside, and none of its states is a dead end: this is
the safety half of `MakeEnds`.

**Once only.** `Spent`: a make that succeeded left a debroot with a
wpa_supplicant.conf, and one that follows a success without make clean stays in
front of `copy-files` or stops in it; the recipe of debroot, which could remove
the tree, does not run because the directory is there.

**Refinement.** Initial states map to initial states; every step maps to a step
of `Build` or a stutter. Most steps are `Produce`. The step of the target `all`
is `Finish`, and needs `BuildInv` for the outputs being good; steps after it
leave the outputs alone because all that could write them is a prerequisite of
`all` and done, with any number of jobs.

**Phone.** `InLine` ties the script to the line of the recipe. `Claimed` is the
reason two scripts keep apart: whoever made /data/debian holds a claim until it
has bound its mounts, there is one claim at a time, and whoever is at work in
the tree has the directory. `Alone`, `Supplied`: without an orphan only a shell
runs besides the installation, and the recipe works on a good archive. `Course`
says what the recovery partition and the tree hold after each step of
the scripts (`Flashed`, `Unpacked`, `InChain`, `SetUp`). `InstallGoesForward`
is the same count-down as on the build machine, for lines (`LinesLeft`) and the
steps of a line's script (`StepsLeft`); it needs `InLine`.

**Installer.** The phone's invariant holds with any outputs pushed; in addition,
what is ready is good or excused, and a bad archive reached the phone only with
`blame`.

**System.** `SystemBuilds`: a step of the composition is one of `HostBuild` or
leaves its variables alone, so every theorem about `HostBuild` holds in the
composition. `SystemInstalls`: it is also one of `Installer` or a stutter. For
that `Linked` says where make stands while the recipe runs and after it: at
install-to-device while it is busy, with every target done once it succeeded,
failing once it failed. `MakeToPhone` and `MakeAndPhoneInStep` follow from this
and the theorems about `Installer`; `PhoneInSystem` carries over what is proved
of `Device`, where the pushed archives are a constant, to a phone that gets
whatever make has built.

**Release.** Types, `RegistryHonest`, and `Uploaded`: a packages job past an
upload that was not refused has that package of its version in the registry.

Only model-checked: the three liveness properties `MakeEnds`, `InstallExits` and
`PipelineEnds`. Temporal reasoning under weak fairness needs ENABLED, which is
beyond the proof system's backends; for the first two the count-downs above are
what their proofs would rest on.

## Not modelled

Options of the phone's scripts: `-p` names another partition, `-d` is parsed and
then ignored (unpack-debian.sh:8, run-in-debian.sh:5); no caller passes either.
What a user does inside a shell entered by hand; deleting /data/debian while the
bind mounts are still in place; the contents of packages and images; disk space;
two makes at once in one directory; the target `getversion`, which only prints;
the copy of `docs` to the web site, which is published or not with the packages.

By lines, nearly all of the repository is `sysincludes`: some 560,000 lines of C
headers that none of its programs compiles or copies. They hold no behaviour to
model. The programs are the Makefile, the scripts, `ramdisk/init` and
`.gitlab-ci.yml`, a few hundred lines, and every operation of these that changes
state is in a module, with the exceptions named above. The server, the startup
daemon and the kernel are in other repositories.
