------------------------------ MODULE Release -------------------------------
(***************************************************************************)
(* The pipelines of .gitlab-ci.yml that run for pushes to stable: the      *)
(* build job, then pages and packages side by side; the web site and the   *)
(* package registry they publish to.  Pipelines of several pushes may run  *)
(* at once.  The runner and GitLab are modelled from how the file uses     *)
(* them.                                                                   *)
(***************************************************************************)
EXTENDS Integers

CONSTANTS MaxPipes,   \* bound on the pushes to stable
          MaxRetries, \* bound on the jobs retried
          Flaky       \* the jobs whose commands may fail at any time

Pkg == {"bananui-base", "device-startup"}
Job == {"build", "pages", "packages"}
Pipe == 1..MaxPipes

ASSUME ReleaseAssumption == /\ MaxPipes \in Nat /\ MaxRetries \in Nat
                            /\ Flaky \subseteq Job

VARIABLES
    count, tag,   \* the pipelines so far; the newest tag on stable
    ver,          \* what git describe says in each pipeline
    files,        \* the packages each pipeline's build job left as artifacts
    job,          \* where each job of each pipeline stands
    site,         \* the files in packages-latest on the web site
    registry,     \* per package and version: the pipeline whose file is there
    unseen,       \* pipelines with an upload that the registry refused
    retries       \* how many jobs were retried

vars == <<count, tag, ver, files, job, site, registry, unseen, retries>>

Version == 0..MaxPipes
-----------------------------------------------------------------------------
Init == /\ count = 0 /\ tag = 0 /\ ver = [n \in Pipe |-> 0]
        /\ files = [n \in Pipe |-> {}]
        /\ job = [n \in Pipe |-> [j \in Job |-> "none"]]
        /\ site = {} /\ registry = [k \in Pkg \X Version |-> 0]
        /\ unseen = {} /\ retries = 0

Go(n, j, l) == job' = [job EXCEPT ![n][j] = l]

\* A push to stable, with a new tag or without.
PushStable(bump) ==
    /\ count < MaxPipes /\ count' = count + 1
    /\ tag' = IF bump THEN tag + 1 ELSE tag
    /\ ver' = [ver EXCEPT ![count + 1] = tag']
    /\ job' = [job EXCEPT ![count + 1] = [j \in Job |-> "wait"]]
    /\ UNCHANGED <<files, site, registry, unseen, retries>>

\* The build job: make, and make getversion into version.env.
Build(n) ==
    /\ job[n]["build"] = "wait"
    /\ \/ files' = [files EXCEPT ![n] = Pkg] /\ Go(n, "build", "ok")
       \/ "build" \in Flaky /\ Go(n, "build", "failed") /\ UNCHANGED files
    /\ UNCHANGED <<count, tag, ver, site, registry, unseen, retries>>

\* Mutant: packages waits for pages.
DeployableInTurn(n, j) == /\ job[n]["build"] = "ok" /\ job[n][j] = "wait"
                          /\ j = "packages" => job[n]["pages"] = "ok"

\* The stage deploy comes after the stage build.
Deployable(n, j) == job[n]["build"] = "ok" /\ job[n][j] = "wait"

\* What pages copies: the second name is not one the build job leaves.
PagesFiles == {"bananui-base", "device_startup"}

\* The pages job: cp of each package; GitLab replaces the site at its end.
Pages(n) ==
    /\ Deployable(n, "pages")
    /\ IF PagesFiles \subseteq files[n]
       THEN site' = {<<p, ver[n]>> : p \in PagesFiles} /\ Go(n, "pages", "ok")
       ELSE UNCHANGED site /\ Go(n, "pages", "failed")
    /\ UNCHANGED <<count, tag, ver, files, registry, unseen, retries>>

\* Mutants: both files go to one package; the version is the newest tag's.
OnePackage(p, n) == <<"bananui-base", ver[n]>>
NewestTag(p, n) == <<p, tag>>

\* The address of an upload: the package, and PACKAGE_VERSION as the build
\* job of the same pipeline recorded it.  The file name, which calls both
\* packages bananui-base, tells no two addresses apart and is left out.
Address(p, n) == <<p, ver[n]>>

\* curl --upload-file of package p, then the job goes on to l.  Without
\* --fail, curl succeeds when the server refuses the file.
Upload(n, p, l) ==
    \/ /\ p \in files[n] /\ Go(n, "packages", l)
       /\ registry' = [registry EXCEPT ![Address(p, n)] = n] /\ UNCHANGED unseen
    \/ /\ p \in files[n] /\ Go(n, "packages", l) /\ "packages" \in Flaky
       /\ unseen' = unseen \cup {n} /\ UNCHANGED registry
    \/ /\ p \notin files[n] \/ "packages" \in Flaky
       /\ Go(n, "packages", "failed") /\ UNCHANGED <<registry, unseen>>

Packages(n) ==
    /\ \/ Deployable(n, "packages") /\ Upload(n, "bananui-base", "second")
       \/ job[n]["packages"] = "second" /\ Upload(n, "device-startup", "ok")
    /\ UNCHANGED <<count, tag, ver, files, site, retries>>

\* The user has GitLab run a failed job again.
Retry(n, j) ==
    /\ job[n][j] = "failed" /\ retries < MaxRetries /\ retries' = retries + 1
    /\ Go(n, j, "wait")
    /\ UNCHANGED <<count, tag, ver, files, site, registry, unseen>>

Run(n) == Build(n) \/ Pages(n) \/ Packages(n)
Next == \/ \E bump \in BOOLEAN : PushStable(bump)
        \/ \E n \in Pipe : Run(n)
        \/ \E n \in Pipe, j \in Job : Retry(n, j)

Spec == Init /\ [][Next]_vars
FairSpec == Spec /\ \A n \in Pipe : WF_vars(Run(n))
-----------------------------------------------------------------------------
\* What the registry holds under a version was built from a commit with that
\* version's tag, by a build job that had succeeded, however the jobs of
\* several pipelines interleave, fail and are retried.
RegistryHonest ==
    \A k \in Pkg \X Version : registry[k] # 0 =>
        /\ ver[registry[k]] = k[2]
        /\ k[1] \in files[registry[k]]

\* Once a packages job has succeeded and no upload was refused, both packages
\* of its version are in the registry; and they are its own, unless another
\* push had the same tag.
Released ==
    \A n \in Pipe : job[n]["packages"] = "ok" /\ n \notin unseen =>
        \A p \in Pkg : /\ registry[<<p, ver[n]>>] # 0
                       /\ (\A m \in 1..count : m # n => ver[m] # ver[n])
                          => registry[<<p, ver[n]>>] = n

\* Every pipeline comes to its end: its build fails, or all its jobs finish.
Finished(n) == \/ job[n]["build"] = "failed"
               \/ \A j \in Job : job[n][j] \in {"ok", "failed"}
PipelineEnds == \A n \in Pipe : job[n]["build"] = "wait" ~> Finished(n)
-----------------------------------------------------------------------------
(* What the repository's texts say and the code does not do. *)

\* README: prebuilt packages are downloaded, which `may fail if the version is
\* too old'.  Once the latest pipeline is done, what scripts/check downloads
\* for its version should be on the site.
LatestOnSite ==
    \A n \in 1..count : n = count /\ Finished(n) /\ job[n]["build"] = "ok" =>
        \A p \in Pkg : <<p, ver[n]>> \in site
=============================================================================
