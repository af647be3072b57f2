--------------------------- MODULE ReleaseProofs ----------------------------
(***************************************************************************)
(* The package registry, for any number of pipelines that interleave, fail *)
(* and are retried.                                                        *)
(***************************************************************************)
EXTENDS Release, TLAPS

Key == Pkg \X Version

RType == /\ count \in 0..MaxPipes /\ tag \in 0..count
         /\ ver \in [Pipe -> Version] /\ files \in [Pipe -> SUBSET Pkg]
         /\ job \in [Pipe -> [Job -> {"none", "wait", "second", "ok", "failed"}]]
         /\ registry \in [Key -> 0..count] /\ retries \in 0..MaxRetries

\* A pipeline that was not pushed yet has not built anything, and one whose
\* uploads got so far and were not refused has the packages in the registry.
Uploaded ==
    /\ \A n \in Pipe, j \in Job : job[n][j] # "none" => n <= count
    /\ \A n \in Pipe : job[n]["packages"] \in {"second", "ok"} /\ n \notin unseen =>
          registry[<<"bananui-base", ver[n]>>] # 0
    /\ \A n \in Pipe : job[n]["packages"] = "ok" /\ n \notin unseen =>
          registry[<<"device-startup", ver[n]>>] # 0

RInv == RType /\ Uploaded /\ RegistryHonest
-----------------------------------------------------------------------------
\* What Go does to the jobs.
LEMMA GoJob ==
  ASSUME RType, NEW n \in Pipe, NEW j \in Job,
         NEW l \in {"none", "wait", "second", "ok", "failed"}, Go(n, j, l)
  PROVE  /\ job' \in [Pipe -> [Job -> {"none", "wait", "second", "ok", "failed"}]]
         /\ job'[n][j] = l
         /\ \A m \in Pipe, k \in Job : m # n \/ k # j => job'[m][k] = job[m][k]
  BY SMTT(30) DEF RType, Go

LEMMA JobNames == "build" \in Job /\ "pages" \in Job /\ "packages" \in Job
  BY DEF Job

LEMMA PushStep ==
  ASSUME RInv, NEW bump \in BOOLEAN, PushStable(bump)
  PROVE  RInv'
<1>1. /\ count \in Nat /\ count < MaxPipes /\ count' = count + 1 /\ MaxPipes \in Nat
      /\ count + 1 \in Pipe /\ tag \in 0..count /\ (tag' = tag + 1 \/ tag' = tag)
  BY SMTT(30), ReleaseAssumption DEF RInv, RType, PushStable, Pipe, ReleaseAssumption
<1>2. count' \in 0..MaxPipes /\ tag' \in 0..count' /\ tag' \in Version
  BY SMTT(30), <1>1 DEF Version
<1>3. ver' \in [Pipe -> Version] /\ \A m \in Pipe : m # count + 1 => ver'[m] = ver[m]
  BY SMTT(30), <1>1, <1>2 DEF RInv, RType, PushStable
<1>4. /\ job' \in [Pipe -> [Job -> {"none", "wait", "second", "ok", "failed"}]]
      /\ \A m \in Pipe : m # count + 1 => job'[m] = job[m]
      /\ \A j \in Job : job'[count + 1][j] = "wait"
  BY SMTT(30), <1>1 DEF RInv, RType, PushStable
<1>5. UNCHANGED <<files, registry, unseen, retries>>
  BY Zenon DEF PushStable
<1>6. \A k \in Key : registry[k] \in 0..count
  BY Zenon DEF RInv, RType
<1>7. registry' \in [Key -> 0..count']
  BY SMTT(30), <1>1, <1>5 DEF RInv, RType
<1>8. RType'
  BY Zenon, <1>2, <1>3, <1>4, <1>5, <1>7 DEF RInv, RType
<1>9. \A m \in Pipe : m <= count => m # count + 1 /\ m <= count'
  BY SMTT(30), <1>1 DEF Pipe
<1>10. Uploaded'
  <2>1. ASSUME NEW n \in Pipe, n # count + 1
        PROVE  /\ \A j \in Job : job'[n][j] # "none" => n <= count'
               /\ job'[n]["packages"] \in {"second", "ok"} /\ n \notin unseen' =>
                     registry'[<<"bananui-base", ver'[n]>>] # 0
               /\ job'[n]["packages"] = "ok" /\ n \notin unseen' =>
                     registry'[<<"device-startup", ver'[n]>>] # 0
    BY ZenonT(60), <1>3, <1>4, <1>5, <1>9, <2>1 DEF RInv, Uploaded
  <2>2. job'[count + 1]["packages"] = "wait" /\ count + 1 <= count'
    BY SMTT(30), <1>1, <1>4, JobNames
  <2> QED BY Zenon, <2>1, <2>2 DEF Uploaded
<1>11. RegistryHonest'
  <2>1. ASSUME NEW k \in Key, registry[k] # 0
        PROVE  registry[k] \in Pipe /\ registry[k] # count + 1
    BY SMTT(30), <1>1, <1>6, <2>1 DEF Pipe
  <2>2. ASSUME NEW k \in Key, registry[k] # 0
        PROVE  ver[registry[k]] = k[2] /\ k[1] \in files[registry[k]]
    BY Zenon, <2>2 DEF RInv, RegistryHonest, Key
  <2>3. ASSUME NEW k \in Key, registry[k] # 0
        PROVE  ver'[registry[k]] = k[2] /\ k[1] \in files[registry[k]]
    BY Zenon, <1>3, <2>1, <2>2, <2>3
  <2>4. registry' = registry /\ files' = files
    BY Zenon, <1>5
  <2> SUFFICES ASSUME NEW k \in Key, registry'[k] # 0
               PROVE  ver'[registry'[k]] = k[2] /\ k[1] \in files'[registry'[k]]
    BY Zenon DEF RegistryHonest, Key
  <2> QED BY Zenon, <2>3, <2>4
<1> QED BY Zenon, <1>8, <1>10, <1>11 DEF RInv

\* A step that changes one job, not to a success of packages, and removes no
\* file.
LEMMA JobStep ==
  ASSUME RInv, NEW n \in Pipe, NEW j \in Job, NEW l \in {"wait", "ok", "failed"}, Go(n, j, l),
         UNCHANGED <<count, tag, ver, registry, unseen>>,
         files' \in [Pipe -> SUBSET Pkg], \A m \in Pipe : files[m] \subseteq files'[m],
         retries' \in 0..MaxRetries,
         job[n][j] # "none", l = "ok" => j # "packages"
  PROVE  RInv'
<1>1. /\ job' \in [Pipe -> [Job -> {"none", "wait", "second", "ok", "failed"}]]
      /\ job'[n][j] = l
      /\ \A m \in Pipe, k \in Job : m # n \/ k # j => job'[m][k] = job[m][k]
  <2>1. l \in {"none", "wait", "second", "ok", "failed"}
    BY Zenon
  <2>2. RType
    BY Zenon DEF RInv
  <2> QED BY SMTT(30), <2>1, <2>2, GoJob
<1>2. RType'
  BY Zenon, <1>1 DEF RInv, RType
<1>3. \A m \in Pipe : job'[m]["packages"] \in {"second", "ok"} => job'[m]["packages"] = job[m]["packages"]
  <2> SUFFICES ASSUME NEW m \in Pipe, job'[m]["packages"] \in {"second", "ok"}
               PROVE  job'[m]["packages"] = job[m]["packages"]
    OBVIOUS
  <2>1. CASE m = n /\ j = "packages"
    BY Zenon, <1>1, <2>1
  <2>2. CASE m # n \/ j # "packages"
    BY Zenon, <1>1, <2>2, JobNames
  <2> QED BY Zenon, <2>1, <2>2
<1>4. \A m \in Pipe, k \in Job : job'[m][k] # "none" => job[m][k] # "none"
  BY Zenon, <1>1
<1>5. Uploaded'
  BY Zenon, <1>3, <1>4 DEF RInv, Uploaded
<1>6. RegistryHonest'
  <2>1. ASSUME NEW k \in Key, registry[k] # 0 PROVE registry[k] \in Pipe
    <3>1. registry[k] \in 0..count /\ count \in 0..MaxPipes
      BY Zenon DEF RInv, RType
    <3> QED BY SMTT(30), <2>1, <3>1, ReleaseAssumption DEF Pipe, ReleaseAssumption
  <2> QED BY Zenon, <2>1 DEF RInv, RegistryHonest, Key
<1> QED BY Zenon, <1>2, <1>5, <1>6 DEF RInv

LEMMA BuildJob ==
  ASSUME RInv, NEW n \in Pipe, Build(n)
  PROVE  RInv'
<1>1. /\ (Go(n, "build", "ok") \/ Go(n, "build", "failed")) /\ job[n]["build"] = "wait"
      /\ UNCHANGED <<count, tag, ver, registry, unseen, retries>>
  BY Zenon DEF Build
<1>2. files' \in [Pipe -> SUBSET Pkg] /\ \A m \in Pipe : files[m] \subseteq files'[m]
  <2>1. files' = files \/ files' = [files EXCEPT ![n] = Pkg]
    BY Zenon DEF Build
  <2>2. files \in [Pipe -> SUBSET Pkg]
    BY Zenon DEF RInv, RType
  <2> QED BY Zenon, <2>1, <2>2
<1>3. retries' \in 0..MaxRetries /\ job[n]["build"] # "none"
  BY Zenon, <1>1 DEF RInv, RType, Build
<1>4. "build" # "packages"
  BY Zenon
<1> QED BY Zenon, <1>1, <1>2, <1>3, <1>4, JobStep, JobNames

LEMMA PagesJob ==
  ASSUME RInv, NEW n \in Pipe, Pages(n)
  PROVE  RInv'
<1>1. /\ Go(n, "pages", "ok") \/ Go(n, "pages", "failed")
      /\ UNCHANGED <<count, tag, ver, files, registry, unseen, retries>>
  BY Zenon DEF Pages
<1>2. /\ retries' \in 0..MaxRetries /\ job[n]["pages"] # "none"
      /\ files' \in [Pipe -> SUBSET Pkg] /\ \A m \in Pipe : files[m] \subseteq files'[m]
  BY Zenon, <1>1 DEF RInv, RType, Pages, Deployable
<1>3. "pages" # "packages"
  BY Zenon
<1> QED BY Zenon, <1>1, <1>2, <1>3, JobStep, JobNames

LEMMA RetryJob ==
  ASSUME RInv, NEW n \in Pipe, NEW j \in Job, Retry(n, j)
  PROVE  RInv'
<1>1. /\ Go(n, j, "wait") /\ UNCHANGED <<count, tag, ver, files, registry, unseen>>
      /\ job[n][j] # "none"
  BY Zenon DEF Retry
<1>2. retries' \in 0..MaxRetries
  BY SMTT(30), ReleaseAssumption DEF RInv, RType, Retry, ReleaseAssumption
<1>3. files' \in [Pipe -> SUBSET Pkg] /\ \A m \in Pipe : files[m] \subseteq files'[m]
  BY Zenon, <1>1 DEF RInv, RType
<1> QED BY Zenon, <1>1, <1>2, <1>3, JobStep

\* One curl of the packages job; the second one comes after the first.
LEMMA UploadJob ==
  ASSUME RInv, NEW n \in Pipe, NEW p \in Pkg, NEW l \in {"second", "ok"},
         Upload(n, p, l), UNCHANGED <<count, tag, ver, files, retries>>,
         job[n]["packages"] # "none",
         l = "second" => p = "bananui-base",
         l = "ok" => p = "device-startup" /\ job[n]["packages"] = "second"
  PROVE  RInv'
<1>1. CASE Go(n, "packages", "failed") /\ UNCHANGED <<registry, unseen>>
  <2>1. /\ retries' \in 0..MaxRetries
        /\ files' \in [Pipe -> SUBSET Pkg] /\ \A m \in Pipe : files[m] \subseteq files'[m]
    BY Zenon DEF RInv, RType
  <2>2. "failed" # "ok"
    BY Zenon
  <2> QED BY Zenon, <1>1, <2>1, <2>2, JobStep, JobNames
<1>2. CASE /\ Go(n, "packages", l)
           /\ \/ /\ registry' = [registry EXCEPT ![Address(p, n)] = n] /\ UNCHANGED unseen
                 /\ p \in files[n]
              \/ unseen' = unseen \cup {n} /\ UNCHANGED registry
  <2>1. /\ job' \in [Pipe -> [Job -> {"none", "wait", "second", "ok", "failed"}]]
        /\ job'[n]["packages"] = l
        /\ \A m \in Pipe, k \in Job : m # n \/ k # "packages" => job'[m][k] = job[m][k]
    <3>1. l \in {"none", "wait", "second", "ok", "failed"}
      BY Zenon
    <3> QED BY Zenon, <1>2, <3>1, GoJob, JobNames DEF RInv
  <2>2. n <= count /\ n # 0 /\ n \in 0..count
    <3>1. n <= count
      BY Zenon, JobNames DEF RInv, Uploaded
    <3>2. count \in 0..MaxPipes
      BY Zenon DEF RInv, RType
    <3> QED BY SMTT(30), <3>1, <3>2, ReleaseAssumption DEF Pipe, ReleaseAssumption
  <2>3. Address(p, n) = <<p, ver[n]>> /\ <<p, ver[n]>> \in Key
    BY Zenon DEF Address, RInv, RType, Key
  <2>4. registry \in [Key -> 0..count]
    BY Zenon DEF RInv, RType
  <2>5. /\ registry' \in [Key -> 0..count]
        /\ \A k \in Key : registry'[k] = registry[k] \/ (registry'[k] = n /\ k = <<p, ver[n]>> /\ p \in files[n])
        /\ n \notin unseen' => registry'[<<p, ver[n]>>] = n
    <3>1. CASE registry' = [registry EXCEPT ![<<p, ver[n]>>] = n] /\ p \in files[n]
      BY Zenon, <2>2, <2>3, <2>4, <3>1
    <3>2. CASE unseen' = unseen \cup {n} /\ UNCHANGED registry
      BY Zenon, <2>4, <3>2
    <3> QED BY Zenon, <1>2, <2>3, <3>1, <3>2
  <2>6. \A k \in Key : registry[k] # 0 => registry'[k] # 0
    BY Zenon, <2>2, <2>5
  <2>7. RType'
    BY Zenon, <2>1, <2>5 DEF RInv, RType
  <2>8. RegistryHonest'
    <3> SUFFICES ASSUME NEW k \in Key, registry'[k] # 0
                 PROVE  ver[registry'[k]] = k[2] /\ k[1] \in files[registry'[k]]
      BY Zenon DEF RegistryHonest, Key
    <3>1. CASE registry'[k] = registry[k]
      BY Zenon, <3>1 DEF RInv, RegistryHonest, Key
    <3>2. CASE registry'[k] = n /\ k = <<p, ver[n]>> /\ p \in files[n]
      <4>1. k[1] = p /\ k[2] = ver[n]
        BY SMTT(30), <3>2
      <4> QED BY Zenon, <3>2, <4>1
    <3> QED BY Zenon, <2>5, <3>1, <3>2
  <2>9. unseen \subseteq unseen'
    BY Zenon, <1>2
  <2>10. Uploaded'
    <3>1. \A m \in Pipe, j \in Job : job'[m][j] # "none" => m <= count
      BY Zenon, <2>1, <2>2 DEF RInv, Uploaded
    <3>2. \A m \in Pipe : <<"bananui-base", ver[m]>> \in Key /\ <<"device-startup", ver[m]>> \in Key
      BY Zenon DEF RInv, RType, Key, Pkg
    <3>3. ASSUME NEW m \in Pipe, m # n
          PROVE  /\ job'[m]["packages"] \in {"second", "ok"} /\ m \notin unseen' =>
                       registry'[<<"bananui-base", ver[m]>>] # 0
                 /\ job'[m]["packages"] = "ok" /\ m \notin unseen' =>
                       registry'[<<"device-startup", ver[m]>>] # 0
      <4>1. job'[m]["packages"] = job[m]["packages"]
        BY Zenon, <2>1, <3>3, JobNames
      <4> QED BY Zenon, <2>6, <2>9, <3>2, <4>1 DEF RInv, Uploaded
    <3>4. ASSUME n \notin unseen'
          PROVE  /\ registry'[<<"bananui-base", ver[n]>>] # 0
                 /\ l = "ok" => registry'[<<"device-startup", ver[n]>>] # 0
      <4>1. CASE l = "second"
        <5>1. l # "ok"
          BY Zenon, <4>1
        <5> QED BY Zenon, <2>2, <2>5, <3>4, <4>1, <5>1
      <4>2. CASE l = "ok"
        <5>1. registry[<<"bananui-base", ver[n]>>] # 0
          BY Zenon, <2>9, <3>4, <4>2 DEF RInv, Uploaded
        <5> QED BY Zenon, <2>2, <2>5, <2>6, <3>2, <3>4, <4>2, <5>1
      <4> QED BY Zenon, <4>1, <4>2
    <3> QED BY Zenon, <2>1, <3>1, <3>3, <3>4 DEF Uploaded
  <2> QED BY Zenon, <2>7, <2>8, <2>10 DEF RInv
<1> QED BY Zenon, <1>1, <1>2 DEF Upload

LEMMA PackagesJob ==
  ASSUME RInv, NEW n \in Pipe, Packages(n)
  PROVE  RInv'
<1>1. UNCHANGED <<count, tag, ver, files, retries>>
  BY Zenon DEF Packages
<1>2. "bananui-base" \in Pkg /\ "device-startup" \in Pkg /\ "second" # "ok"
  BY Zenon DEF Pkg
<1>3. CASE Deployable(n, "packages") /\ Upload(n, "bananui-base", "second")
  <2>1. job[n]["packages"] # "none"
    BY Zenon, <1>3 DEF Deployable
  <2> QED BY Zenon, <1>1, <1>2, <1>3, <2>1, UploadJob
<1>4. CASE job[n]["packages"] = "second" /\ Upload(n, "device-startup", "ok")
  <2>1. job[n]["packages"] # "none"
    BY Zenon, <1>4
  <2> QED BY Zenon, <1>1, <1>2, <1>4, <2>1, UploadJob
<1> QED BY Zenon, <1>3, <1>4 DEF Packages
-----------------------------------------------------------------------------
LEMMA ReleaseInit == Init => RInv
<1> SUFFICES ASSUME Init PROVE RInv
  OBVIOUS
<1>1. MaxPipes \in Nat /\ MaxRetries \in Nat
  BY Zenon, ReleaseAssumption DEF ReleaseAssumption
<1>2. 0 \in 0..MaxPipes /\ 0 \in 0..0 /\ 0 \in 0..MaxRetries
  BY SMTT(30), <1>1
<1>3. RType
  BY Zenon, <1>2 DEF Init, RType, Version, Key
<1>4. \A n \in Pipe, j \in Job : job[n][j] = "none"
  BY Zenon DEF Init
<1>5. Uploaded
  BY Zenon, <1>4, JobNames DEF Uploaded
<1>6. RegistryHonest
  BY Zenon DEF Init, RegistryHonest
<1> QED BY Zenon, <1>3, <1>5, <1>6 DEF RInv

LEMMA ReleaseStep == RInv /\ [Next]_vars => RInv'
<1>1. ASSUME RInv, Next PROVE RInv'
  BY Zenon, <1>1, PushStep, BuildJob, PagesJob, PackagesJob, RetryJob DEF Next, Run
<1>2. ASSUME RInv, UNCHANGED vars PROVE RInv'
  BY Zenon, <1>2 DEF vars, RInv, RType, Uploaded, RegistryHonest
<1> QED BY Zenon, <1>1, <1>2

LEMMA ReleaseInvariant == Spec => []RInv
  BY ReleaseInit, ReleaseStep, PTL DEF Spec

\* Another pipeline's file is there only when it had the same version.
LEMMA OwnRelease == RInv => Released
<1> SUFFICES ASSUME RInv, NEW n \in Pipe, job[n]["packages"] = "ok", n \notin unseen, NEW p \in Pkg
             PROVE  /\ registry[<<p, ver[n]>>] # 0
                    /\ (\A m \in 1..count : m # n => ver[m] # ver[n])
                          => registry[<<p, ver[n]>>] = n
  BY Zenon DEF Released
<1>1. registry[<<p, ver[n]>>] # 0
  BY Zenon DEF RInv, Uploaded, Pkg
<1>2. <<p, ver[n]>> \in Key /\ registry[<<p, ver[n]>>] \in 0..count /\ count \in 0..MaxPipes
  BY Zenon DEF RInv, RType, Key
<1>3. registry[<<p, ver[n]>>] \in 1..count
  BY SMTT(30), <1>1, <1>2
<1>4. ver[registry[<<p, ver[n]>>]] = <<p, ver[n]>>[2]
  BY Zenon, <1>1, <1>2 DEF RInv, RegistryHonest, Key
<1>5. <<p, ver[n]>>[2] = ver[n]
  BY SMTT(30)
<1> QED BY Zenon, <1>1, <1>3, <1>4, <1>5

\* Whatever is in the registry under a version was built with its tag.
THEOREM HonestRegistry == Spec => []RegistryHonest
<1>1. RInv => RegistryHonest
  BY Zenon DEF RInv
<1> QED BY <1>1, ReleaseInvariant, PTL

\* A packages job that succeeded, with no upload refused, has released both
\* packages, and its own unless another push had the same tag.
THEOREM ReleaseComplete == Spec => []Released
  BY OwnRelease, ReleaseInvariant, PTL
=============================================================================
