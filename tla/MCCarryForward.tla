---------------------------- MODULE MCCarryForward ----------------------------
(* Passes of static analysis, of dependencies, and of configuration, the   *)
(* last two also of an image, as in RUN_NAMES; one pass it does not list.  *)
EXTENDS CarryForward, TLC

CONSTANTS semgrep, trivy, dockerfile, image, custom, sast, deps, config, unknown,
  staticAnalysis, containers, f1, f2, r1, r2, imgA, imgB

TableMeasures ==
  [n \in Names |-> CASE n = semgrep -> {sast} [] n = trivy -> {deps}
                     [] n = dockerfile -> {config} [] n = image -> {deps, config}]
TableWhenNotOk == [n \in Names |-> IF n = trivy THEN {deps, config} ELSE TableMeasures[n]]

Book(runs) == [runs |-> runs, missing |-> {}]
Partly(files, pack, rules) == Run(semgrep, "ok", NoTarget, files, pack, rules)
Image(ref) == Run(image, "ok", ref, {}, {}, {})

SastBooks ==
  {Book({}), Book({Ok(semgrep)}), Book({Failed(semgrep), Ok(dockerfile)}),
   Book({Partly({f1}, {}, {})}), Book({Partly({f2}, {}, {r1})}), Book({Partly({f1, f2}, {}, {})}),
   Book({Partly({}, {f1}, {})}), Book({Partly({}, {f2}, {r2})}), Book({Skipped(semgrep), Ok(dockerfile)}),
   Book({Ok(custom)}), [runs |-> {Ok(semgrep), Ok(dockerfile)}, missing |-> {semgrep}],
   [runs |-> {Ok(dockerfile)}, missing |-> {semgrep}]}

ImageBooks ==
  {Book({}), Book({Image(imgA)}), Book({Image(imgB)}), Book({Image(NoTarget)}),
   Book({Ok(dockerfile)}), Book({Ok(dockerfile), Image(imgA)}), Book({Image(imgA), Image(imgB)}),
   Book({Failed(trivy), Image(imgB)}), Book({Ok(trivy)}), Book({Failed(dockerfile), Ok(trivy)}),
   Book({Failed(image), Ok(dockerfile)})}

SlotBooks == [s \in Slots |-> IF s = staticAnalysis THEN SastBooks ELSE ImageBooks]
=============================================================================
