--------------------------- MODULE ProjectCreation ---------------------------
(***************************************************************************)
(* The four steps in which a project is created (components/projectCreate).*)
(* What the steps share is one record, metadata, which every handler       *)
(* writes whole, from the copy it closed over: the reader of a file and    *)
(* the trimming of the tasks answer later, and the listeners of the map    *)
(* wait for a drawing, while the user goes on.                             *)
(***************************************************************************)
EXTENDS Naturals, Sequences, FiniteSets

CONSTANTS
  Geometries,  \* records [id, over, parts, feature]: over the limit of area, number of
               \* polygons, and the drawing it is of: 0, as of a file
  MaxZoom,     \* the finest grid asked for
  MaxTasks,    \* tasks of a grid that is still split
  MaxCalls,    \* files and trims awaited at once
  MaxDraws,    \* listeners for a drawing
  MaxMoves,    \* what the user does beside going on: uploads, drawings, drags, splits, steps back
  CloneFrom    \* what may come of the project to clone: of "none", "found" and "missing"

VARIABLES page,    \* the page: step, metadata, what is drawn, the button to create
          calls,   \* the answers awaited, each with the metadata closed over
          created, \* what was posted to projects/
          moves    \* counts up to MaxMoves

creationVars == <<page, calls, created, moves>>

StartZoom == 11
NoGeom == [id |-> "none", over |-> FALSE, parts |-> 0, feature |-> 0]
Drawings == {geom \in Geometries : geom.parts = 1}
\* A grid: the geometry it was made for, its tasks, and the tiny ones among them.
GridOf(geom, n) == [of |-> geom, n |-> n, tiny |-> 0]
makeGrid(geom, zoom) == GridOf(geom, IF zoom > StartZoom THEN 4 ^ (zoom - StartZoom) ELSE 1)
splitTaskGrid(grid, hit) == [grid EXCEPT !.n = @ + 3 * hit]

\* features are the drawings on the map, and updater the metadata of the last listener
\* for a change of one of them: none of those listeners is ever taken off.
\* lapses (a history variable) names what happened that the forms do not allow for:
\* "reset": the splits were taken back; "lateFile", "lateTrim": an answer wrote over
\* a later state of the form; "leftover": two listeners answered to one drawing;
\* "dragged": a drawing left on the map was changed after the first step.
CreationInit ==
  /\ \E clone \in CloneFrom :
       page = [step |-> 1, err |-> "none", drawing |-> "no", features |-> {}, made |-> 0,
               multi |-> FALSE, listeners |-> <<>>, updater |-> <<>>,
               clone |-> clone, button |-> "idle", lapses |-> {},
               meta |-> [geom |-> NoGeom, zoom |-> 9, grid |-> GridOf(NoGeom, 0),
                         temp |-> GridOf(NoGeom, 0), number |-> 0, arbitrary |-> FALSE,
                         organisation |-> FALSE]]
  /\ calls = {} /\ created = {} /\ moves = 0

\* Setting the metadata runs the effects on them: err, and whether the geometry has
\* several polygons, which a new geometry does not reset.
useContainsMultiplePolygons(geom, before) == geom # NoGeom /\ (before \/ geom.parts > 1)
WithMeta(p, meta) ==
  [p EXCEPT !.meta = meta, !.err = IF meta.geom.over THEN "area" ELSE "none",
            !.multi = p.step = 1 /\ useContainsMultiplePolygons(meta.geom, @)]
updateMetadata(meta) == page' = WithMeta(page, meta)
WithGrid(meta, grid) == [meta EXCEPT !.grid = grid, !.number = grid.n]
\* A plausible slip: the grid to return to stays that of the geometry before.
KeepsOldTemp(p, meta, geom) ==
  IF geom = NoGeom THEN [p EXCEPT !.err = "geometry"]
  ELSE WithMeta(p, [meta EXCEPT !.geom = geom, !.zoom = StartZoom,
                      !.grid = makeGrid(geom, StartZoom)])
\* A geometry that cannot be verified, or has no area, is an error; else it gets a grid.
setDataGeom(p, meta, geom) ==
  IF geom = NoGeom THEN [p EXCEPT !.err = "geometry"]
  ELSE LET grid == makeGrid(geom, StartZoom) IN
       WithMeta(p, [meta EXCEPT !.geom = geom, !.zoom = StartZoom, !.grid = grid, !.temp = grid])

----------------------------------------------------------------------------
\* Step 1: the area.
readGeoFile(geom) ==
  /\ page' = [page EXCEPT !.err = "none"]
  /\ calls' = calls \cup {[kind |-> "file", meta |-> page.meta, geom |-> geom]}
\* The drawings but the one drawn first.
WithoutFirst(features) == {f \in features : \E g \in features : g < f}
Cleared(p) ==
  [WithMeta(p, [p.meta EXCEPT !.geom = NoGeom, !.arbitrary = FALSE, !.number = 0])
     EXCEPT !.features = WithoutFirst(@)]
uploadFile ==
  /\ page.step = 1 /\ Cardinality(calls) < MaxCalls
  /\ \/ \E geom \in Geometries \cup {NoGeom} : readGeoFile(geom)
     \/ page' = [Cleared(page) EXCEPT !.err = "file"] /\ UNCHANGED calls  \* its format or size
  /\ UNCHANGED created
deleteHandler ==
  /\ page.step = 1 /\ page.meta.geom # NoGeom
  /\ page' = Cleared(page) /\ UNCHANGED <<calls, created>>

\* drawing is the mode of the map, and what it was asked for last; to draw a split does
\* not take the button of the area back.  To stop takes back the mode, not the listeners.
Listen(kind) ==
  page' = [page EXCEPT !.drawing = IF @ = "area" THEN @ ELSE kind,
             !.listeners = Append(@, [kind |-> kind, meta |-> page.meta]),
             !.updater = IF kind = "area" THEN <<page.meta>> ELSE @]
drawHandler ==
  /\ page.step = 1
  /\ IF page.drawing = "area" THEN page' = [page EXCEPT !.drawing = "no"]
     ELSE Len(page.listeners) < MaxDraws /\ Listen("area")
  /\ UNCHANGED <<calls, created>>
\* What is drawn can be changed on the map at every step, and is the area again, with the
\* metadata of the time when it was drawn.
DrawUpdate ==
  /\ page.drawing = "no" /\ page.updater # <<>>
  /\ \E f \in page.features, geom \in Drawings :
       page' = [setDataGeom(page, page.updater[1], [geom EXCEPT !.feature = f])
                  EXCEPT !.lapses = IF page.step = 1 THEN @ ELSE @ \cup {"dragged"}]
  /\ UNCHANGED <<calls, created>>
\* So it can be deleted, with the listener of the last metadata.
DrawDelete ==
  /\ page.drawing = "no"
  /\ \E f \in page.features :
       page' = [WithMeta(page, [page.meta EXCEPT !.geom = NoGeom]) EXCEPT !.features = @ \ {f}]
  /\ UNCHANGED <<calls, created>>
ToggleArbitrary ==
  /\ page.step = 1 /\ page.multi
  /\ updateMetadata([page.meta EXCEPT !.arbitrary = ~@, !.number = page.meta.geom.parts])
  /\ UNCHANGED <<calls, created>>
SetAOI == uploadFile \/ drawHandler \/ deleteHandler \/ ToggleArbitrary

\* A polygon is drawn: every listener answers, in the order of their registration, and
\* each sees the map as the one before it left it.
MapGrid(p) ==
  CASE p.step = 1 -> GridOf(NoGeom, 0)
    [] p.step = 3 -> [p.meta.grid EXCEPT !.n = @ - p.meta.grid.tiny, !.tiny = 0]
    [] OTHER -> p.meta.grid
splitDrawingAnswer(p, meta) ==
  LET grid == MapGrid(p) IN
  [WithMeta(p, WithGrid(meta, splitTaskGrid(grid, IF grid.n = 0 THEN 0 ELSE 1)))
     EXCEPT !.features = @ \ {p.made}]
updateArea(p, meta, geom) ==
  [setDataGeom(p, meta, [geom EXCEPT !.feature = p.made])
     EXCEPT !.features = IF Cardinality(@) > 1 THEN WithoutFirst(@) ELSE @]
TaskAnswer(p, l, geom) ==
  IF l.kind = "area" THEN updateArea(p, l.meta, geom) ELSE splitDrawingAnswer(p, l.meta)
Elsewhere(l) ==
  IF l.kind = "area" THEN page.step # 1 ELSE page.step # 2 \/ l.meta # page.meta
DrawCreate(geom) ==
  LET ls == page.listeners
      drawn == [page EXCEPT !.made = @ + 1, !.features = @ \cup {page.made + 1}]
      first == TaskAnswer(drawn, ls[1], geom)
      last == IF Len(ls) = 1 THEN first ELSE TaskAnswer(first, ls[2], geom) IN
  /\ page.drawing # "no" /\ ls # <<>>
  /\ page' = [last EXCEPT !.listeners = <<>>, !.drawing = "no",
                !.lapses = IF Len(ls) > 1 \/ Elsewhere(ls[1])
                           THEN @ \cup {"leftover"} ELSE @]
  /\ UNCHANGED <<calls, created>>

----------------------------------------------------------------------------
\* Step 2: the sizes of the tasks.
smallerSize ==
  LET zoom == page.meta.zoom + 1  grid == makeGrid(page.meta.geom, zoom) IN
  /\ page.meta.geom # NoGeom /\ zoom <= MaxZoom
  /\ updateMetadata(WithGrid([page.meta EXCEPT !.zoom = zoom, !.temp = grid], grid))
largerSize ==
  LET zoom == page.meta.zoom - 1  grid == makeGrid(page.meta.geom, zoom) IN
  \* a zoom level above 0; the grid of one task is as large as it gets here
  /\ page.meta.geom # NoGeom /\ zoom >= StartZoom
  /\ updateMetadata(WithGrid([page.meta EXCEPT !.zoom = zoom, !.temp = grid], grid))
splitHandler(hit) ==
  /\ page.meta.grid.n < MaxTasks /\ hit <= page.meta.grid.n
  /\ updateMetadata(WithGrid(page.meta, splitTaskGrid(page.meta.grid, hit)))
splitDrawing == Len(page.listeners) < MaxDraws /\ page.meta.grid.n < MaxTasks /\ Listen("split")
\* The number of the tasks stays.
resetGrid ==
  page' = [WithMeta(page, [page.meta EXCEPT !.grid = page.meta.temp])
             EXCEPT !.lapses = IF page.meta.grid = page.meta.temp THEN @ ELSE @ \cup {"reset"}]
SetTaskSizes ==
  /\ page.step = 2
  /\ \/ smallerSize \/ largerSize \/ resetGrid \/ splitDrawing
     \/ \E hit \in {1, 2} : splitHandler(hit)
  /\ UNCHANGED <<calls, created>>

\* Step 3: the tasks outside the area are left out, and those that became tiny.
trimTaskGrid ==
  /\ page.meta.grid.tiny = 0 /\ Cardinality(calls) < MaxCalls
  /\ calls' = calls \cup {[kind |-> "trim", meta |-> page.meta, geom |-> page.meta.geom]}
  /\ UNCHANGED <<page, created>>
removeTinyTasks ==
  /\ page.meta.grid.tiny > 0
  /\ updateMetadata(WithGrid(page.meta, [page.meta.grid EXCEPT !.n = @ - page.meta.grid.tiny,
                                                               !.tiny = 0]))
  /\ UNCHANGED <<calls, created>>
TrimProject == page.step = 3 /\ (trimTaskGrid \/ removeTinyTasks)

\* Step 4: the name and the organisation, unless they come from the cloned project.
setOrganisation ==
  /\ page.clone \in {"none", "found", "missing"}
  /\ updateMetadata([page.meta EXCEPT !.organisation = TRUE])
Review == page.step = 4 /\ setOrganisation /\ UNCHANGED <<calls, created>>
fetchCloneProjectInfo ==
  /\ page.clone = "found"
  /\ page' = [page EXCEPT !.clone = "fetched"] /\ UNCHANGED <<calls, created>>

----------------------------------------------------------------------------
\* The answers: each writes over the metadata the copy it was asked with.
FileAnswer(c) ==
  page' = [setDataGeom(page, c.meta, c.geom)
             EXCEPT !.lapses = IF page.step # 1 /\ c.geom # NoGeom THEN @ \cup {"lateFile"} ELSE @]
TrimAnswer(c) ==
  c.geom # NoGeom /\ \E n \in 1..c.meta.temp.n, tiny \in 0..1 :
    LET grid == [c.meta.temp EXCEPT !.n = n, !.tiny = tiny] IN
    page' = [WithMeta(page, WithGrid(c.meta, grid))
               EXCEPT !.lapses = IF page.step # 3 \/ page.meta # c.meta
                                 THEN @ \cup {"lateTrim"} ELSE @]
Fetched(c) ==
  /\ calls' = calls \ {c}
  /\ CASE c.kind = "file" -> FileAnswer(c)
       [] OTHER -> TrimAnswer(c) \/ UNCHANGED page
  /\ UNCHANGED created

\* To the next step, and back.
SetStep(p, step) ==
  [p EXCEPT !.step = step, !.multi = step = 1 /\ useContainsMultiplePolygons(p.meta.geom, FALSE)]
NextFrom(p) == SetStep(p, IF p.meta.arbitrary THEN 4 ELSE p.step + 1)
OverLimit(geom) == geom.over
validateStep ==
  /\ \/ page.step = 1 /\ OverLimit(page.meta.geom) /\ page' = [page EXCEPT !.err = "area"]
     \/ page.step = 1 /\ page.meta.geom = NoGeom /\ page' = [page EXCEPT !.err = "noGeometry"]
     \/ /\ page.step = 1 /\ page.meta.geom # NoGeom /\ ~OverLimit(page.meta.geom)
        /\ page' = NextFrom([WithMeta(page, [page.meta EXCEPT !.number =
             IF page.meta.arbitrary THEN page.meta.geom.parts ELSE page.meta.grid.n])
             EXCEPT !.features = @ \ {page.meta.geom.feature}])
     \/ page.step = 2 /\ page' = NextFrom(WithMeta(page, [page.meta EXCEPT !.temp = page.meta.grid]))
     \/ page.step = 3 /\ page' = NextFrom([page EXCEPT !.err = "none"])
  /\ UNCHANGED <<calls, created>>
\* With no area left the way back from tasks that were not divided ends in an error.
clearParamsStep ==
  LET stuck == page.meta.arbitrary /\ page.meta.geom = NoGeom
      meta == IF page.meta.arbitrary THEN [page.meta EXCEPT !.number = page.meta.geom.parts]
              ELSE CASE page.step = 2 -> [page.meta EXCEPT !.number = 0]
                     [] page.step = 3 -> WithGrid(page.meta, page.meta.temp)
                     [] OTHER -> page.meta
      back == IF stuck THEN page.step ELSE IF page.meta.arbitrary THEN 1 ELSE page.step - 1 IN
  /\ page' = SetStep(WithMeta(page, meta), back)
  /\ UNCHANGED <<calls, created>>

SettledAlways(complete) == IF complete THEN "success" ELSE "error"
\* createProjectFn waits for a promise that only a missing part ever settles: once a
\* project is posted, the button stays busy, also when the server refuses it.
createProjectFn(complete) == IF complete THEN "pending" ELSE "error"
handleCreate ==
  LET complete == page.meta.geom # NoGeom /\ (page.meta.organisation \/ page.clone = "fetched") IN
  /\ page.step = 4 /\ page.button # "pending"
  /\ page' = [page EXCEPT !.button = createProjectFn(complete),
                !.err = IF complete THEN @
                        ELSE IF page.meta.geom = NoGeom THEN "noGeometry" ELSE "noOrganization"]
  /\ created' = IF complete
                THEN created \cup {[geom |-> page.meta.geom, tasks |-> page.meta.grid,
                       arbitrary |-> page.meta.arbitrary, number |-> page.meta.number,
                       clone |-> page.clone = "fetched", times |-> Cardinality(created) + 1,
                       lapses |-> page.lapses]}
                ELSE created
  /\ UNCHANGED calls
CreationFailed ==
  /\ created # {} /\ page.button = "pending" /\ page' = [page EXCEPT !.err = "creationFailed"]
  /\ UNCHANGED <<calls, created>>
NavButtons == (created = {} /\ page.step < 4 /\ validateStep) \/ handleCreate

\* Once a project is posted, the user waits or presses again.
ProjectCreate ==
  \/ /\ created = {} /\ moves < MaxMoves /\ moves' = moves + 1
     /\ \/ SetAOI \/ SetTaskSizes \/ TrimProject \/ DrawUpdate \/ DrawDelete
        \/ page.step > 1 /\ clearParamsStep
  \/ /\ UNCHANGED moves
     /\ \/ NavButtons
        \/ created = {} /\ (Review \/ fetchCloneProjectInfo)
        \/ \E geom \in Drawings : created = {} /\ DrawCreate(geom)
        \/ \E c \in calls : Fetched(c)
        \/ CreationFailed
CreationNext == ProjectCreate

CreationSpec == CreationInit /\ [][CreationNext]_creationVars

----------------------------------------------------------------------------
\* The tasks of a new project are made of its own area, whatever files, drawings, drags and
\* answers came in between: every handler writes the area and the grid together, or
\* neither.  Only a listener left over from a drawing given up breaks it (setTaskSizes
\* reads the grid that another listener just put on the map).
TasksOfTheArea ==
  \A p \in created : "leftover" \notin p.lapses /\ ~p.arbitrary => p.tasks.of = p.geom

\* "Your project will be created with {n} tasks" (review): so it is, unless the splits
\* were taken back, an answer came late or a drawing left on the map was dragged (the
\* number is then that of the time it was drawn, projectCreate/index.js:125).
CountIsOfTheTasks ==
  \A p \in created : p.lapses = {} =>
    p.number = IF p.arbitrary THEN p.geom.parts ELSE p.tasks.n

\* No project is created over the limit of area, unless its area was set after the only
\* step that measures it: by a file read slowly, a listener left over, or a drag.
AreaWithinLimit ==
  \A p \in created : p.geom.over => {"lateFile", "leftover", "dragged"} \cap p.lapses # {}

\* What is created is what the page led to through all its steps: area, tasks, their number, the limit.
CreatedAsShown == TasksOfTheArea /\ CountIsOfTheTasks /\ AreaWithinLimit

\* One visit never posts two projects, however often and whenever the user presses.
CreatedOnce == Cardinality(created) <= 1
=============================================================================
