# FriCAS, specified

TLA+ modules for the parts of FriCAS that keep state and have to agree with each
other: the programs that make up a session and the workspace of the interpreter.
TLC checks them on small instances, TLAPS proves the invariants that matter most
for every size.  Sources are named relative to the repository (`src/sman/session.c`).

## 1. The system

A session of FriCAS is several programs on one machine.

```
  spadclient  spadclient   HyperDoc            sman  (starts all, waits for deaths)
      \           |         /     \              |
       \  lines   |        / frame \ commands    +-- I/O process of sman
        +---- session manager ----- \            |      pty in / pty out
                  | integers         \           |
                  +---------------- Lisp (serverReadLine) 
                                       |  workspace: frames, environment, record of )undo
                                    viewman -- view2D, view3D
```

| component | state | operations | interaction |
|---|---|---|---|
| supervisor, `src/sman/sman.c` | list of processes with their death actions, the sockets in `/tmp`, `death_signal` | start, wait, respawn, clean a socket, kill all | `fork`, `wait`, signals |
| I/O process, `sman.c` 613-644 | the pseudo terminal of Lisp | copies output to the session manager | pty, socket |
| session manager, `src/sman/session.c` | list of windows, `active_session`, `num_active_clients`, `reading_output`, `session_socket_mask`, `menu_client` | accept, pass on a line, pass on output, `EndOfOutput`, `QueryClients`, `CloseClient` | one loop around `select` |
| window, `src/sman/spadclient.c` | its socket | connect, send lines, print output, die | socket |
| Lisp server, `src/interp/server.boot` | `$frameAlist`, `$frameNumber`, `$currentFrameNum`, `$NeedToSignalSessionManager` | create and switch frames, read a line, serve HyperDoc, `)close` | sockets and standard input |
| socket library, `src/lib/sockio-c.c` | table of clients, `purpose_table`, masks | connect, accept, read, write, select | used by all |
| workspace, `src/interp/i-syscmd.boot` | ring of frames, `$InteractiveFrame`, `$IOindex`, `$frameRecord`, `$previousBindings` | lines, `)clear`, `)frame`, `)undo` | called by the reader loop; the session manager's frames are frames of this ring |
| history, same file | `$HistList`, `$internalHistoryTable` or the history file | `)history`, `%%`, one record per line | shares the frames |
| reader loop, `src/interp/int-top.boot` | continuation buffer, interrupts, errors | read, analyse, evaluate, print | calls the Lisp server and the workspace |
| preprocessor, `src/interp/incl.boot` | conditional levels, included files | `)if`, `)include`, `)fin` | pure |
| HyperDoc, `src/hyper` | windows, their page tables and two stacks (memo and downlink), pages made by Lisp, buffers with marks, `gIsEndOfOutput` | links and buttons, Up and Return, dependent commands, closing | `MenuServer` sockets to Lisp and the session manager, `SIGUSR2`, buffers that die |
| input areas, `dialog.c`, `parse-input.c` | rows of a buffer with `len`, cursor, insert mode, focus | every key, mouse, paste, radio boxes | text goes into a command of the page |
| clef and spadbuf, `src/clef` | line buffer with flags, ring of old lines, terminal row | every key, recall, completion, paste, function keys | pty of the interpreter window or socket of a HyperDoc page |
| viewport manager, `src/graph/viewman` | lists of viewports and of graphs | make, forward, pick and drop, close, clean up the dead | pipes, `SIGCHLD`, socket to Lisp |
| 3D viewport, `src/graph/view3D` | modes, control panel, flags of the smooth image, list of polygons | buttons, requests of Lisp, drawing that any event interrupts | X events, pipe of the manager |
| 2D viewport, `src/graph/view2D` | slots with graphs and their states, panel, pending mode | buttons, requests of Lisp | as above; graphs from other windows |
| drawing and printing, `src/graph/Gdraws`, `write3d.c`, `write2d.c` | PostScript script, dictionary, procedures | every drawing call twice: window or script | files |
| saved views, `src/graph/viewAlone` | the directory `x.VIEW` | write with pictures, read and show again | files, pipes |
| compiler, caches, algebra, ... | see `PROJECT.json` | | |

What is hard.  Every program waits in `select` and every link is a queue of its own,
so messages sent in order over different links arrive in any order: output against
`EndOfOutput`, a `SwitchFrames` against the line it was meant for, a command of HyperDoc
against the switch sent for it.  No message on the pipes of the viewports says what it is,
so a reader out of step takes anything for what it waits for.  The session manager keeps
four copies of the set of windows and updates them by hand.  Process ids are used again
while the supervisor keeps every entry.  The workspace exists twice, in globals and in the
ring, and `)undo` works from a record that shares cells with it.  HyperDoc frees pages that
its stacks may still name, and sends commands in an order that must survive the death of
the interpreter window they go to.  A 3D drawing is abandoned at any event and leaves
flags and half-built lists behind.  The editors keep a buffer and a picture of it and
change both by hand.  `PROJECT.json` lists the hazards at their lines, each with the
properties that would notice.

What makes each component correct.

- Session manager: its tables agree; a window's line is evaluated in the window's frame;
  the last window is recognised; no line waits for ever; nothing deadlocks.
- Supervisor: each death is answered with the action of the program that died; the
  session ends as a whole and leaves no sockets; viewman comes back.
- Workspace: frames are independent; `)undo n` gives the frame of step n.
- HyperDoc: Up and Return lead back the way the reader came; no page is shown that was
  freed; every command comes after those it needs.
- Input areas, clef: what is shown is what is kept, the cursor is where the next key takes
  effect, and each key does to the text what its name says.
- Viewports: nobody takes a message for another; a graph in a window is kept; Lisp's calls
  get their own answers and return; buttons show the modes; an old image is flagged;
  what is printed is what is shown; what a write that reports success leaves is its own and comes back.

## 2. The modules

| module | models | notes |
|---|---|---|
| `SessionLinks` | `src/include/com.h`, the queues | sockets and pty as sequences; `RelayOutput` is the I/O process of sman |
| `SessionManager` | `src/sman/session.c` | `Select` takes the snapshot of one pass of `manage_sessions`; `todo` is what is left of it and `Rank` the order in which the code looks at it. One action per handler |
| `LispServer` | `src/interp/server.boot`, `)close` of `i-syscmd.boot` | `lispPc` is where `serverReadLine`, the evaluation or `)close` is waiting |
| `SessionSystem` | the composition, windows and HyperDoc as environment | `Habits` says what users may do in a behaviour |
| `Sman` | `src/sman/sman.c` and the part of the kernel it sees | `Reap` and one action per death action |
| `FrameMap` | what `)frame` promises: a map from names to independent frames | abstract |
| `Workspace` | frames, `)clear`, `)undo` | implements `FrameMap` |
| `Navigation` | what HyperDoc's pages on links promise: levels of pages in each window | abstract |
| `HyperDoc` | windows, stacks, page tables, pages of Lisp, commands and buffers | implements `Navigation` |
| `TextAreas` | what an input area promises: a text with a cursor, a focus, radio groups | abstract |
| `InputLines`, `InputAreas` | the rows of an area; keys, mouse, paste, focus | implement `TextAreas` |
| `LineEditor` | what clef promises: a line of glyphs, a cursor, a history | abstract |
| `Clef` | clef and spadbuf byte by byte, with flags, ring and terminal row | implements `LineEditor` |
| `Viewports` | the manager between Lisp and the viewport programs | items of the pipes one by one |
| `View3D`, `View2D` | one viewport program each, its panel, the requests of Lisp | drawings of `View3D` proceed in stages that events interrupt |
| `Gdraws`, `Drawing`, `Printing` | the drawing library, what is drawn in which style, the PS button and `write(...,"postscript")` | the same calls for window and script |
| `ViewFormats`, `GraphFormats`, `SavedViews` | the untagged data of a viewport through five programs, files and failures | composes `Printing` with the formats |
| `MC...` | the instances TLC checks | one for each component |
| `SessionProofs` | theorems about `SessionSystem` | tables; frames; calm users |
| `SmanProofs`, `WorkspaceProofs`, `View3DProofs`, `View2DProofs`, `HyperDocProofs`, `ViewportsProofs`, `ClefProofs` | theorems about the module named | |

How state corresponds to the code.  Variables have the names of the code's variables.
A `Sock *` is the window it belongs to, `NoSock` is the null pointer.  A line or a
chunk of output is represented by the window it comes from or goes to and, for a line,
by its kind: an expression, `)close` or `)close )quietly`.  `plSock` is the linked list as
a sequence, newest first, as `accept_session_connection` links it.  Descriptors that are
open (`openFd`) are kept apart from those in the mask, because `sread` and `swrite` close
descriptors without clearing the mask, and leave `socket = 0` in the `Sock`, so that the
`FD_CLR` of `close_client` clears bit 0 (`ClearMask`); the number of a closed descriptor may go
to the next peer that is accepted (`FreedFds`).  A misread integer that is one of the commands
the session manager never sends takes Lisp to `"lost"`, which is not followed further.

In `Workspace` association lists become functions from names to cells of `heap`, because
the code overwrites pairs with `RPLACD` and shares them between the environment and the
record of `)undo`; order within an alist is not observable.  Only the property `value` is
kept.  A value is an object: `COPY` (`copy-tree`) makes a new one, which `EQ` in `diffAlist`
tells from the old, so the record contains what the code's contains.  `tail` in `Walk` is
`lastTailSeen`, `at` is the loop variable `framelist`, which the loop body moves.

In `HyperDoc` the record of a window holds the two arrays up to their indices (`memo` with
the `top` that `fDownLinkStackTop` keeps, `down`), the pages of Lisp in its page table, and the
Worksheet object's socket and marks; `todo` is the C stack of `issue_spadcommand`.
In `Clef` the buffer keeps the bytes behind the line, because several operations print
them; in `InputLines` a row keeps the bytes behind `len` for the same reason.  Two variables record
history and are no data of the code: `displaced` in `Clef` and `stray` in `InputAreas`.  `View3D` keeps
of the stored image in what respect it is older than the view (`stale`), and of the light window
whether it holds another light (`otherLight`).  In `Viewports` a
pipe holds items, not bytes; the manager takes the snapshot of `select` and serves the newest
viewport first; an undefined use of the end of the list is a value of its own (`"ever"`).
`View2D` follows `centerX` and one translation; scales are levels 0 to 3 around the clamp.

Definitions with an underscore and a word, such as `IsAnswer_Any` or `Forgets_Fault`, are faulty
variants of the definition they stand before.  They are used only to see that a property
notices.

## 3. The runs

| run | asks | result |
|---|---|---|
| `session_calm` | users wait for their output, `)close` with and without `)quietly`: right frame, exact count, no deadlock, every line reaches Lisp | holds |
| `session_wild` | type-ahead, late windows, HyperDoc, killed windows: do the tables still agree on the open descriptors, are frames distinct | holds |
| `sman_monitor` | the supervisor with reused process ids and deaths in any order: the right action, HyperDoc's socket, the session's end, viewman's return | holds |
| `workspace_careful` | `)undo` returns what it promises, values stay in their frame, frames are independent (refinement of `FrameMap`) | holds |
| `workspace_undo` | does `)undo n )before` give the frame right before step n | no, after `)clear` |
| `view3d_panel` | five operations of user and Lisp with drawings interrupted at scan lines: buttons, image flags, polygons | holds, for careful users |
| `viewports` | manager, Lisp and three viewports, with crashes: pipes in step, graphs kept, calls complete, closing forgets, drops answered | holds |
| `view2d_panel` | two slots, four operations: window current, marks true, other graphs untouched | holds |
| `saved_views` | changes, prints and writes with failures, then viewAlone: paper shows the window, data arrives as sent, what a write that answers 0 leaves is of this write, what is complete reopens | holds |
| `clef` | six users edit, recall, complete and paste: screen, ring, refinement of `LineEditor`, every key processed | holds |
| `hyperdoc` | two windows, pages of Lisp, broken and missing pages, a worksheet: refinement of `Navigation`, live pages, commands in order | holds |
| `input_areas` | keys, mouse and paste on areas of one to three rows: refinement of `TextAreas`, window shows the text | holds |

Bounds.  Two windows are enough for every property about one window against another,
and the table invariants are proved for any number.  `MaxFrames = 3` lets both windows get a
frame beside `initial`; four lines in the calm run let each window evaluate and close, in
both orders.  Wild behaviours are split into three sets of habits, since together they only
multiply: a window and HyperDoc that both die exercise no branch that neither exercises
alone; `session_wild` uses symmetry of the windows, which its properties (no liveness) do not
break.  Six process ids and eight starts let the supervisor start a full session and reuse
ids.  In the workspace two names, two frames, three lines of which one may fail and four
commands are the least that let `)undo` cross a `)clear`, a failing line and another `)undo`
(539,633 states).  `viewports`: one window open at first and two to be made, two keys, two
calls of Lisp and four clicks are what a drop into a window that another call closes needs.
`view3d_panel`: a mode, a request and three drawings; one axis and one first style, as axes
and styles are alike for what is checked.  `view2d_panel`: two slots and four operations,
a pending mode that is answered and a reset in every order (300,256).  `saved_views`: three
steps are a change, a print and a write; three slots of which one is empty; of what a write
loses unnoticed, nothing, the data, a picture, or a picture and the PostScript (161,518).
`clef`: a line of nine bytes, a ring of three, which the fourth line recycles, four reads of
the keyboard, output of the child at any time (115,400).  `hyperdoc`: stacks of depth two, which five clicks fill and overflow,
two pages of Lisp, two buffers, two clicks on commands with a chain of three needs
(829,944).  `input_areas`: rows of two and three characters, lines of one to three rows, four
events (25,002).

Deadlock is checked in `session_calm`: the only states without progress are `Rest`, in
which both programs sit in `select` with nothing to read or the session is over.  It is
switched off where the system may really stop: a killed session, the end of sman, closed
windows, and bounds on operations.

Fairness.  `SessionSystem` assumes weak fairness of the session manager, of Lisp and of
the I/O process of sman: each is a single-threaded process that the kernel runs when it
has something to read.  `Sman` assumes that sman is scheduled and that a process with a
pending SIGTERM ends, which holds because none of the started programs blocks it; a program
that ends by itself is never assumed to.  `DeathsAreAnswered` is the conjunction of
`ViewmanComesBack` and `SessionEndsTogether`.  `Viewports` assumes weak fairness of the steps in
which Lisp reads an answer, the manager serves its snapshot or a program answers; `Clef`
of `KeyStep`, the editor working on bytes it has read.  Users are under no obligation
anywhere.  The other modules have safety properties only.

`TypeOK` is stated in each module with state and can be added to a configuration;
`ClosingMeansAsked`, `TermEndsSession` and `ToldTheClosedWindow` are stated and not run, see below.

### What `Careful` leaves out, and what the code does there

In several modules a constant `Careful` removes steps in which the code does harm, so that
the rest can be checked.  They were met while modelling and are all visible in the source.

- `)undo`: after a change of frame (`x := 1`, `)frame new quark`, `x := 2`, `)undo`: x is 1 in
  quark); after a line that failed with a system command before it (two entries count as one
  step, i-toplev.boot 248); after an `)undo` made while there was a `)clear` or another `)undo`
  not yet recorded or that brought a recorded pair into the environment (`SharesNothing`);
  `)before` when the walk ends with an entry of system commands (`EndsAtAStep`).  The last has
  the run `workspace_undo`: `x := 1`, `)clear value x`, `y := 2`, `)undo 1 )before`: x is 1.
- Session, without runs of their own: a line typed ahead is evaluated in the frame of a
  window served between; a descriptor closed under the session manager stays in its mask, so
  the next `select` fails and the session ends (sockio-c.c 258-262, 288-293, session.c 121, 146,
  411-414); from the 51st frame on a frame number can be taken for `CreateFrameAnswer`; `EndOfOutput` overtakes the output (the comment at session.c 395
  describes a mask the code does not build); `)close` sends HyperDoc the pid of the head of
  the list (session.c 150, comment 106-108; `ToldTheClosedWindow`).
- Supervisor: `wait()` is restarted after SIGTERM and the flag is looked at only when it fails,
  which it never does (sman.c 740, comment 738-739; `TermEndsSession`, theorem `AlwaysAChild`).
- 3D viewport, the smooth style: Lisp's light, translucence, changed points and clipping set
  no flag that `drawPhong` reads (spadAction3d.c 154-163, 209-220, 369-386, smoothShade3d.c
  896), although view3D.spad 251-255 says that `lighting` displays the graph; the clipping, the
  hither plane and switching perspective off set none either (process3d.c 1361-1534), so a
  volume window that is aborted leaves an old image; a drawing that computes the image
  while the light window is open clears `movingLight`, and the light accepted then (306) is not
  shown; PostScript clears the flags of an image that is old; axes toggled in another
  style have no flag (not in `StaleIsFlagged`).  An event between the clearing of the flags
  (smoothShade3d.c 900) and the first scan line loses them, and one between the free (918-920)
  and the copy (924) leaves a list that is freed twice: the run interrupts drawings at scan
  lines only, and with `Interrupts = Stage` both properties fail.
- 3D viewport, the rest: any other button withdraws the quit question but leaves its window
  mapped (1213); `redoDither` is never cleared with a single hue; resetting
  a view does not flag a rotated object; `keepDrawingViewport` says no while a potentiometer is
  held and consumes the release.  Lisp changing scaled axes, or writing an image, under a
  visible panel leaves the buttons behind.
- Manager: closing is told to Lisp although another program had died (cleanup.c 173,
  view2D.spad 918); unknown commands in funView2D and funView3D (fun2D.c 78) put the pipes out
  of step.
- 2D viewport: a pending mode ("2 button sequence events", process2d.c 51) survives other
  clicks, because the test at 772-774 asks for two things at once; a scale above 99 of any
  graph resets that of graph 0 (ug07.htex 650-653); a centre below the minimum goes to the
  maximum; Reset writes "Box Off" on the connect button; Reset of a graph that arrived hidden
  hides it while its marks stay; a drop from a hidden slot does not show (ug07.htex 688-695);
  moving a hidden first graph from Lisp leaves the window stale; `readViewport` spins at end
  of file.  Modelled and allowed by `WindowCurrent`: the axes of a first graph zoomed above 99 are
  drawn before its scale is cut off (viewport2D.c 243-268, 283-286) and stay so, since the release of
  the button draws again only if `followMouse` is exactly `yes` (process2d.c 643), which polling
  counts up (760).
- Printing: an event during the drawing truncates the file without a word (component3d.c 499
  says there is no need to look); opaque meshes in monochrome draw into the window and hide
  nothing on paper; printing the smooth style with box or clip box erases the front sides
  from the window; inverse video prints black on black and reads past an array; after
  `write(...,"postscript")` the PS button goes on writing into that directory while it says
  "in working dir" (process3d.c 732, ug07.htex 720-726); the script leaks on failure.
- Saved views: centre and selection are not restored, scales become those of graph 0; axes
  and light of a scene are saved and ignored, several modes not saved; empty titles, leading
  blanks and long ones break reading; a write answers 0 although a picture is missing or the data or
  the PostScript are cut off (write3d.c 140-142, 184, write2d.c 154, 176, pixmap.c 140-152, no
  `fprintf` or `fclose` is looked at), which `SavedIsThisWrite` allows; when the data file cannot be opened "Nothing was written"
  although the old directory is gone; the image option changes modes and size for good.
- HyperDoc: Up on the first page after a memolink skips the page with the memolink and leaves
  a memo entry above the index (event.c 450 against HTXLinkPage1.ht 33-35, 41); a way back by
  button that ends at the unknown page is recorded again; a link to `UpPage` with nothing to
  go back to dereferences NULL, and so does `Lispcommandquit` in a second window without
  FriCAS; a buffer that dies while needed commands are sent misses those sent before;
  a SIGUSR2 that comes before `gIsEndOfOutput = 0` is forgotten and HyperDoc waits for ever.
  Besides: plain links and closing never tell Lisp that its pages are left (`lost`);
  `close_client` frees a `Sock` that a page still points to; `\replacepage` leaves a freed page
  in the table; F5 and F1 reload and overwrite; a buffer that never connects blocks the accept.
- clef: output that comes while the cursor is inside the line leaves the terminal's cursor behind the
  line, and in spadbuf the line is gone from the row (edible.c 301-304, spadbuf.c 123-128): no user
  can avoid it, so it is modelled (`displaced`), and `ScreenShowsLine` says nothing until output
  ends with a free row or a line is sent; an interrupt sends the child what was typed after it,
  which then is also taken as text (edin.c 413).  Left out by `Careful`: Home goes back one column for each byte (prt.c 99); Insert at the end reprints a stale
  byte; Up and Down with an empty history; overwriting splits `^X` pairs or loses the end of
  the line; function keys are not bounded, print one byte too many and, when immediate, send
  the key unconverted; DEL loses two typed characters; an unknown escape sequence after a
  function key spins; Enter with 1023 characters writes past the buffer; Tab Tab at column 0
  reads `buff[-1]`; completion in the middle of a word; the test of `kill` in `hangup_handler`
  is inverted; a missing completion file leaves the terminal raw.
- Input areas: typing into a line of three rows or with a full second row loses text, and
  stale bytes behind a row come back; overwriting at the wrap mark cuts the next row;
  inserting there moves -1 bytes; Shift-Return on the first line follows NULL; Return at the
  mark drops what follows, and does not number the following lines again; Backspace at the
  front of a row that goes on loses a character (against ug03.htex 192-193); Delete at the mark
  removes the wrong one; deleting the last character of a wrapped row leaves an empty one;
  joining leaves the last row drawn; Right cannot reach the end of a full line and passes the
  mark; Ctrl-End on an empty last row joins, and writes one byte past its allocation;
  paragraphs above 1023 characters overflow `buff`; `move_back_one_char` uses what it freed; the
  value FriCAS gets is read to the NUL, not to `len` (spadint.c 503); keypad keys insert NUL;
  a click leaves a cursor in the old area and a late paste draws one there (input.c 129-130, against
  ug03.htex 212 and 224), which is modelled: `WindowShowsText` allows it in these areas (`stray`) only.

## 4. What is proved

Each theorem holds for every value of the constants that the named assumptions allow; the runs
show the same property on small instances.  The theorems of a component are in a module of
their own, and the proof of a step has one case for each action.

**Session** (`SessionProofs`), for every set of windows, habits
and bounds, assuming `WindowAssumption`, `KindAssumption`, `HabitAssumption`,
`MaxFramesAssumption` (`MaxFrames` is a positive number):

- `TypeCorrect`: `Spec => []TypeOK`.  `TypeOK` is not inductive: `Head(io)` is well typed only
  because a descriptor found readable stays readable until it is served (`TodoReadable`),
  and the ring of Lisp is never empty.
- `ActiveIsListed`, `CountIsExact`, `MaskMatchesList`: the tables of the session manager agree.
  The inductive invariant `ListInv` adds that a window is in the list once, because it waits
  in the listen queue once (`QueuedOnce`), and that windows of the snapshot are still in the
  list (`TodoListed`): Lisp's commands, the only ones that unlink a window, are served last.
  `MaskIsExact` is about open descriptors; what the code leaves in the mask is in section 3.
- `FramesAreDistinct` (`FramesDistinct`), if `MaxFrames < CreateFrameAnswer`: the frame number of
  a window is unique although the session manager may take any integer for an answer.  The
  bound is needed: nothing keeps the 51st frame from having the number 50 of
  `CreateFrameAnswer`.  What makes it inductive (`AnswersFresh` in `FrameInv`): every answer to
  `CreateFrame` that is still in a link names a frame nobody has, no two of them the same, and
  the other integers of the protocol are too small to look like one.
- `LinesStayInFrames`, `FramesAreKept`, `ManagerSurvives`, `ClientsAreCounted`: as long as the
  peers wait their turn (`env = {}`), a line is evaluated in the frame of its window, frames
  outlive their windows' use, the session manager survives, and the number that `)close`
  gets is right.  `CalmInv` lists the phases a request goes through (`Phase`: what is in each
  link and where the two loops stand) with one window connecting at a time (`OneConnects`).
  No bound on the frames is needed here: a waiting session manager can read nothing but the
  answer, which names the newest frame (`Fresh`).
  The run `session_calm` is made of such peers; section 3 says what goes wrong with others.

**Supervisor** (`SmanProofs`), for every set of process ids and every choice of programs,
assuming `SmanAssumption`:

- `SmanTypeCorrect`, `DeathActionIsRight` (`ServedRight`): the entry that `find_child` finds is
  that of the program that died.  The invariant behind it is `FirstRight`: the *first* entry
  with the id of a child is its own, which holds because entries are put at the head.
- `AlwaysAChild`: while sman monitors, it has a child, so `wait()` cannot return -1 for want
  of one and the `death_signal` branch cannot run.
- `MenuSocketIsOwned` (`MenuSocketOwned`): the socket of HyperDoc is in the file system only
  while HyperDoc has not been waited for.  It needs `ServedRight`: the action that removes the
  socket has to run for HyperDoc's death and for no other.

**Workspace** (`WorkspaceProofs`), for all names, variables, values and bounds, assuming
`WorkspaceAssumption` (the initial frame exists, the set of variables is finite), for careful
users (section 3):

- `WorkspaceTypeCorrect`, `ValuesAreOwn` (`OwnValues`): although pairs are shared between an
  environment and the record of `)undo` and are overwritten in place, a frame holds no value that
  was not assigned in it or imported into it.  That is a statement about careful users: an `)undo`
  after a change of frame, which `Careful` leaves out (`intact`), does mix the values of two frames.
- `FramesAreIndependent`: the ring of saved records, the globals and the heap of pairs
  implement `FrameMap`, a map from names to independent frames.  `WorkInv` says that the pairs
  of two frames are disjoint (`NoShare`), that an intact record is about the current frame
  (`RecordSound`), that the head of the ring holds the current environment while it is the same
  list (`headIsEnv`), and that names occur once.  Searching the ring is reasoned about with the least index that
  matches.  `Careful` is needed: `workspace_undo` shows what happens without it.
- `UndoGivesBack` (`UndoReturns`): `)undo n` gives the frame right after step n, or right before
  it.  The invariant `UndoSound` places the entry of every step in the record (`Laid`; there may be
  one entry of system commands between two of them), says that each entry leads from what was seen
  after it to what was seen before it (`Tells`), and that no pair is in two entries, or in one and
  the environment (`Apart`).  `WalkTells` follows the walk of `undoSteps` with it: every stop is at
  a step and the entries not reached yet are untouched, although the steps overwrite pairs.

**3D viewport** (`View3DProofs`), for any axes, styles and bounds, assuming `View3DAssumption`:

- `View3DTypeCorrect`, and `ButtonsShow` (`ButtonsShowMode`) for careful users.
- `StaleGetsFlagged` (`StaleIsFlagged`) for careful users and interrupts at the scan lines: of
  all the requests, panels, styles and interrupted drawings only those that section 3 lists
  lose the need to compute the image.  `ViewInv` is made of a half about modes and buttons and
  one about the stored image (`Good`), which every request of the panel and every stage of a
  drawing keep.  That the list of polygons is sound unless a drawing is interrupted in the gap
  after the free is the lemma `ListIsSound`.

**2D viewport** (`View2DProofs`), for any slots, attributes and number of operations, assuming
`View2DAssumption`:

- `ViewTypes`: `Spec => []TypeOK`, for all users.
- `ViewIsCurrent` (`WindowCurrent`), `PanelMarksTrue` (`MarksTrue`) and `ButtonsKeepOthers`
  (`OthersKept`), for careful users (section 3); among them, none scales a graph other than the
  first above 99, where `OthersKept` fails.  The difficulty is that `drawTheViewport` is
  not a function of the state: it cuts scales off and thereby changes the graphs it draws, even
  the first one while it draws another.  The invariant `ViewInv` therefore says that between two
  operations nothing is left to cut off (`InScale`, for all the graphs at once in `ScalesInv`), so
  that drawing once more would change nothing (`DrawKeeps`): what the window shows is then
  `Picture(graph)`, but for the axes of a first graph that was cut off (`Pictures`, `CutPicture`),
  and an operation on some graphs leaves the others as they are.

**Clef** (`ClefProofs`), for any length of the history, any lines and any number of keys,
assuming `SizeAssumption`, for all users, careful or not:

- `RingStaysSound` (`RingSound`): the invariant `RingInv` says that some function `s` lists the
  nodes from the newest to the oldest (`Lists`), which determines all pointers, and that *no two*
  of the newest `prev_check` hold the same line (`NoneTwice`).  `RingSound` speaks of the newest one
  and the others only, and is not inductive: the second newest is the newest again after the
  next line.  `insert_queue` puts a new node before `s`, overwrites its last one or moves one to the
  front.  `Older`, which follows `prev` i times, is the i-th node of `s`, by the least i for
  which it were not.

**HyperDoc** (`HyperDocProofs`), for any windows, pages, links and commands and stacks of any
depth, assuming `HyperDocAssumption`, for careful users:

- `PagesStayAlive` (`PagesAlive`): `PagesInv` says that a page of Lisp is remembered in one
  window only and there in the table, and that the tops of the memo stack do not decrease
  and do not pass the index, so that going back never reads a slot that was given up.
- `CommandsComeInOrder` (`CommandsInOrder`): `CallsInv` says that a command marked as
  done stands for a line its buffer received, and that a call waiting on the stack has passed
  only needs that are done, but for the one that is being sent.

**Viewport manager** (`ViewportsProofs`), for any sets of viewports, keys and slots and any
number of calls, clicks and crashes, assuming `ViewportsAssumption`, for careful users and Lisp;
programs of viewports may die at any time:

- `ViewportsTypeCorrect`; `ManagerInSync` (`InSync`): nobody takes a message for another, though
  no message says what it is, and nobody names a graph the manager has discarded.
- `HeldGraphsStay` (`HeldGraphsKept`), `CallsAreComplete` (`CallsComplete`) and
  `ClosedViewportsGo` (`ClosedIsForgotten`).

All five come from one invariant, `SyncInv`, which TLC checked on the instance of `viewports`
before it was proved.  `PhaseInv` lists the phases of a call: where Lisp waits, where the manager
is and what is in their two sockets.  `LinksInv` does the same for every program: its part in the
present call (`Role`) and its own state determine what travels to it, up to the answer to one
drop, and what may come from it.  `PlacesInv` says what the list and the snapshot of select
know of a program that has died or is about to.  The graphs need an argument about the
future: a graph that was picked up, or that a call names and the manager has not passed on, must
survive every window that may still be closed.  `KeptInv` counts: the manager has as many
views of a graph in a window as the window shows and is about to be sent.  `PickInv` and
`PromiseInv` say that some window is an `Anchor`: it has one view more than it will
give back when it says goodbye, or the graph is one that `rmViewMgr` never discards because
the end of its list of views was not initialized (`"ever"`).

Only model-checked:

- All liveness (`LinesReachLisp`, `DeathsAreAnswered`, `KeysProcessed`, `NobodyWaits`): the
  prover has no rule for fairness and `ENABLED`.
- `Browses`: the refinement maps the stacks by `FlattenSeq` and levels of memolinks, which are
  recursive; for the same reason `ScreenShowsLine` and `EditsWhole` of clef (recursion over the
  bytes of the line) and `Printing`, `SavedViews` (folds over the scene).
- The input areas: `InputLines` declares a RECURSIVE operator.

## 5. What is not modelled

- In the session: `QuerySpad` and `KillSpad` (`read_menu_client_command`): no program of the
  repository sends them (the sender of the first is commented out in `src/hyper/lex.c`);
  interrupts and echo of spadclient; the 60 second limits of `connect_to_local_server`.  The
  set of frames is bounded by `MaxFrames`.
- In the supervisor: options and command lines, `ptyopen` and `fork` that fail, the record and
  paste options of HyperDoc, sockets left by earlier sessions.
- In the workspace: types and modes, macros, the history file, `)undo )redo`, `)undo 0` (it
  counts as all steps, while the manual says none), `)set undo off`.
- In the viewports: numbers and geometry, colours and X resources; in the manager the
  switches of the panel, the states of graphs, `fork` and `malloc` that fail.
- In HyperDoc: layout and scrolling, the parser of pages, paste buttons, F1 and F5,
  `\replacepage`, Unix links, the list of `close_client`, cursors.
- In input areas: layout, scrolling and help keys, modifiers that beep, the pictures of boxes.
- In clef: signal handlers and exit, start and fork, raw mode, the `.clef` file, equivalent escape sequences, characters of 3 and 4 bytes.
- In saved views: the PS button when `x.VIEW` is gone, normals and colours, what viewAlone makes of
  a data file that ends too early; `Printing` assumes that writes to an opened file succeed.
- The parts listed as `not_modelled` in `PROJECT.json`, with the reason.

## 6. Plan

1. Done: the session (manager, Lisp server, links), supervisor, workspace, viewport manager, 2D
   and 3D viewports, printing and saved viewports, clef, HyperDoc and its input areas; the
   theorems of section 4.
2. Next proofs: `Browses` of `HyperDoc` and `EditsWhole` of `Clef`, with recursive functions unfolded by
   least index as in `WorkspaceProofs` and `ClefProofs`.
3. Later modules: `History` (`$HistList`, reset, save and restore, against an abstract map from
   steps to values), `ReaderLoop` (the continuation buffer shared by all windows, errors,
   interrupts), `Include` (conditional levels against a reference), the caches of slam and clam.
