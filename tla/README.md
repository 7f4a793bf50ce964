# linux-mod in TLA+

Specifications of the kernel modules in this repository, checked with TLC on
small instances; the safety of most of them is also proved, for every instance,
with TLAPS.

linux-mod is a collection of independent Linux modules.  They share no state
with each other; what they have in common is the hard part of kernel code:
several processors, timers and user threads in the same few lines, wait queues,
reference counts, callbacks that come back under a lock, and init functions that
have to undo themselves from any step.  The project therefore has one
specification per driver, or per part of a driver with state of its own, and
composes those that are checked in one run: `Virtnet`, `Usb`, `Drivers`, and for
TLC only `MCChardev` and `MCDrivers`.

## Contents

| file | what it is |
|---|---|
| `Pipe.tla` | abstract: what a pair of cpipe devices promises |
| `Cpipe.tla` | cpipe in detail; implements `Pipe` |
| `CpipeProofs.tla` | theorems about `Cpipe`, for every value of the constants |
| `MCCpipe.tla`, `CpipePoll.cfg` | the calls of the instances of `Cpipe` |
| `Bufhub.tla`, `BufhubDestroy.cfg` | the life of bufhub's clipboards |
| `BufhubProofs.tla` | theorems about it |
| `Clipboard.tla` | what a clipboard holds, under the files that read, write and seek in it |
| `Echoserial.tla`, `Echoserial.cfg`, `EchoserialJam.cfg` | one port of echoserial under the serial core |
| `EchoserialProofs.tla` | theorems about it |
| `VirtnetNet.tla` | what a virtnet interface counts, for either backend |
| `VirtnetLb.tla`, `VirtnetChr.tla` | the loopback and the character device backend |
| `Virtnet.tla`, `Virtnet.cfg`, `VirtnetLbUninit.cfg` | an interface with one backend or the other |
| `VirtnetProofs.tla` | theorems about both backends |
| `Usbtunnel.tla`, `UsbtunnelSimple.cfg` | control requests through usbtunnel |
| `Tunnels.tla` | usbtunnel's list of tunnels |
| `Usblb.tla` | one bus of usblb |
| `Ticker.tla` | usbticker: the gadget function and the host driver |
| `Usb.tla`, `Usb.cfg` | the four USB modules |
| `UsbProofs.tla` | theorems about them |
| `ListProofs.tla` | lemmas about the kernel's lists, and about putting sets of numbers in order |
| `Sleeper.tla` | sleeper's threads and their removal |
| `Bddtree.tla` | bddtree's drivers and devices |
| `Confmirror.tla` | confmirror's items and kobjects |
| `Deepfs.tla`, `DeepfsDesign.cfg` | deepfs: mount, links, listings |
| `Bringup.tla`, `BringupVirtblock.cfg` | how eleven drivers come up and go, with a failure at any step |
| `BringupProofs.tla` | the invariant of `Bringup` and the lemmas that keep it |
| `Drivers.tla` | `Sleeper`, `Confmirror`, `Deepfs`, `Clipboard` and `Bringup` |
| `DriversProofs.tla` | the theorems about these five and about `Bddtree` |
| `MCChardev.tla`, `Chardev.cfg` | `Cpipe`, `Bufhub` and `Bddtree`, checked in one run |
| `MCDrivers.tla`, `Drivers.cfg` | the parts of `Drivers`, and `Cpipe`'s liveness |
| `PROJECT.json` | components, runs, mutants, the map from definitions to source lines, hazards, findings, theorems |

To check: `tlc -config Chardev.cfg MCChardev.tla` (and so on, see the table of
runs).  To prove: `tlapm CpipeProofs.tla`, and likewise `BufhubProofs`,
`EchoserialProofs`, `VirtnetProofs`, `UsbProofs`, `ListProofs`, `BringupProofs` and
`DriversProofs`; `UsbProofs` and `BringupProofs` take about four minutes each,
`DriversProofs` about ten, the others less.

## Inventory

### Drivers in which several actors share state

**cpipe** (`cpipe/cpipe.c`).  Pairs of character devices: what is written to one
is read from its twin.
*State*: per device a kfifo, the mutex that guards it and two wait queues.
*Operations*: read, write, poll, two ioctls that tell lengths, open, release;
creation of the pairs at module init.
*Interaction*: each device reaches through `twin` for the other's fifo, mutex
and queues.
*Hard*: the order of prepare_to_wait, unlock, test and schedule; signals; poll
against a mutex that is busy; copies that fault half way.
*Correct if*: a bounded FIFO channel in each direction on which calls are
atomic; no lost wake-up; mutexes balanced; no wait entry survives its call.

**bufhub** (`bufhub/bufhub.c`, `bufhub_ioctl.h`, `test.c`).  Clipboards created
through a control device, opened through nodes of their own.
*State*: the table of minors, each clipboard's kref, buffer and mutex, each
master's list of slaves.
*Operations*: IOCCREATE, IOCDESTROY, open, read, write, seek, close, release of
the control device.
*Hard*: the table is read without its lock; references are taken late or not at
all; the list walk drops its lock around a put; device_create can fail after the
minor was published.
*Correct if*: the count equals the references held; an open clipboard survives
its master; nothing is leaked; each master only drops its own.

**echoserial** (`echoserial/echoserial.c`, `test.c`).  Serial ports that echo.
*State*: per port a kfifo, two timers with an active flag each, mcr, msr, the
rate; the serial core's transmit buffer and `hw_stopped`.
*Operations*: the uart_ops (startup, shutdown, set_termios, set_mctrl, start and
stop of both directions) and the two timer handlers.
*Interaction*: the handlers call into the serial core, which calls the port's
start_tx and stop_tx back under the same lock.
*Hard*: handlers that have expired while del_timer removes their timer; two
parties that each remember CTS; buffers that wait for each other.
*Correct if*: bytes come back once and in order; core and port agree on CTS; a
closed port is quiet; everything written comes back.

**virtnet** (`virtnet/virtnet_net.c`, `virtnet_lb.c`, `virtnet_chr.c`,
`virtnet_backend_glue.c`).  Network interfaces with a choice of backend.
*State*: loopback: a list of entries with a timer each, a count of entries, a
lock; character device: a list of packets, a wait queue, a lock; both: device
statistics, the list of interfaces.
*Operations*: xmit, timer expiry, recv, uninit; read, write, poll, open of the
character device; sysfs attributes.
*Hard*: the removal walks the list that handlers free entries from and drops the
lock around del_timer_sync; who frees an skb; poll before enrolment.
*Correct if*: every packet is accounted for once; the removal ends, waits for
every handler, and uses no freed memory.

**usbtunnel** (`usbtunnel/usbtunnel.c`).  A USB gadget that forwards control
requests to a real device on the other side of the machine.
*State*: per tunnel `ctrl`: the current setup packet, the flags in and status,
in_progress and the list of pending requests, one usb_request, one work item;
endpoint maps; the list of tunnels.
*Operations*: setup, completion of endpoint 0, the worker, probe and disconnect
of the device, unbind of the gadget, add and del commands.
*Hard*: the setup callback, the completion callback and the worker share `ctrl`
with only in_progress between them; the device goes while the worker waits for
it; failures are not passed on.
*Correct if*: requests are forwarded once, in order, with their own data; the
host is given the answer to its own request; every request is answered.

**usblb** (`usblb/usblb_main.c`, `usblb_glue.c`, `usblb_host.c`,
`usblb_gadget.c`).  A virtual host controller and a virtual device controller
joined back to back.
*State*: per bus the queue of URBs, the port's status and change bits,
connected_ends, the request lists of two endpoints, a transfer timer and a reset
timer.
*Operations*: hub control and status, urb enqueue and dequeue, gadget start,
stop, pullup, queue and dequeue, both timers, bus setup and cleanup.
*Hard*: completion handlers run inside the timer's walk over the queue and
append to it; the reset timer is nobody's to delete; teardown order.
*Correct if*: an URB is queued exactly while it is owed; the port is connected
exactly while both ends are, if each reports in turn; teardown leaves nothing queued
or armed.

**usbticker** (`usbticker/f_ticker.c`, `ticker.c`).  A gadget function whose
timer queues its count on an interrupt endpoint, and a host driver that keeps an
URB in flight and shows the last count.
*State*: the function's request, timer, `active` flag and count; the host's URB
and last count.
*Operations*: enable, disable, the timer's handler, completion; probe, disconnect
and the URB's callback.
*Hard*: the handler reads `active` and arms the timer in two steps; an enable that
fails half way is followed by a disable.
*Correct if*: the request is there whenever it is used; ticks go on.

**sleeper** (`sleeper/sleeper.c`).  Threads on wait queues of their own, woken
through debugfs `wake`, counted in `stats`, stopped at exit.
*Hard*: prepare_to_wait, test, schedule against wake and kthread_stop; the files are
there before the threads are.
*Correct if*: no wake-up is lost; a removal ends; nobody touches a thread that is
not there.

**bddtree** (`bddtree/bddtree.c`).  A bus, drivers and devices created and deleted
through sysfs attributes.
*State*: the bus's list of drivers, each driver's list of devices, a lock for each;
the driver core's own lists.
*Hard*: `bddtree_device_find` drops its reference before the use, and the walks drop
their locks around each destruction.
*Correct if*: registered and listed agree; nothing is used after it was freed; the
removal leaves nothing.

**confmirror** (`confmirror/confmirror.c`).  configfs items mirrored by kobjects
in sysfs.
*Hard*: the item's reference count is shared by configfs, the kobject, rmdir and
open files, whose last puts come in any order; mkdir may be undone.
*Correct if*: the count equals the holders, and memory is there as long as it has
one.

**deepfs** (`deepfs/deepfs.c`).  Nested generated directories, made at mount.
*Hard*: recursion with failing steps; a listing that is cut short goes on from a
position that counts files and subdirectories together.
*Correct if*: a mount makes the whole tree; links lead where `design.txt` says; a
listing returns every entry once.

### Drivers whose data path is trivial and whose bring-up is not

**virtblock**, **rtc-jiffies**, **firmreq**, **simpleattr**, **simplat**,
**gpio-virtual**: what they keep is memory behind a lock, or one word.  Their init
and exit acquire and release a dozen resources for each of several devices, and so
do those of cpipe, bufhub, echoserial, usblb and virtnet.
*Hard*: which label to jump to, how far to unwind, in which order, and what is
visible to users in between.
*Correct if*: nothing is released that is not there, nothing is there without what
it uses, and nothing is left.

### Not modelled

**nldummy**, **seriorepeater**, **interceptor**, **proccount**, **xprintk**,
**elfsect**, **exporter**, **hello** and **utils** keep no state, or one word that
is set in one place: nothing happens in them that depends on an order of events.
**binfmt_brainfuck** is a sequence of kernel calls and an interpreter in user
space, a sequential program.  `PROJECT.json` has a line on each.  Of the modelled
drivers these parts are left out: virtblock's request function, gpio-virtual's
registers and rtc-jiffies's clock (each a few lines of arithmetic under one lock
with no other actor's state in them); virtnet's statistics attributes and packet
dump; usbtunnel's endpoint maps and descriptors; the lengths of USB transfers;
echoserial's modem status ioctl and break.

## The modules

### Pipe, Cpipe

A thread in a system call has a program counter `cpPc[t]`; a step is the code
between two points where another thread can be observed: taking the mutex,
copying, waking, releasing, prepare_to_wait, the test in cpipe_wait, schedule,
finish_wait.  `read` and `write` share their actions because the C code is the
same up to exchanging the two queues and the condition (`Chan`, `WaitQ`, `WakeQ`,
`Room`, `MustSleep` make the difference).

| variable | in the code |
|---|---|
| `fifo[d]`, `owner[d]` | `rfifo` and the holder of `rmutex` |
| `waitq[<<"rq", d>>]`, `waitq[<<"wq", d>>]` | the wait queues `rq` and `wq` |
| `unwoken` | threads in TASK_INTERRUPTIBLE that no wake-up has reached; pollers not triggered |
| `sig` | `signal_pending` |
| `cpPc`, `call`, `ret`, `moved`, `mask` | where a thread is, what it was asked to do, with what result |

`Pipe` knows only two channels and the calls in progress; a call succeeds at one
instant or fails and leaves no trace.  `Linearizable` says that `Cpipe`
implements it with `chan <- fifo`; a call takes effect at its copy, when the
detailed model still says "busy" and is about to wake, hence the mapping of
`ret`.

Signals are delivered only at the four places that look for one.  A fault in the
user's buffer may come before the first byte; one after some bytes
(`PartialFaults`) is in the model, and in the theorems that do not depend on
it, but is off in the runs: the code keeps those bytes, wakes nobody and returns
-EFAULT, so that neither atomicity nor the wake-up can hold (see the hazards).
The creation and removal of pairs is in `Bringup`.

### Bufhub

Masters (open control devices) and files (open clipboards) are the threads.
IOCCREATE is five steps, because the clipboard can be found through its
minor and its node before it is on its master's list; the last put is four,
because unlinking, device_destroy, clearing the minor and kfree are each visible;
`miscdev_release` walks the list with the two cursors of
`list_for_each_entry_safe`.  An access to freed memory is recorded in `oops`
and ends the behaviour, so that nothing is concluded from what follows.  The node
of a clipboard can outlive it, as an inode that is being opened can.  Memory is
not reused, so a stale pointer always shows.  A master has one ioctl at a time: a
program with two threads in ioctl on one control device can race IOCDESTROY with
IOCCREATE or with itself, and where that does harm (the clipboard that one of them
destroys is in the other's hand) `IoctlRaces` ends the behaviour.

### Clipboard

The contents, with the life left out: two files on one clipboard.  A byte is known
by whether it was written since the clipboard was emptied last.  Each call holds
`buf_mutex` from start to end, so it is one action.  `clLen - pos` is taken modulo
the word, as `buf_len - *ppos` is in C.  The calls can fault after any number of
bytes: `read` and `write` then return how many bytes were *not* copied, and leave
position and length alone.

### Echoserial

All handlers run under port->lock, so each is one action; a timer that has
expired waits in `running` while other actions are taken, which is what
`del_timer` does not prevent.  The serial core is modelled as the driver uses it:
`uart_write` starts the transmitter unless `hw_stopped`,
`uart_handle_cts_change` calls back start_tx and stop_tx (`CtsChange`).  A close is
four steps of the core: it stops reception (`StopRx`), shuts the port down
(`Shutdown`, after which no timer is armed, but a handler may still spin on the lock),
frees the transmit buffer (`FreeXmit`) and flushes (`Flush`).  A transmit handler that
comes that late and finds the buffer freed uses it all the same: `phase` is then
"crashed" and the behaviour ends.  Bytes are numbered; rates are
numbers, of which one is too slow to move a byte per interval.  `while (count--)`
leaves count at its largest value, so CTS goes up after every pass that was not
held back by RTS: the model does what the code does.

### VirtnetNet, VirtnetLb, VirtnetChr, Virtnet

`VirtnetNet` has what the interface counts, and the choice of the backend when the
module is loaded; each backend extends it and calls its transmit and receive paths.
`Refused` is a receive that fails: for want of memory, or because netif_rx dropped
the skb, which it has then freed; virtnet_recv frees it again.  `netOops` records that
and the behaviour ends, so that the other properties are about what comes before; the
run `virtnet_skb` is about the second free itself.

*Loopback.*  An entry per packet; the handler is three steps (receive, unlink under
the lock, unlock), the removal one step per piece between two lock operations.
`dev` is the program counter of the removal.  Freed memory is recorded in `oops` as
in Bufhub.

*Character device.*  A task is one open file with one call at a time: a reader takes
a packet off the list or enrols, tests, sleeps; a poller tests, then enrols, as the
code does; a writer hands a packet to the receive path.  The removal frees the
packets and leaves them linked, takes the node away, frees the statistics and then the
interface; a task whose file is open can use each of these too late, recorded in
`chrOops`.  The reference that class_find_device takes in open, and that nobody gives
back, is on the node's device, which is in nothing the model has.

### Usbtunnel

`ctl` is `struct usbtunnel`'s `ctrl`; what the callbacks do to it are operators
from record to record (`DoSetup`, `ProcessPending`, `EpComplete`), so that a
callback can be called from several actions, as it is in the code.  The worker
stops at each call into the USB core: while the device works, after it answered,
and between queuing the answer and `process_pending_ctrl`.  A host sends one
request at a time; it may give one up (`HostAbandons`) and send the next, which is when
the pending list is used, and the memory for an entry of that list may be short, which
the host sees as a stall.  The controller takes a request back that it still has for
one given up (`UdcGivesBack`).  All four kinds of request are in every run.

What the code does not look after ends some of the promises, and history variables
remember it.  `broken`: a request failed, was given up, or was cut short because the
device went; nobody is told, and whose data is in the buffer is open from there on.
`overrun`: the worker called `process_pending_ctrl` when the tunnel was already at
another request, or while the status stage was still queued and another request
pending (an OUT request without data is enough, see `usbtunnel_simple`).
`tunOops`: the worker used the device or `ctrl.req` after they were gone; the behaviour
ends there.

### Tunnels

Writers of `match` and the hub's thread are the actors; each looks a tunnel up under
the list's lock and goes on without it and without a reference.  `tlRaced` remembers
that two of them had one tunnel in hand, which is where most promises end.

### Usblb

A uniprocessor build: code under the bus lock runs to its end, the timer's walk stops
between two URBs only because of what it gives back, and completion handlers submit
and queue again inside it (`GiveBack`, `Transfer`).  On a multiprocessor the inverted
test at `usblb_host.c:164` takes the bus lock twice at the first connect event.  Power
and pullup can be switched on and off any number of times on end, and each time is an
event that `connected_ends` counts, modulo 256; `reports` keeps the balance of either
end's events.  A completion handler may submit its URB again, and unlink another one,
whose handler may submit as well; where that is the very node that the walk has read
as the next one, it goes on from freed memory and the behaviour ends (`busOops`).
`passed` is the URBs that this run of the timer has dealt with.  `seen` is what the
hub driver last read of the port.  A gadget driver that stops has dequeued its
requests, as the composite framework does.  Lengths of transfers are left out.

### Ticker

`tk` is `struct f_ticker`, `tkHost` the host driver.  The composite core, the
timer's handler and the host's USB core interleave; the handler is two steps,
because `active` is read before the timer is armed.  An enable may fail at each of
its steps.  composite.c then resets the configuration, and with it disables the
function, if it was setting a configuration; a failing SET_INTERFACE (`iface`) is only
answered by a stall.

### Sleeper, Bddtree, Confmirror, Deepfs

*Sleeper*: a thread's loop is a step per call that another thread can come between;
`kthread_stop` is three (flag, wake, join); the module's init and exit are steps as
well.  *Bddtree*: the two attributes' writers and the module's exit are actors, each
with the object it has in hand; the driver core keeps an account of its own of what is
registered, so that the two can disagree.  There is one driver name: drivers meet only
in the bus's list, where a second one adds nothing to what one driver, deleted and
added again, shows.  The driver core's own bind and unbind attributes are left out:
devices are bound and unbound by what bddtree does.  *Confmirror*: configfs serialises
mkdir and rmdir; files and sysfs reads go on meanwhile; `refs` is the config_item's
count and `CmHolders` who should have one.  *Deepfs*: the recursion of
`deepfs_dir_create` is a stack of loops; a listing is any number of getdents with any
room.

### Bringup

A driver is a table: what is acquired once, per device, and per device at the end;
for each step what its label releases, and what the cleanup and the exit release,
in the order of the code.  The actions follow the table, one loop after another:
`pc` says which (`once`, `each` and `final` of init; the labels, `undo`; the cleanup of
the devices before the failed one, `unwind`, and of what they share, `abort`; `exit`
and `down`), `dev` which device it is at, `todo` and `pos` what it goes through and how
far it has come.  `BuStep` acquires, `BuFail` fails, `BuRelease` releases one resource;
`BuUp`, `BuUnwind` and `BuExited` go to the next device or the next loop.  `needs` says
who uses what; `lies` marks the steps after whose failure init returns no error, so
that the kernel keeps the module; `leaks` what is never released.  The gaps known so
far are listed in `BuGaps` and nowhere else: firmreq's attribute before and after its
firmware, a cpipe end while its twin is made or destroyed, and the platform device of
usblb that is put and not deleted.  Nothing else is excepted but the disks of virtblock,
whose cleanup deletes what was never added (run `virtblock_unwind`).

## Runs

The passing runs.  Each property of each has a mutant in `PROJECT.json`: one
plausible error in one action, beside which TLC finds the property violated.

| run | instance | what it shows |
|---|---|---|
| `chardev` (`Chardev.cfg`) | *cpipe*: 2 threads, 2 bytes of capacity, 10 calls; *bufhub*: 2 masters, 2 files, 2 clipboards, 2 minors; *bddtree*: 1 driver, 2 devices, 2 ids, 2 writers: 1,141,304 (up to symmetry) | types and capacity, balanced mutexes, no stale wait entry, refinement of `Pipe`; counts and lists are exact, open clipboards survive, nothing is leaked; lists against lookups |
| `drivers` (`Drivers.cfg`) | up to 2 devices of each of 11 drivers; sleeper: 2 threads, 2 wakes; cpipe: 3 threads, 1 byte, blocking read and write; confmirror: 2 items, 2 files; deepfs: depth up to 3, 1 failure; a clipboard: 2 files on 2 bytes: 108,738 | bring-up and unwinding; wake-ups and the end of a removal; no lost wake-up in cpipe, and that blocked calls are served; reference counts; trees and listings; a clipboard's contents |
| `echo` (`Echoserial.cfg`) | 3 bytes of transmit buffer, kfifo of 2, 3 rates, 5 bytes written: 129,080 | order and completeness of the echo, flow control, timers of a closed port, progress |
| `virtnet` (`Virtnet.cfg`) | 3 packets over the loopback, 2 tasks, 2 packets and a write over the character device: 109,872 | accounting, end and completeness of the removal; packets read in order, no reader asleep on a packet, readers served |
| `usb` (`Usb.cfg`) | 3 requests of 4 kinds, 2 plugs, faults; 3 tunnels, 2 writers; 3 URBs, 1 request per endpoint, 3 events; 3 ticks, 2 configurations: 186,187 | requests forwarded once, right answers, honest flags; the list against lookups; URBs neither lost nor doubled, honest port; the ticker's request; that requests are answered, URBs come by, ticks go on |

Drivers that have nothing to do with each other are checked in one run as alternatives: the
first state chooses whose behaviour it is.

Why the bounds are enough.  *Cpipe*: two threads give every pair of operations on the
two devices; three are needed for a wake-up that the wrong sleeper takes.  Two bytes
distinguish partial from full transfers and order. *Bufhub*: two files make an open
race with a last close, two masters a destroy with a release, two clipboards a list
with a neighbour.  *Echoserial*: the transmit buffer, the kfifo and the bytes per
interval each get to be the smallest of the three limits, both buffers can be full at
once, and five bytes leave some to be written after a close. *Virtnet*: three entries
give the middle of a list and both ends; two tasks let one take the packet that the
other was woken for. *Usbtunnel*: one request in service, one pending and one on
its way, or one of them after a removal.  *Usblb*: power, pullup and reset, or one end
connected twice or gone again; two URBs of one endpoint and a control URB, so
that a handler can unlink the node before, the node after and the one at the end.
(That `connected_ends` wraps after 254 events is out of TLC's reach; the theorem
covers it.)  The graph of these states has to be searched for cycles as well, hence
three requests and three events and not more.  *Drivers*: two devices tell the
unwinding of the devices before the failed one from that of the failed one; two writers race for one
object; depth 3 has directories with siblings and children; two bytes and a position
past the end make the unsigned difference wrap. `MaxBytes`, `MaxRequests`, `MaxPlugs`,
`MaxEvents`, `MaxPackets`, `MaxSent`, `MaxWrites`, `MaxTicks`, `MaxConfigs`,
`MaxWakes`, `MaxFiles`, `DfMaxFails`, `DfMaxRoom`, `ClMaxCount` and `ClMaxPos` bound
what in the code is unbounded.

The runs that TLC finds violated, each a disagreement between the code and
what its comments or tests say (quoted in `PROJECT.json`, "findings"):

| run | what happens |
|---|---|
| `cpipe_poll` | poll's `mutex_trylock` fails against a writer, the writer wakes `rq`, the poller enrols afterwards and sleeps on data |
| `bufhub_destroy` | IOCDESTROY of an open clipboard leaves it on the master's list; closing the master drops the reference a second time and frees a clipboard that is open |
| `echo_jam` | reception is limited by the room in the *transmit* buffer: with both buffers full nothing moves again |
| `virtnet_lb_uninit` | the removal keeps using an entry that its running handler frees, and frees entries that stay linked |
| `virtblock_unwind` | a later disk cannot be set up; the cleanup of the ones before it calls del_gendisk on disks that add_disk never saw |
| `deepfs_design` | the root has no link, and the last siblings' links lead elsewhere than `design.txt` says |
| `usbtunnel_simple` | for an OUT request without data the worker and the completion both end the request, which lets a third one in while the second is being served; an IN request is given the answer to another one, before the device was asked |

Some properties of the passing runs stop where a finding or a known weakness
begins, and say so in their comments: `OpenSurvivesUndropped` (until an IOCDESTROY, for
which there is `bufhub_destroy`); `EchoedOrJammed` and `WriterWoken` (or jammed, see
`echo_jam`); `RemovalComplete` (uses of freed entries count while the interface is up, see
`virtnet_lb_uninit` for the rest; not the skb); `ChrNoLostWakeup` (but for pollers
whose packet came before their enrolment); `BringupSound` (but for virtblock's disks after
a failure, see `virtblock_unwind`, for `BuGaps`, and for what a module releases that stays
although its init failed); `RightAnswer`, `ForwardedOnce` and `CtrlHonest` (until the worker
overruns another request, see `usbtunnel_simple`, and where they speak of data until a
request is cut short); `PortHonest` (until `connected_ends` may have wrapped);
`TunnelsSound` and `BddtreeSound` (until two actors have one object in hand, but for the
list itself and the uniqueness of names); `TkRequestThere` (until an enable failed);
`SleepersSound` (while the module comes up or goes); `ClipboardSound` (from a position past
the end).  Where a comment, a document or a test promises more than such a
property does, there is the run named here that shows it broken, but for two places in
virtnet, which are in the model and have no run of their own.  The comment at
`virtnet_net.c:282-283` has the skb freed only on an error of virtnet_recv's own; but
when netif_rx drops the skb, and frees it, lines 285-286 free it again.  The model has
that (`Refused` sets `netOops`) and ends there, since nothing is known of the kernel
after a double free, and no property promises that it does not happen.  And
`virtnet_chr.c:128` says that the device is readable when the packet list is not empty;
but a packet sent between poll's test of the list (130) and its enrolment (133) wakes
nobody, as in `cpipe_poll`, and the poller sleeps on it.  `ChrNoLostWakeup` exempts just
these pollers (`missed`).

One more disagreement is about words only: `deepfs/design.txt` gives another range for
max_depth than `deepfs.c:92` has.

`CHECK_DEADLOCK FALSE` is given where a behaviour may stop: at an `oops`, after a
removal or teardown, or when the bounded histories are used up.

## Fairness

*Cpipe*: weak fairness of each step a thread takes by itself (the scheduler runs what
can run) and strong fairness of taking a mutex, whose waiters queue. Nothing obliges a
thread to make another call: `Served` is about calls in progress. *Echoserial*: the
two handlers run and pending timers expire; nothing of users. *Virtnet*: timers
expire, handlers run, each contender for the spinlock is served, and tasks that are
not asleep go on. *Usb*: the controller serves what is queued, and
the worker runs on; the device answers or fails; timers expire and their handlers run
on; endpoints are polled. Hosts, writers and plugs are not obliged to anything.
`Visited` does not say that the pass ends: with two URBs whose handlers submit again
and a gadget that queues again it does not. *Sleeper*: init and exit go on,
and so do the threads that are not asleep; nothing is assumed of who writes to the
files.

## What is proved

A theorem below is about every value of the constants: any number of threads,
packets, files or requests, any capacity, and any of the bounds that keep TLC's
instances small.  What the theorems assume of the constants is in the modules
that declare them, is no more than what the code sets up, and is evaluated by the
runs: `CpipeAssumption` (the owner of a free mutex is no thread, the capacity is
positive, calls are well-formed and a write's count is the length of its buffer),
`BufhubAssumption` (there is a minor, the files are finitely many and no masters),
`EchoserialAssumption` (the buffers hold something, the interval is a multiple of
20 ms, rates are numbers), `VirtnetNetAssumption`, `UsbtunnelAssumption`,
`UsblbAssumption`, `TickerAssumption`, `TunnelsAssumption` (the hub's thread is no
writer), `SleeperAssumption`, `BddtreeAssumption` (rmmod is no writer, no driver and
no device is the null one), `ConfmirrorAssumption`, `DeepfsAssumption` (the
options and the limits are numbers, and the bound on the depth is not 0),
`ClipboardAssumption` (a position fits in the word) and `BringupAssumption` (a driver has
a device at least).

An invariant that a run checks is hardly ever inductive.  The proofs therefore
begin with a stronger one, state by state what each actor has in hand, and TLC
checked that one on the runs' instances before it was proved.  A lemma per action
says that the action keeps it; the theorems about the properties follow.

### CpipeProofs

| theorem | says |
|---|---|
| `Invariance` | `CpSpec => []IInv` |
| `TypeCorrect` | `CpSpec => []CpTypeOK`: no kfifo ever holds more than its capacity |
| `MutexCorrect` | `CpSpec => []MutexDiscipline` |
| `NoStaleWaiterEver` | `CpSpec => []NoStaleWaiter` |
| `NoWakeupLost` | `CpSpec => []NoLostWakeup` |
| `Implements` | `~PartialFaults => (CpSpec => Linearizable)`: `Cpipe` implements `Pipe` |

The inductive invariant `IInv` conjoins the first four with two facts that make them
inductive.  `Place`: the program points of read and write are reached only by
reads and writes, those of poll only by polls, without which nothing is known of
the queue a thread is on.  `Enrolled`: a thread that has armed itself and was not
woken is on the queue it waits on, without which a wake-up that empties the queue
need not reach it.  That a sleeper's condition still holds then follows because
the only steps that change a fifo hold its mutex and go to "wake", and the test
that lets a thread sleep is made after it enrolled.  The proof has a lemma for
the arithmetic of a transfer (`MovableBound`, `TransferFacts`), one for the
record of a call (`CallFacts`), one per action, and `IInvStep` joins them.

For `Implements` each step of a call is shown to be the step of `Pipe` that it
stands for: the copy is where a call succeeds, a return without a copy is where it
fails, and all else is a stutter.  The hypothesis is needed: a copy that faults half
way keeps bytes and returns -EFAULT, which `Pipe` does not allow.

### BufhubProofs

| theorem | says |
|---|---|
| `Invariance` | `Spec => []IInv` |
| `RefsExactAlways` | `Spec => []RefsExact` |
| `OpenSurvives` | `Spec => []OpenSurvivesUndropped` |
| `NothingLeaksEver` | `Spec => []NothingLeaks` |

`RefsExact` counts a clipboard's holders but does not know where each of them is.
`IInv` says it thread by thread: what a thread has in hand has been allocated
(`HandleOK`), a clipboard that is being created has its master and is on no list yet
(`CreatorOK`), one that is being destroyed has no reference and is forgotten one
place after another (`DestroyerOK`), what a master gives up is its own (`MasterOK`),
what a file uses is in memory (`UserOK`), and no two threads create or destroy one
clipboard (`Alone`).  `ClipOK`, `SlotOK` and `ListOK` say
the same from the side of the clipboard, of the minor and of the list.  All of it
is kept also by the IOCDESTROY that goes wrong, since what it may break is tied to
`dropped`; that is how far the theorem holds.

### EchoserialProofs

| theorem | says |
|---|---|
| `Invariance` | `Spec => []IInv` |
| `TypeCorrect` | `Spec => []TypeOK`: no buffer exceeds its capacity, at any rate |
| `EchoesAlways` | `Spec => []Echoes` |
| `FlowAgreesAlways` | `Spec => []FlowAgrees` |

`IInv` conjoins the three and `FlushedWritten` (only bytes that were written are
flushed, without which the next byte could count as thrown away before it is
written).  The work is in sequences: moving the first bytes of one buffer to the
end of the next leaves their concatenation as it is.

### VirtnetProofs

| theorem | says |
|---|---|
| `Invariance` | `Spec => []IInv` |
| `TypeCorrect` | `Spec => []TypeOK` |
| `Conserves` | `Spec => []Conservation` |
| `RemovesAll` | `Spec => []RemovalComplete`: of entries, their links and timers, not of skbs |
| `ReadsInOrder` | `Spec => []ChrInOrder` |
| `NoLostWakeup` | `Spec => []ChrNoLostWakeup` |

`IInv` is `LbInv` or `ChrInv`, by the backend, and the other backend untouched.
`LbInv`: where the handler of a packet is, its timer, its entry and the lock agree
(`Handled`); the list holds the live entries but for the one that is being freed
(`Chained`); the two cursors of the removal point at what the walk has yet to free
(`Cursors`); and the counters are the cardinalities of what they count (`Counted`).
`ChrInv`: each packet of the device node has one place, and each task is on the wait
queue exactly where its steps say (`Seated`, `Apart`, `ChrCounted`).

### UsbProofs

| theorem | says |
|---|---|
| `Invariance` | `Spec => []IInv`, of all four parts |
| `TunnelsSoundAlways` | `Spec => []TunnelsSound` |
| `UrbsOnceAlways` | `Spec => []UrbsOnce` |
| `PortHonestAlways` | `Spec => []PortHonest` |
| `TkRequestThereAlways` | `Spec => []TkRequestThere` |
| `ForwardedOnceAlways` | `Spec => []ForwardedOnce` |
| `RightAnswerAlways` | `Spec => []RightAnswer` |
| `CtrlHonestAlways` | `Spec => []CtrlHonest` |
| `TypeCorrect` | `Spec => []TypeOK`, of all four |

*usbtunnel's list* (`TlInv`): what an actor has in hand came from the list
(`TlInHand`) and, until two lookups overlapped, is live and nobody else's, but for
the writer that has found a bound tunnel and not looked at its device yet
(`TlOwned`).
*usblb* (`BusInv`): `BusQueue` has `UrbsOnce` with the type of the transfer timer's
cursor, which `GiveBackFacts` keeps on the queue whatever a completion handler does to
it, and `UnlinksFacts` whatever URB it unlinks.  `BusPort`: `connected_ends` is the
excess of the reports of a connection over those of a disconnection, modulo 256, and
the excess is no larger than the number of events; before 254 of these the code's
comparison with 2 is therefore the right test.  What the hub driver has not seen is
flagged in any case.  `BusQuiet` says that the timer is dead from del_timer_sync on.
*usbticker* (`TkInv`): what the function has allocated follows from where the
composite core is (`TkHeld`), until an enable has failed.
*Control requests* (`TunInv`): `TunBase` has the types and the numbering, and holds
whatever happens.  Two facts hold until the worker overruns another request,
whatever else fails.  `TunOrder`: the requests that were sent to the device are in
order and not ahead of ctrl.setup, and ctrl.setup itself is not sent yet while its work
is to come.  `TunToken`: of ctrl.req, the work and the worker one is under way at most,
and only while in_progress is set, with the exceptions that requests without data
make: their status stage may be queued while the worker is about to free the tunnel or
has done so (`StatusOf`), and the worker may be about to do so for a request whose
completion has already gone on (`Resting`).  Until something is cut short as well there
are two more: `TunSmooth`, by which the request in ctrl.setup is at one of the stages
that `TunStage` lists and the host waits for it or for the one behind it, and `TunData`.
`overrun` is set where `TunToken` would be lost.  The run `usbtunnel_simple` shows
that without it `RightAnswer` does not hold.

### DriversProofs and BringupProofs

| theorem | says |
|---|---|
| `SleepersSafe` | `Spec => []SleepersSound` |
| `BddtreeSafe` | `BdSpec => [](BdTypeOK /\ BddtreeSound)` |
| `ClipboardSafe` | `Spec => []ClipboardSound` |
| `DeepfsSafe` | `Spec => []DeepfsSound`, of the tree and of its listings |
| `BringupSafe` | `Spec => []BringupSound` |
| `ConfmirrorInvariant` | `Spec => []CmInv` |
| `ConfmirrorSafe` | `Spec => []Mirrored`: counts equal holders, and no freed item is used |
| `TypesCorrect` | `Spec => []TypeOK`, of the five parts of `Drivers` |

*Sleeper* (`SlInv`): a thread has counted every write that found it on its queue, but
for the one that it still has to count and one more after it was stopped (`SlCounts`);
what init has yet to set up is not there, and the rest is (`SlSetUp`). *Bddtree*
(`BdInv`): whatever races, what an actor has in hand is of the kind that its step
needs (`BdHands`) and the driver core takes a name once (`BdNames`).  Until there has
been a race (`BdOwned`), a driver that is being destroyed is nobody else's (`BdSole`),
a driver or a device in hand is as far as the actor is (`BdDrvFits`, `BdDevFits`), who
destroys a driver goes through its devices from the first to the last although the
lock is dropped for each (`BdWalk`), and what nobody has in hand is in order and on
the one list it belongs to (`BdDrvRest`, `BdDevRest`).  Three lemmas say what is to be
shown of a step that moves an actor, changes a driver or changes a device
(`BdMoveStep`, `BdDrvStep`, `BdDevStep`); there is then a lemma per action. *Deepfs*
(`DfInv`): a subdirectory that is not there is still to be made by a call of
deepfs_dir_create on the stack that has not come to it yet (`DfPending`), and every
directory has its files, until an allocation fails (`DfMade`); the stack is empty once
the mount is over. A listing (`DfListed`): what it has returned are the entries of its
directory up to its position, each once if no subdirectory is missing; once it has
ended there is no entry behind the position.  Which entries a getdents emits is the
children that are there, in the order of their ids: `DfInOrder` chooses the increasing
sequence over them, and that there is one for every finite set of numbers is
`OrderExists`, by induction over a bound on its elements.  `OrderSpreads` (in an
increasing sequence of numbers the entries are at least as far apart as their places)
is why the position, which counts entries, never passes the place of an entry that is
still to come, and `DfEmitsFacts` says so of what is emitted from any position.  The
links and files that are missing after a failure are cases of their own there.
*Clipboard*: the property and the types are inductive; the unsigned difference takes
an argument. *Confmirror*: `Mirrored` is not inductive, for it knows nothing of the
item that mkdir or rmdir has in hand.  `CmInv` adds `CmInHand` (at each place of mkdir
and rmdir, whether that item has its kobject, its directory and its files),
`CmUntouched` (an item nobody allocated has no users) and `CmDirAgrees` (only rmdir
gets to its end).  `CmFrame` says that a step leaves all other items as they were,
`CmOneItem` that it is therefore enough to look at the item the step replaces,
`CmPutFacts` what a put does. *Bringup*: the proof has two halves.  A table fits
(`BuFits`) if its lists name its resources; if init makes first what is used
(`BuMakes`); if the labels of each step release what was made before it but the leaks,
nothing twice and users first (`BuUndoes`); and if the cleanup does that for a device
that is up and for one that is set up only (`BuCleans`).  `BuTablesFit` shows it of
the eleven tables, one lemma each.  The other half knows nothing of the tables but
that they fit: `BuInv` says for each of the loops what there is of the devices before
the one it is at, of that one, and of those after it (`BuHeld`), and there is a lemma
per loop that every step keeps it.  After a failure that init did not report
(`BuLied`) all that is left is that what the devices share is gone and the devices
have nothing but their leaks.  `BuInvClosed` has the property: what a loop has made so
far, or left so far, has what it uses.

### Only model-checked

All liveness properties (`Served`, `EchoedOrJammed`, `WriterWoken`, `RemovalEnds`,
`ChrServed`, `Answered`, `Visited`, `TkTicks`, `SleepersStop`), for liveness under
fairness and ENABLED are out of the prover's reach, and the findings, which are
counterexamples.  Every invariant of the passing runs, and the refinement of `Pipe`,
is stated by a theorem.

Two things are written with a view to the proofs.  No module declares a RECURSIVE
operator.  And an operator that takes something out of a list or puts a set in order
(`ListDel`, `Without`, or `RemoveAt` with the entry's place; `DfInOrder`) is written with a
CHOOSE of what it is to be, and not with SelectSeq, a fold or a recursive function,
whose value for every input takes an induction that the provers cannot instantiate
with an operator.  What needs an induction is stated of a set instead (`Inductive`: a
set of numbers that has 0, and with a number the next one, has them all), which the
well-foundedness of the numbers gives.

## Hazards

`PROJECT.json` lists, at its line, what can go wrong in the modelled drivers and a
test would hardly reach, with the properties that would show it.  Those that no property
covers carry a note that says why: either the code promises nothing there and the model
records what happens and stops, or lets the properties stop (a copy of cpipe that faults
half way, lookups without a reference, an init that fails and reports success), or it
is outside of the model (usblb's bus lock on a multiprocessor, where the driver hangs
at the first connect event).

## Plan

1. `Usblb` for a multiprocessor build (the bus lock as a variable).
2. `Registers`: gpio-virtual's bit arrays, virtblock's request loop with its 32 bit
   offsets, rtc-jiffies's clock, as pure operators against reference definitions.
