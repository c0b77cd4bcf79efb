------------------------ MODULE OnlineBooking_proofs ------------------------
(***************************************************************************)
(* The booking page reaches its steps in order, always comes to a first    *)
(* selection, and shows no time as chosen that it did not offer for what   *)
(* is chosen, whatever a link opens it with, in whatever order its queries *)
(* are answered and whatever the shop, others and the clock do meanwhile.  *)
(* The notice of the month to come is a promise in every calendar. And the *)
(* page and the server, which decide with code of their own what is free,  *)
(* agree.                                                                  *)
(***************************************************************************)
EXTENDS OnlineBooking, FiniteSetTheorems, WellFoundedInduction, TLAPS

\* The state of the page, field by field: an update of some of them leaves the others.
Fields == {"step", "barber", "service", "date", "time", "done", "failed", "sent", "kept",
           "data", "times", "stale", "slotsAt", "firstAt"}
IsPage(p) == p = [f \in Fields |-> p[f]]

\* StepsAreEarned of any state of the page, with what makes it inductive: before a booking
\* the confirmation is not reached, and beyond the first step a time goes with a barber,
\* because the effect that takes the barber away takes the time too.
Earned(p) ==
    /\ p.step \in 1..5
    /\ p.kept = {} =>
        /\ p.step # 5
        /\ p.step > 1 /\ p.time # None => p.barber # None
        /\ p.step = 3 => p.service # None
        /\ p.step = 4 => None \notin {p.barber, p.service, p.date, p.time}

\* SelectionIsDecided of any state of the page: once the bookings of the window are there,
\* the first selection has been made.
Decided(p) ==
    (/\ Selecting(p) /\ Loaded(p, "window")
     /\ \A q \in Queries : p.data[q] # None
     /\ Result(p, WindowQuery(p)) # None)
        => p.done = {selectionKey(p)}

\* What the first selection leaves done.
SelectionDone(p) == {selectionKey(p)}

\* The inductive invariant.
Sound(p) == IsPage(p) /\ Earned(p) /\ Decided(p)

\* What the effects set, one field at a time.
LEMMA EffectsSet ==
  ASSUME NEW p, IsPage(p), NEW q, q = Effects(p)
  PROVE  /\ IsPage(q)
         /\ q.step = StepAfterEffects(p)
         /\ q.barber = IF BarberGone(p) THEN None ELSE p.barber
         /\ q.service = IF BarberGone(p) \/ ServiceGone(p) THEN None ELSE p.service
         /\ q.date = IF InitialSelection(p)
                     THEN IF initialAvailabilityHasError(p) THEN None ELSE firstAvailableDate(p)
                     ELSE IF DateClosed(p) THEN p.data.window.today ELSE p.date
         /\ q.time = IF \/ TimeMisaligned(p) \/ BarberGone(p) \/ DateClosed(p) \/ ServiceGone(p)
                        \/ InitialSelection(p)
                     THEN None ELSE p.time
         /\ q.done = IF InitialSelection(p) THEN SelectionDone(p) ELSE p.done
         /\ q.sent = p.sent /\ q.kept = p.kept /\ q.data = p.data /\ q.times = p.times
         /\ q.stale = p.stale
         /\ q.failed = IF InitialSelection(p)
                       THEN IF initialAvailabilityHasError(p) THEN selectionKey(p) ELSE None
                       ELSE p.failed
         /\ q.slotsAt \in {p.slotsAt, now} /\ q.firstAt = p.firstAt
<1> DEFINE s == StepAfterEffects(p)
           b == IF BarberGone(p) THEN None ELSE p.barber
           v == IF BarberGone(p) \/ ServiceGone(p) THEN None ELSE p.service
           d == IF InitialSelection(p)
                THEN IF initialAvailabilityHasError(p) THEN None ELSE firstAvailableDate(p)
                ELSE IF DateClosed(p) THEN p.data.window.today ELSE p.date
           t == IF \/ TimeMisaligned(p) \/ BarberGone(p) \/ DateClosed(p) \/ ServiceGone(p)
                   \/ InitialSelection(p)
                THEN None ELSE p.time
           k == IF InitialSelection(p) THEN SelectionDone(p) ELSE p.done
           f == IF InitialSelection(p)
                THEN IF initialAvailabilityHasError(p) THEN selectionKey(p) ELSE None
                ELSE p.failed
           c == IF /\ InitialSelection(p) /\ ~initialAvailabilityHasError(p)
                   /\ firstAvailableDate(p) # None
                THEN now ELSE p.slotsAt
<1>0. q = [p EXCEPT !.step = s, !.barber = b, !.service = v, !.date = d, !.slotsAt = c, !.time = t,
                    !.done = k, !.failed = f]
  BY DEF Effects, SelectionDone
<1>c. c \in {p.slotsAt, now}
  OBVIOUS
<1> HIDE DEF s, b, v, d, t, k, f, c
<1> DEFINE p1 == [p EXCEPT !.step = s]
           p2 == [p1 EXCEPT !.barber = b]
           p3 == [p2 EXCEPT !.service = v]
           p4 == [p3 EXCEPT !.date = d]
           p4c == [p4 EXCEPT !.slotsAt = c]
           p5 == [p4c EXCEPT !.time = t]
           p6 == [p5 EXCEPT !.done = k]
           p7 == [p6 EXCEPT !.failed = f]
           Same(x, y, F) == \A g \in Fields \ F : y[g] = x[g]
<1>1. IsPage(p1) /\ p1.step = s /\ Same(p, p1, {"step"})
  BY DEF IsPage, Fields
<1>2. IsPage(p2) /\ p2.barber = b /\ Same(p1, p2, {"barber"})
  <2> HIDE DEF p1
  <2> QED BY <1>1 DEF IsPage, Fields
<1>3. IsPage(p3) /\ p3.service = v /\ Same(p2, p3, {"service"})
  <2> HIDE DEF p2
  <2> QED BY <1>2 DEF IsPage, Fields
<1>4. IsPage(p4) /\ p4.date = d /\ Same(p3, p4, {"date"})
  <2> HIDE DEF p3
  <2> QED BY <1>3 DEF IsPage, Fields
<1>4c. IsPage(p4c) /\ p4c.slotsAt = c /\ Same(p4, p4c, {"slotsAt"})
  <2> HIDE DEF p4
  <2> QED BY <1>4 DEF IsPage, Fields
<1>5. IsPage(p5) /\ p5.time = t /\ Same(p4c, p5, {"time"})
  <2> HIDE DEF p4c
  <2> QED BY <1>4c DEF IsPage, Fields
<1>6. IsPage(p6) /\ p6.done = k /\ Same(p5, p6, {"done"})
  <2> HIDE DEF p5
  <2> QED BY <1>5 DEF IsPage, Fields
<1>7. IsPage(p7) /\ p7.failed = f /\ Same(p6, p7, {"failed"})
  <2> HIDE DEF p6
  <2> QED BY <1>6 DEF IsPage, Fields
<1>8. q = p7
  BY <1>0
<1> HIDE DEF p1, p2, p3, p4, p4c, p5, p6, p7
<1>9. /\ IsPage(q) /\ q.step = s /\ q.barber = b /\ q.service = v /\ q.date = d /\ q.time = t
      /\ q.done = k /\ q.sent = p.sent /\ q.kept = p.kept /\ q.data = p.data
      /\ q.times = p.times /\ q.stale = p.stale /\ q.failed = f
      /\ q.slotsAt = c /\ q.firstAt = p.firstAt
  BY <1>1, <1>2, <1>3, <1>4, <1>4c, <1>5, <1>6, <1>7, <1>8 DEF Fields
<1> QED
  BY <1>9, <1>c DEF s, b, v, d, t, k, f

\* A rendering forgets failed queries and computes anew, and touches nothing else.
LEMMA RenderedSets ==
  ASSUME NEW old, NEW p, IsPage(p), NEW q, q = Rendered(old, p)
  PROVE  /\ IsPage(q)
         /\ \A g \in Fields \ {"times", "stale", "slotsAt", "firstAt"} : q[g] = p[g]
         /\ DOMAIN q.times \subseteq DOMAIN p.times
         /\ \A k \in DOMAIN q.times : q.times[k] = p.times[k]
         /\ \A k \in DOMAIN p.times \ DOMAIN q.times : p.times[k] = Failed
         /\ q.stale \subseteq p.stale
         /\ q.slotsAt \in {p.slotsAt, now} /\ q.firstAt \in {p.firstAt, now}
<1> DEFINE again == {k \in Enabled(p) \ Enabled(old) : Result(p, k) = Failed}
           T == [k \in DOMAIN p.times \ again |-> p.times[k]]
           S == p.stale \ again
           r == [p EXCEPT !.times = T, !.stale = S]
           at == IF slotsRestOn(r) = slotsRestOn(old) THEN r.slotsAt ELSE now
           first == IF firstRestsOn(r) = firstRestsOn(old) THEN r.firstAt ELSE now
<1>1. q = [r EXCEPT !.slotsAt = at, !.firstAt = first]
  BY DEF Rendered
<1>2. at \in {r.slotsAt, now} /\ first \in {r.firstAt, now}
  OBVIOUS
<1>3. /\ DOMAIN T \subseteq DOMAIN p.times /\ \A k \in DOMAIN T : T[k] = p.times[k]
      /\ S \subseteq p.stale
  OBVIOUS
<1>4. \A k \in DOMAIN p.times \ DOMAIN T : p.times[k] = Failed
  BY DEF Result
<1> HIDE DEF T, S, at, first
<1> DEFINE r1 == [p EXCEPT !.times = T]
           r2 == [r1 EXCEPT !.stale = S]
           r3 == [r2 EXCEPT !.slotsAt = at]
           r4 == [r3 EXCEPT !.firstAt = first]
<1>5. IsPage(r1) /\ r1.times = T /\ \A g \in Fields \ {"times"} : r1[g] = p[g]
  BY DEF IsPage, Fields
<1>6. IsPage(r2) /\ r2.stale = S /\ \A g \in Fields \ {"stale"} : r2[g] = r1[g]
  <2> HIDE DEF r1
  <2> QED BY <1>5 DEF IsPage, Fields
<1>7. IsPage(r3) /\ r3.slotsAt = at /\ \A g \in Fields \ {"slotsAt"} : r3[g] = r2[g]
  <2> HIDE DEF r2
  <2> QED BY <1>6 DEF IsPage, Fields
<1>8. IsPage(r4) /\ r4.firstAt = first /\ \A g \in Fields \ {"firstAt"} : r4[g] = r3[g]
  <2> HIDE DEF r3
  <2> QED BY <1>7 DEF IsPage, Fields
<1>9. q = r4 /\ r = r2
  BY <1>1
<1> HIDE DEF r, r1, r2, r3, r4
<1> QED
  BY <1>2, <1>3, <1>4, <1>5, <1>6, <1>7, <1>8, <1>9 DEF Fields

\* What that leaves of the answers.
LEMMA RenderedAnswers ==
  ASSUME NEW old, NEW p, IsPage(p), NEW q, q = Rendered(old, p)
  PROVE  \A k : /\ Result(q, k) \in {Result(p, k), None}
                /\ Received(q, k) = Received(p, k)
                /\ Received(q, k) => Result(q, k) = Result(p, k)
  BY RenderedSets DEF Result, Received

\* The effects take the step back far enough for what they clear.
LEMMA EffectsEarn ==
  ASSUME NEW p, IsPage(p), Earned(p)
  PROVE  IsPage(Effects(p)) /\ Earned(Effects(p))
<1> DEFINE q == Effects(p)
<1>1. /\ StepAfterEffects(p) \in 1..5 /\ StepAfterEffects(p) <= p.step
      /\ TimeMisaligned(p) \/ BarberGone(p) \/ DateClosed(p) => StepAfterEffects(p) <= 3
      /\ ServiceGone(p) => StepAfterEffects(p) <= 2
      /\ BarberGone(p) => StepAfterEffects(p) <= 2
  BY DEF StepAfterEffects, AtMost3, Earned
<1>2. InitialSelection(p) => p.step = 3
  BY DEF InitialSelection
<1> HIDE DEF q
<1>3. q = Effects(p)
  BY DEF q
<1> QED
  BY <1>1, <1>2, <1>3, EffectsSet DEF Earned

\* An effect that has nothing to do has left a selection.
LEMMA NothingLeftToSelect ==
  ASSUME NEW p, ~InitialSelection(p), ~ServiceGone(p)
  PROVE  Decided(p)
<1> SUFFICES ASSUME Selecting(p), Loaded(p, "window"), \A q \in Queries : p.data[q] # None,
                    Result(p, WindowQuery(p)) # None
             PROVE  p.done = {selectionKey(p)}
  BY DEF Decided
<1>1. WindowQuery(p) \in Enabled(p)
  BY DEF Enabled
<1>2. ~loadingInitialAvailability(p)
  BY DEF loadingInitialAvailability
<1>3. initialAvailabilityHasError(p) \/ FirstDateKnown(p)
  <2> SUFFICES ASSUME ~initialAvailabilityHasError(p) PROVE FirstDateKnown(p)
    OBVIOUS
  <2>1. Loaded(p, "config") /\ Loaded(p, "barbers") /\ Loaded(p, "services")
    BY DEF initialAvailabilityHasError, Loaded, Queries
  <2>2. Received(p, WindowQuery(p))
    BY DEF initialAvailabilityHasError, Received
  <2>3. \E s \in availableServices(p) : s.id = p.service
    BY <2>1 DEF ServiceGone, Selecting
  <2> QED BY <2>1, <2>2, <2>3 DEF FirstDateKnown, Selecting
<1> QED
  BY <1>2, <1>3 DEF InitialSelection, Selecting

\* What a page has decided is told by a few of its fields.
LEMMA DecidedAlike ==
  ASSUME NEW p, NEW q, q.step = p.step, q.barber = p.barber, q.service = p.service,
         q.data = p.data, q.times = p.times, q.done = p.done, Decided(p)
  PROVE  Decided(q)
<1>1. /\ Selecting(q) = Selecting(p) /\ Loaded(q, "window") = Loaded(p, "window")
      /\ WindowQuery(q) = WindowQuery(p) /\ selectionKey(q) = selectionKey(p)
  BY DEF Selecting, Loaded, WindowQuery, selectionKey
<1>2. Result(q, WindowQuery(q)) = Result(p, WindowQuery(p))
  BY <1>1 DEF Result
<1> QED
  BY <1>1, <1>2 DEF Decided

\* A rendering changes nothing the steps rest on, and undoes no selection.
LEMMA RenderedIsSound ==
  ASSUME NEW old, NEW p, IsPage(p), NEW q, q = Rendered(old, p)
  PROVE  /\ IsPage(q)
         /\ Earned(p) => Earned(q)
         /\ Decided(p) => Decided(q)
<1>1. /\ IsPage(q) /\ q.step = p.step /\ q.kept = p.kept /\ q.time = p.time /\ q.date = p.date
      /\ q.barber = p.barber /\ q.service = p.service /\ q.data = p.data /\ q.done = p.done
  BY RenderedSets DEF Fields
<1>2. Earned(p) => Earned(q)
  BY <1>1 DEF Earned
<1>3. ASSUME Decided(p) PROVE Decided(q)
  <2>1. /\ Selecting(q) = Selecting(p) /\ Loaded(q, "window") = Loaded(p, "window")
        /\ WindowQuery(q) = WindowQuery(p) /\ selectionKey(q) = selectionKey(p)
    BY <1>1 DEF Selecting, Loaded, WindowQuery, selectionKey
  <2>2. Result(q, WindowQuery(q)) # None => Result(p, WindowQuery(p)) # None
    BY <2>1, RenderedAnswers
  <2> QED BY <1>1, <1>3, <2>1, <2>2 DEF Decided
<1> QED
  BY <1>1, <1>2, <1>3

\* The second run of the effects ends in a decided selection: it finds no barber and no
\* service gone, and selects what the first run could not.
LEMMA EffectsDecide ==
  ASSUME NEW p, IsPage(p), Earned(p), NEW s, s = Rendered(p, Effects(p))
  PROVE  Decided(Effects(s))
<1> DEFINE e == Effects(p)
           r == Effects(s)
<1>1. IsPage(e) /\ Earned(e)
  BY EffectsEarn, Zenon
<1>e. e = Effects(p)
  OBVIOUS
<1>r. r = Effects(s)
  OBVIOUS
<1>s. s = Rendered(p, e)
  OBVIOUS
<1> HIDE DEF e
<1>2. IsPage(s) /\ Earned(s)
  BY <1>1, <1>s, RenderedIsSound
<1>3. /\ s.step = e.step /\ s.barber = e.barber /\ s.service = e.service /\ s.data = e.data
      /\ s.date = e.date /\ s.time = e.time
  BY <1>1, <1>s, RenderedSets DEF Fields
<1> HIDE DEF r
<1>4. ~BarberGone(s)
  <2>1. s.barber = (IF BarberGone(p) THEN None ELSE p.barber) /\ s.data = p.data
    BY <1>3, <1>e, EffectsSet
  <2> QED BY <2>1, BookingAssumption DEF BarberGone, visibleBarbers, Loaded
<1>5. ~ServiceGone(s)
  <2> SUFFICES ASSUME ServiceGone(s) PROVE FALSE
    OBVIOUS
  <2>1. s.service # None
    BY DEF ServiceGone
  <2>2. /\ ~ServiceGone(p)
        /\ s.service = p.service /\ s.barber = p.barber /\ s.data = p.data
    BY <1>3, <1>e, <2>1, EffectsSet
  <2>3. ServiceGone(s) = ServiceGone(p)
    BY <2>2 DEF ServiceGone, availableServices, visibleBarbers, Loaded
  <2> QED BY <2>2, <2>3
<1>6. /\ r.step = StepAfterEffects(s)
      /\ r.barber = s.barber /\ r.service = s.service /\ r.data = s.data /\ r.times = s.times
      /\ r.done = IF InitialSelection(s) THEN SelectionDone(s) ELSE s.done
  BY <1>2, <1>4, <1>5, <1>r, EffectsSet
<1>7. CASE r.step # 3
  BY <1>7 DEF Decided, Selecting, r
<1>8. CASE r.step = 3
  <2>1. s.step = 3
    <3>1. s.step \in 3..5
      BY <1>2, <1>4, <1>5, <1>6, <1>8 DEF StepAfterEffects, AtMost3, Earned
    <3> SUFFICES ASSUME s.step \in 4..5 PROVE FALSE
      BY <3>1
    <3>2. e.step = StepAfterEffects(p) /\ e.step \in 4..5
      BY <1>3, <1>e, EffectsSet
    <3>3. /\ p.step = e.step
          /\ ~TimeMisaligned(p) /\ ~BarberGone(p) /\ ~DateClosed(p) /\ ~ServiceGone(p)
      BY <3>2 DEF StepAfterEffects, AtMost3, Earned
    <3>4. ~InitialSelection(p)
      BY <3>2, <3>3 DEF InitialSelection
    <3>5. s.time = p.time /\ s.date = p.date /\ s.data = p.data
      BY <1>3, <1>e, <3>3, <3>4, EffectsSet
    <3>6. ~TimeMisaligned(s) /\ ~DateClosed(s)
      BY <3>3, <3>5 DEF TimeMisaligned, DateClosed, isPublicDateAllowed, Loaded
    <3> QED BY <1>4, <1>5, <1>6, <1>8, <3>6 DEF StepAfterEffects
  <2>2. CASE InitialSelection(s)
    <3>1. r.done = {selectionKey(s)}
      BY <1>6, <2>2 DEF SelectionDone
    <3>2. selectionKey(r) = selectionKey(s)
      BY <1>6 DEF selectionKey, WindowQuery, Loaded
    <3> QED BY <3>1, <3>2 DEF Decided, r
  <2>3. CASE ~InitialSelection(s)
    <3>1. Decided(s)
      BY <1>5, <2>3, NothingLeftToSelect
    <3> QED BY <1>6, <1>8, <2>1, <2>3, <3>1, DecidedAlike DEF r
  <2> QED BY <2>2, <2>3
<1> QED
  BY <1>7, <1>8

\* A page that is rendered again without a change stays as it is.
LEMMA RenderedTwice ==
  ASSUME NEW old, NEW p, IsPage(p), NEW r, r = Rendered(old, p)
  PROVE  Rendered(r, r) = r
<1> DEFINE again == {k \in Enabled(p) \ Enabled(old) : Result(p, k) = Failed}
           kept == [k \in DOMAIN p.times \ again |-> p.times[k]]
           none == {k \in Enabled(r) \ Enabled(r) : Result(r, k) = Failed}
           answers == [k \in DOMAIN r.times \ none |-> r.times[k]]
           left == r.stale \ none
           q == [r EXCEPT !.times = [k \in DOMAIN @ \ none |-> @[k]], !.stale = @ \ none]
<1>1. IsPage(r) /\ r.times = kept
  BY DEF Rendered, IsPage, Fields
<1>2. none = {}
  OBVIOUS
<1>3. answers = r.times
  BY <1>1, <1>2
<1>4. left = r.stale
  BY <1>2
<1>5. q = r
  <2>1. q = [r EXCEPT !.times = answers, !.stale = left]
    OBVIOUS
  <2> HIDE DEF q, answers, left
  <2>2. [r EXCEPT !.times = r.times, !.stale = r.stale] = r
    BY <1>1 DEF IsPage, Fields
  <2> QED BY <1>3, <1>4, <2>1, <2>2
<1> HIDE DEF answers, left
<1>6. [r EXCEPT !.slotsAt = r.slotsAt, !.firstAt = r.firstAt] = r
  BY <1>1 DEF IsPage, Fields
<1>7. Rendered(r, r) = [q EXCEPT !.slotsAt = IF slotsRestOn(q) = slotsRestOn(r) THEN @ ELSE now,
                                 !.firstAt = IF firstRestsOn(q) = firstRestsOn(r) THEN @ ELSE now]
  BY DEF Rendered, none
<1> QED
  BY <1>5, <1>6, <1>7

\* The renderings of a page until it settles, by name.
LEMMA RunsOfEffects ==
  ASSUME NEW old, NEW p, IsPage(p), NEW q, Settles(old, p, q)
  PROVE  \E first, second : /\ first = Rendered(old, p)
                            /\ second = Rendered(first, Effects(first))
                            /\ q = Rendered(second, Effects(second))
<1> DEFINE first == Rendered(old, p)
<1>1. CASE Effects(first) = first
  BY <1>1, RenderedTwice DEF Settles
<1>2. CASE Effects(first) # first
  BY <1>2 DEF Settles
<1> QED
  BY <1>1, <1>2

\* Every rendering is sound, whatever state it began with.
LEMMA SettledIsSound ==
  ASSUME NEW old, NEW p, IsPage(p), Earned(p), NEW q, Settles(old, p, q)
  PROVE  Sound(q)
<1>1. PICK first, second : /\ first = Rendered(old, p)
                           /\ second = Rendered(first, Effects(first))
                           /\ q = Rendered(second, Effects(second))
  BY RunsOfEffects
<1>2. IsPage(first) /\ Earned(first)
  BY <1>1, RenderedIsSound
<1>3. IsPage(second) /\ Earned(second)
  BY <1>1, <1>2, EffectsEarn, RenderedIsSound
<1>4. IsPage(Effects(second)) /\ Earned(Effects(second)) /\ Decided(Effects(second))
  BY <1>1, <1>2, <1>3, EffectsEarn, EffectsDecide
<1> QED
  BY <1>1, <1>4, RenderedIsSound DEF Sound

\* Also the one that follows a step.
LEMMA RenderIsSound ==
  ASSUME NEW p, IsPage(p), Earned(p), Render(p)
  PROVE  Sound(page')
  BY SettledIsSound DEF Render

\* Every click of the customer leaves a sound page.
LEMMA CustomerIsSound ==
  ASSUME IsPage(page), Earned(page), Customer
  PROVE  Sound(page')
<1>1. CASE SelectBarber
  <2>1. PICK b : page.step = 1 /\ Render([page EXCEPT !.barber = b])
    BY <1>1 DEF SelectBarber
  <2>2. IsPage([page EXCEPT !.barber = b]) /\ Earned([page EXCEPT !.barber = b])
    BY <2>1 DEF IsPage, Fields, Earned
  <2> QED BY <2>1, <2>2, RenderIsSound
<1>2. CASE SelectService
  <2>1. PICK v : page.step = 2 /\ Render([page EXCEPT !.service = v])
    BY <1>2 DEF SelectService
  <2>2. IsPage([page EXCEPT !.service = v]) /\ Earned([page EXCEPT !.service = v])
    BY <2>1 DEF IsPage, Fields, Earned
  <2> QED BY <2>1, <2>2, RenderIsSound
<1>3. CASE SelectDate
  <2>1. PICK d : page.step = 3 /\ Render([page EXCEPT !.date = d, !.time = None])
    BY <1>3 DEF SelectDate
  <2> DEFINE q == [page EXCEPT !.date = d]
             r == [q EXCEPT !.time = None]
  <2>2. IsPage(q) /\ \A g \in Fields \ {"date"} : q[g] = page[g]
    BY DEF IsPage, Fields
  <2>3. IsPage(r) /\ r.time = None /\ \A g \in Fields \ {"time"} : r[g] = q[g]
    <3> HIDE DEF q
    <3> QED BY <2>2 DEF IsPage, Fields
  <2>4. Render(r)
    BY <2>1
  <2> HIDE DEF q, r
  <2>5. Earned(r)
    BY <2>1, <2>2, <2>3 DEF Earned, Fields
  <2> QED BY <2>3, <2>4, <2>5, RenderIsSound
<1>4. CASE SelectTime
  <2>1. PICK t : page.step = 3 /\ page.barber # None /\ Render([page EXCEPT !.time = t])
    BY <1>4 DEF SelectTime, ShownTimes, timeSlots
  <2>2. IsPage([page EXCEPT !.time = t]) /\ Earned([page EXCEPT !.time = t])
    BY <2>1 DEF IsPage, Fields, Earned
  <2> QED BY <2>1, <2>2, RenderIsSound
<1>5. CASE handleNext
  <2>1. /\ \/ page.step = 1 /\ page.barber # None
           \/ page.step = 2 /\ page.service # None
           \/ page.step = 3 /\ page.date # None /\ page.time # None
        /\ Render([page EXCEPT !.step = page.step + 1])
    BY <1>5 DEF handleNext
  <2>2. IsPage([page EXCEPT !.step = page.step + 1]) /\ Earned([page EXCEPT !.step = page.step + 1])
    BY <2>1 DEF IsPage, Fields, Earned
  <2> QED BY <2>1, <2>2, RenderIsSound
<1>6. CASE handleBack
  <2>1. page.step \in 2 .. 4 /\ Render([page EXCEPT !.step = page.step - 1])
    BY <1>6 DEF handleBack
  <2>2. IsPage([page EXCEPT !.step = page.step - 1]) /\ Earned([page EXCEPT !.step = page.step - 1])
    BY <2>1 DEF IsPage, Fields, Earned
  <2> QED BY <2>1, <2>2, RenderIsSound
<1>7. CASE handleSubmit
  <2>1. PICK r : Render([page EXCEPT !.sent = r])
    BY <1>7 DEF handleSubmit
  <2>2. IsPage([page EXCEPT !.sent = r]) /\ Earned([page EXCEPT !.sent = r])
    BY DEF IsPage, Fields, Earned
  <2> QED BY <2>1, <2>2, RenderIsSound
<1> QED
  BY <1>1, <1>2, <1>3, <1>4, <1>5, <1>6, <1>7 DEF Customer

\* So does every answer to a query, every failure and a booking that is refused.
LEMMA NetworkIsSound ==
  ASSUME IsPage(page), Earned(page), Load \/ LoadTimes \/ Lose \/ Refuse
  PROVE  Sound(page')
<1>1. ASSUME NEW d, Render([page EXCEPT !.data = d]) PROVE Sound(page')
  <2>1. IsPage([page EXCEPT !.data = d]) /\ Earned([page EXCEPT !.data = d])
    BY DEF IsPage, Fields, Earned
  <2> QED BY <1>1, <2>1, RenderIsSound
<1>2. ASSUME NEW t, NEW S, Render([page EXCEPT !.times = t, !.stale = S])
      PROVE  Sound(page')
  <2> DEFINE q == [page EXCEPT !.times = t]
             r == [q EXCEPT !.stale = S]
  <2>1. IsPage(q) /\ \A g \in Fields \ {"times"} : q[g] = page[g]
    BY DEF IsPage, Fields
  <2>2. IsPage(r) /\ \A g \in Fields \ {"stale"} : r[g] = q[g]
    <3> HIDE DEF q
    <3> QED BY <2>1 DEF IsPage, Fields
  <2>3. Render(r)
    BY <1>2
  <2> HIDE DEF q, r
  <2>4. Earned(r)
    BY <2>1, <2>2 DEF Earned, Fields
  <2> QED BY <2>2, <2>3, <2>4, RenderIsSound
<1>3. CASE Load
  <2>1. PICK d : Render([page EXCEPT !.data = d])
    BY <1>3 DEF Load
  <2> QED BY <1>1, <2>1
<1>4. CASE LoadTimes
  <2>1. PICK t, S : Render([page EXCEPT !.times = t, !.stale = S])
    BY <1>4 DEF LoadTimes
  <2> QED BY <1>2, <2>1
<1>5. CASE Lose
  <2>1. \/ \E d : Render([page EXCEPT !.data = d])
        \/ \E t : Render([page EXCEPT !.times = t])
    BY <1>5 DEF Lose
  <2>2. ASSUME NEW t, Render([page EXCEPT !.times = t]) PROVE Sound(page')
    <3>1. IsPage([page EXCEPT !.times = t]) /\ Earned([page EXCEPT !.times = t])
      BY DEF IsPage, Fields, Earned
    <3> QED BY <2>2, <3>1, RenderIsSound
  <2> QED BY <1>1, <2>1, <2>2
<1>6. CASE Refuse
  <2>1. Render([page EXCEPT !.sent = None])
    BY <1>6 DEF Refuse
  <2>2. IsPage([page EXCEPT !.sent = None]) /\ Earned([page EXCEPT !.sent = None])
    BY DEF IsPage, Fields, Earned
  <2> QED BY <2>1, <2>2, RenderIsSound
<1> QED
  BY <1>3, <1>4, <1>5, <1>6

\* So does the confirmation.
LEMMA AcceptIsSound ==
  ASSUME IsPage(page), Earned(page), Accept
  PROVE  Sound(page')
<1>1. PICK a, S : Render([page EXCEPT !.sent = None, !.kept = {a}, !.step = 5, !.stale = S])
  BY DEF Accept
<1> DEFINE p1 == [page EXCEPT !.sent = None]
           p2 == [p1 EXCEPT !.kept = {a}]
           p3 == [p2 EXCEPT !.step = 5]
           p4 == [p3 EXCEPT !.stale = S]
<1>2. IsPage(p1)
  BY DEF IsPage, Fields
<1>3. IsPage(p2) /\ p2.kept = {a}
  <2> HIDE DEF p1
  <2> QED BY <1>2 DEF IsPage, Fields
<1>4. IsPage(p3) /\ p3.kept = {a} /\ p3.step = 5
  <2> HIDE DEF p2
  <2> QED BY <1>3 DEF IsPage, Fields
<1>5. IsPage(p4) /\ p4.kept = {a} /\ p4.step = 5
  <2> HIDE DEF p3
  <2> QED BY <1>4 DEF IsPage, Fields
<1>6. Render(p4)
  BY <1>1
<1> HIDE DEF p1, p2, p3, p4
<1> QED
  BY <1>5, <1>6, RenderIsSound DEF Earned

\* The page is sound however it is opened (getInitialBookingPreference).
LEMMA OpenedIsSound ==
  ASSUME Init
  PROVE  Sound(page)
<1>1. PICK l \in Links : Settles(Opened(l), Opened(l), page)
  BY DEF Init
<1> DEFINE p == Opened(l)
<1>2. IsPage(p)
  BY DEF Opened, IsPage, Fields
<1>3. /\ p.step = CASE l.barber # None /\ l.service # None /\ l.time # None -> 4
                    [] l.barber # None /\ l.service # None /\ l.time = None -> 3
                    [] l.barber # None /\ l.service = None -> 2
                    [] OTHER -> 1
      /\ p.barber = l.barber /\ p.service = l.service /\ p.date = l.date /\ p.time = l.time
  BY DEF Opened
<1>4. l.date # None
  BY BookingAssumption
<1> HIDE DEF p
<1>5. Earned(p)
  BY <1>3, <1>4 DEF Earned
<1> QED
  BY <1>1, <1>2, <1>5, SettledIsSound DEF p

\* Sound is inductive.
LEMMA StepIsSound == Sound(page) /\ [Next]_vars => Sound(page)'
<1> SUFFICES ASSUME Sound(page), [Next]_vars
             PROVE  Sound(page')
  OBVIOUS
<1>1. CASE page' = page
  BY <1>1
<1>2. Configure \/ OtherCustomer \/ Tick \/ UNCHANGED vars => page' = page
  BY DEF Configure, OtherCustomer, Tick, vars
<1>3. IsPage(page) /\ Earned(page)
  BY DEF Sound
<1> QED BY <1>1, <1>2, <1>3, CustomerIsSound, NetworkIsSound, AcceptIsSound DEF Next

\* No step of the page is reached without what the earlier ones choose: handleNext,
\* handleBack and the effects of Booking.tsx, each of which moves the step by itself,
\* never show a step for which nothing was chosen.
THEOREM EveryStepIsEarned == Spec => []StepsAreEarned
<1>1. Sound(page) => StepsAreEarned
  BY DEF Sound, Earned, StepsAreEarned
<1> QED
  BY <1>1, OpenedIsSound, StepIsSound, PTL DEF Spec

\* A customer who has chosen a barber and a service always gets a first date, or is told
\* that there is none: once the bookings of the window are there the effect with
\* completedInitialAvailabilityKey has run for what is chosen now, whatever came late.
THEOREM SelectionsAreDecided == Spec => []SelectionIsDecided
<1>1. Sound(page) => SelectionIsDecided
  <2> SUFFICES ASSUME Sound(page), Selecting(page), Loaded(page, "window"),
                      \A q \in Queries : page.data[q] # None,
                      \A k \in Enabled(page) : Result(page, k) # None
               PROVE  page.done = {selectionKey(page)}
    BY DEF SelectionIsDecided
  <2>1. WindowQuery(page) \in Enabled(page)
    BY DEF Enabled
  <2> QED BY <2>1 DEF Sound, Decided
<1> QED
  BY <1>1, OpenedIsSound, StepIsSound, PTL DEF Spec
-----------------------------------------------------------------------------
\* The chosen time.

\* What the times offered for a selection are derived from.
Selected(p, key) == [data |-> p.data, barber |-> key[1], service |-> key[2]]
WindowOf(key) == <<"window", key[1], key[3], key[4]>>
Taken(p, key) == {a \in Result(p, WindowOf(key)) : a.start \div Minutes = p.date}
Offers(p, key, at) == SlotsOf(Selected(p, key), p.date, Taken(p, key), at)

\* A chosen time was free, by all the page knows, for the selection that was made first:
\* also while the customer is at another step or has chosen something else by now.
TimeStands(p, n) ==
    (p.kept = {} /\ (\A k \in DOMAIN p.times : Received(p, k) => k[1] = "window") /\ p.time # None)
        => \A key \in p.done :
              /\ \A q \in Queries : p.data[q] # None
              /\ Received(p, WindowOf(key)) /\ p.date # None
              /\ \E at \in Clock : at <= n /\ p.time \in Offers(p, key, at)

\* Bookings are asked for only with a window, and an answer is asked for again only
\* after a booking.
AnswersKept(p) ==
    /\ DOMAIN p.data = Queries
    /\ DOMAIN p.times # {} => Loaded(p, "window")
    /\ p.kept = {} => p.stale = {}

\* The slots were computed at some instant, until now.
Computed(p, n) == p.slotsAt \in Clock /\ p.slotsAt <= n

Steady(p, n) == AnswersKept(p) /\ Computed(p, n) /\ TimeStands(p, n)

\* The times of a day are told by the selection and three of the answers.
LEMMA SlotsAlike ==
  ASSUME NEW p, NEW q, NEW d, NEW taken, NEW at, p.barber = q.barber, p.service = q.service,
         \A k \in {"barbers", "services", "hours"} : p.data[k] = q.data[k]
  PROVE  SlotsOf(p, d, taken, at) = SlotsOf(q, d, taken, at)
<1>1. visibleBarbers(p) = visibleBarbers(q) /\ knownHours(p) = knownHours(q)
  BY DEF visibleBarbers, knownHours, Loaded
<1>2. availableServices(p) = availableServices(q)
  BY <1>1 DEF availableServices, Loaded
<1> QED
  BY <1>1, <1>2 DEF SlotsOf

\* What a page has chosen is told by a few of its fields.
LEMMA StandsAlike ==
  ASSUME NEW p, NEW q, NEW n, TimeStands(p, n),
         q.time = p.time, q.date = p.date, q.done = p.done, q.kept = p.kept,
         q.data = p.data, q.times = p.times
  PROVE  TimeStands(q, n)
<1>1. \A key : /\ Received(q, WindowOf(key)) = Received(p, WindowOf(key))
               /\ Selected(q, key) = Selected(p, key) /\ Taken(q, key) = Taken(p, key)
  BY DEF Received, Result, Selected, Taken
<1>2. \A key, at : Offers(q, key, at) = Offers(p, key, at)
  BY <1>1 DEF Offers
<1>3. \A k : Received(q, k) = Received(p, k)
  BY DEF Received, Result
<1> QED
  BY <1>1, <1>2, <1>3 DEF TimeStands

\* A rendering only forgets what failed, and that stood for nothing.
LEMMA RenderedStands ==
  ASSUME NEW old, NEW p, IsPage(p), NEW n, TimeStands(p, n), NEW q, q = Rendered(old, p)
  PROVE  TimeStands(q, n)
<1>1. /\ q.time = p.time /\ q.date = p.date /\ q.done = p.done /\ q.kept = p.kept
      /\ q.data = p.data
  BY RenderedSets DEF Fields
<1>2. \A k : Received(q, k) = Received(p, k) /\ (Received(q, k) => Result(q, k) = Result(p, k))
  BY RenderedAnswers
<1>3. \A k : Received(p, k) => k \in DOMAIN p.times
  BY DEF Received, Result
<1>4. \A k : Received(q, k) => k \in DOMAIN q.times
  BY DEF Received, Result
<1>5. \A key : Received(p, WindowOf(key)) =>
                 Selected(q, key) = Selected(p, key) /\ Taken(q, key) = Taken(p, key)
  BY <1>1, <1>2 DEF Selected, Taken
<1>6. \A key, at : Received(p, WindowOf(key)) => Offers(q, key, at) = Offers(p, key, at)
  BY <1>1, <1>5 DEF Offers
<1> QED
  BY <1>1, <1>2, <1>3, <1>4, <1>6 DEF TimeStands

\* The effects take the time back whenever they change what it was chosen for.
LEMMA EffectsLeaveTheTime ==
  ASSUME NEW p, IsPage(p), NEW n, TimeStands(p, n)
  PROVE  TimeStands(Effects(p), n)
<1> DEFINE q == Effects(p)
<1>1. /\ q.time # None => /\ ~InitialSelection(p) /\ ~DateClosed(p)
                          /\ q.time = p.time
      /\ ~InitialSelection(p) => q.done = p.done
      /\ ~InitialSelection(p) /\ ~DateClosed(p) => q.date = p.date
      /\ q.kept = p.kept /\ q.data = p.data /\ q.times = p.times
  BY EffectsSet
<1> HIDE DEF q
<1>2. CASE q.time = None
  BY <1>2 DEF TimeStands, q
<1>3. CASE q.time # None
  BY <1>1, <1>3, StandsAlike DEF q
<1> QED
  BY <1>2, <1>3

\* The effects set none of the answers, and a rendering computes now if it does.
LEMMA SettledKeeps ==
  ASSUME NEW old, NEW p, IsPage(p), Earned(p), NEW q, Settles(old, p, q)
  PROVE  /\ q.data = p.data /\ q.kept = p.kept
         /\ q.stale \subseteq p.stale
         /\ DOMAIN q.times \subseteq DOMAIN p.times
         /\ \A k \in DOMAIN q.times : q.times[k] = p.times[k]
         /\ q.slotsAt \in {p.slotsAt, now} /\ q.firstAt \in {p.firstAt, now}
<1> DEFINE Kept(x, y) == /\ y.data = x.data /\ y.kept = x.kept
                         /\ y.stale \subseteq x.stale
                         /\ DOMAIN y.times \subseteq DOMAIN x.times
                         /\ \A k \in DOMAIN y.times : y.times[k] = x.times[k]
                         /\ y.slotsAt \in {x.slotsAt, now} /\ y.firstAt \in {x.firstAt, now}
<1>1. \A o, x : IsPage(x) => IsPage(Rendered(o, x)) /\ Kept(x, Rendered(o, x))
  <2> TAKE o, x
  <2> HAVE IsPage(x)
  <2> QED BY RenderedSets DEF Fields
<1>2. \A x : IsPage(x) => IsPage(Effects(x)) /\ Kept(x, Effects(x))
  <2> TAKE x
  <2> HAVE IsPage(x)
  <2> DEFINE e == Effects(x)
  <2>1. e = Effects(x)
    OBVIOUS
  <2> HIDE DEF e
  <2>2. /\ IsPage(e) /\ e.data = x.data /\ e.kept = x.kept /\ e.stale = x.stale
        /\ e.times = x.times /\ e.slotsAt \in {x.slotsAt, now} /\ e.firstAt = x.firstAt
    BY <2>1, EffectsSet, ZenonT(60)
  <2> QED BY <2>2 DEF e
<1>3. PICK first, second : /\ first = Rendered(old, p)
                           /\ second = Rendered(first, Effects(first))
                           /\ q = Rendered(second, Effects(second))
  BY RunsOfEffects
<1>4. \A x, y, z : Kept(x, y) /\ Kept(y, z) => Kept(x, z)
  OBVIOUS
<1> HIDE DEF Kept
<1>5. IsPage(first) /\ Kept(p, first)
  BY <1>1, <1>3
<1>6. IsPage(second) /\ Kept(p, second)
  BY <1>1, <1>2, <1>3, <1>4, <1>5
<1>7. Kept(p, q)
  BY <1>1, <1>2, <1>3, <1>4, <1>6
<1> QED
  BY <1>7 DEF Kept

\* So a time that survives the effects stands.
LEMMA SettledIsSteady ==
  ASSUME NEW old, NEW p, NEW n, IsPage(p), Earned(p), TimeStands(p, n), NEW q, Settles(old, p, q)
  PROVE  TimeStands(q, n)
<1>1. PICK first, second : /\ first = Rendered(old, p)
                           /\ second = Rendered(first, Effects(first))
                           /\ q = Rendered(second, Effects(second))
  BY RunsOfEffects
<1>2. IsPage(first) /\ Earned(first) /\ TimeStands(first, n)
  BY <1>1, RenderedIsSound, RenderedStands
<1>3. IsPage(Effects(first)) /\ Earned(Effects(first)) /\ TimeStands(Effects(first), n)
  BY <1>2, EffectsEarn, EffectsLeaveTheTime
<1>4. IsPage(second) /\ Earned(second) /\ TimeStands(second, n)
  BY <1>1, <1>3, RenderedIsSound, RenderedStands
<1>5. IsPage(Effects(second)) /\ TimeStands(Effects(second), n)
  BY <1>4, EffectsEarn, EffectsLeaveTheTime
<1> QED
  BY <1>1, <1>5, RenderedStands

\* A rendering asks for no answer again.
LEMMA RenderIsSteady ==
  ASSUME NEW p, IsPage(p), Earned(p), now \in Clock, Steady(p, now), Render(p)
  PROVE  Steady(page', now)
<1>1. Settles(page, p, page')
  BY DEF Render
<1>2. TimeStands(page', now)
  BY <1>1, SettledIsSteady DEF Steady
<1>3. AnswersKept(page')
  <2>1. AnswersKept(p)
    BY DEF Steady
  <2>2. /\ page'.data = p.data /\ page'.kept = p.kept /\ page'.stale \subseteq p.stale
        /\ DOMAIN page'.times \subseteq DOMAIN p.times
    BY <1>1, SettledKeeps
  <2> QED BY <2>1, <2>2 DEF AnswersKept, Loaded
<1>4. Computed(page', now)
  <2>1. page'.slotsAt \in {p.slotsAt, now}
    BY <1>1, SettledKeeps
  <2>2. now <= now
    BY BookingAssumption
  <2> QED BY <2>1, <2>2 DEF Steady, Computed
<1> QED
  BY <1>2, <1>3, <1>4 DEF Steady

\* The page and the clock.
Ready(p, n) == Sound(p) /\ n \in Clock /\ Steady(p, n)

\* The updates of a step before its effects: the other fields stay.
LEMMA OneField ==
  ASSUME NEW p, IsPage(p), NEW f \in Fields, NEW v, NEW q, q = [p EXCEPT ![f] = v]
  PROVE  IsPage(q) /\ q[f] = v /\ \A g \in Fields \ {f} : q[g] = p[g]
  BY DEF IsPage, Fields

\* A click that leaves the date, the time and the answers alone.
LEMMA ClickIsSteady ==
  ASSUME NEW p, NEW q, NEW n, Steady(p, n),
         \A g \in Fields \ {"step", "barber", "service", "sent"} : q[g] = p[g]
  PROVE  Steady(q, n)
<1>1. /\ q.time = p.time /\ q.date = p.date /\ q.done = p.done /\ q.kept = p.kept
      /\ q.data = p.data /\ q.times = p.times /\ q.stale = p.stale /\ q.slotsAt = p.slotsAt
  BY DEF Fields
<1>2. TimeStands(q, n)
  BY <1>1, StandsAlike DEF Steady
<1> QED
  BY <1>1, <1>2 DEF Steady, AnswersKept, Computed, Loaded

\* A click that takes the time back.
LEMMA NoTimeIsSteady ==
  ASSUME NEW p, NEW q, NEW n, Steady(p, n), q.time = None,
         q.kept = p.kept, q.data = p.data, q.times = p.times, q.stale = p.stale,
         q.slotsAt = p.slotsAt
  PROVE  Steady(q, n)
  BY DEF Steady, TimeStands, AnswersKept, Computed, Loaded

\* A time the page shows is free for the selection the page has made first.
LEMMA ShownTimesStand ==
  ASSUME NEW p, NEW n, Sound(p), n \in Clock, Steady(p, n), p.step = 3, p.kept = {},
         \A k \in DOMAIN p.times : Received(p, k) => k[1] = "window", NEW t \in ShownTimes(p)
  PROVE  /\ p.done = {selectionKey(p)}
         /\ \A q \in Queries : p.data[q] # None
         /\ Received(p, WindowQuery(p)) /\ p.date # None
         /\ t \in SlotsOf(p, p.date, {a \in Result(p, WindowQuery(p)) : a.start \div Minutes = p.date}, p.slotsAt)
<1>1. /\ \A q \in Queries : p.data[q] # None
      /\ p.date # None /\ t \in timeSlots(p)
  BY DEF ShownTimes, loadingSelectedDateAvailability
<1>2. /\ p.barber # None /\ existingAppointments(p) # None
      /\ t \in SlotsOf(p, p.date, existingAppointments(p), p.slotsAt)
  BY <1>1 DEF timeSlots
<1>3. Received(p, WindowQuery(p))
  <2>1. DayQuery(p)[1] = "day"
    BY DEF DayQuery
  <2>2. ~Received(p, DayQuery(p))
    BY <2>1 DEF Received, Result
  <2> QED BY <1>2, <2>2 DEF existingAppointments
<1>4. existingAppointments(p) = {a \in Result(p, WindowQuery(p)) : a.start \div Minutes = p.date}
  BY <1>1, <1>3 DEF existingAppointments
<1>5. Loaded(p, "window")
  BY <1>3 DEF Received, Result, Steady, AnswersKept
<1>6. p.service # None
  BY DEF Sound, Earned
<1>7. p.done = {selectionKey(p)}
  BY <1>1, <1>2, <1>3, <1>5, <1>6 DEF Sound, Decided, Selecting, Received
<1> QED
  BY <1>1, <1>2, <1>3, <1>4, <1>7

\* The selection that a key names, when it is the one of the page.
LEMMA KeyOfThePage ==
  ASSUME NEW p
  PROVE  /\ WindowOf(selectionKey(p)) = WindowQuery(p)
         /\ \A at : Offers(p, selectionKey(p), at)
                      = SlotsOf(p, p.date, {a \in Result(p, WindowQuery(p)) : a.start \div Minutes = p.date}, at)
<1>1. WindowOf(selectionKey(p)) = WindowQuery(p)
  BY DEF WindowOf, selectionKey, WindowQuery
<1>2. /\ Selected(p, selectionKey(p)).barber = p.barber
      /\ Selected(p, selectionKey(p)).service = p.service
      /\ Selected(p, selectionKey(p)).data = p.data
  BY DEF Selected, selectionKey
<1>3. \A d, taken, at : SlotsOf(Selected(p, selectionKey(p)), d, taken, at) = SlotsOf(p, d, taken, at)
  BY <1>2, SlotsAlike
<1> QED
  BY <1>1, <1>3 DEF Offers, Taken

\* A click on a time the page shows.
LEMMA SelectTimeIsSteady ==
  ASSUME Ready(page, now), NEW t \in ShownTimes(page), NEW q, page.step = 3,
         q = [page EXCEPT !.time = IF page.time = t THEN None ELSE t]
  PROVE  Steady(q, now)
<1>1. IsPage(page)
  BY DEF Ready, Sound
<1>2. /\ q.time \in {None, t} /\ q.date = page.date /\ q.done = page.done
      /\ q.kept = page.kept /\ q.data = page.data /\ q.times = page.times
      /\ q.stale = page.stale /\ q.slotsAt = page.slotsAt
  BY <1>1 DEF IsPage, Fields
<1>3. CASE q.time = None
  BY <1>2, <1>3, NoTimeIsSteady DEF Ready
<1>4. CASE q.time = t
  <2> SUFFICES ASSUME q.kept = {}, \A k \in DOMAIN q.times : Received(q, k) => k[1] = "window",
                      NEW key \in q.done
               PROVE  /\ \A r \in Queries : q.data[r] # None
                      /\ Received(q, WindowOf(key)) /\ q.date # None
                      /\ \E at \in Clock : at <= now /\ q.time \in Offers(q, key, at)
    <3>1. AnswersKept(q) /\ Computed(q, now)
      BY <1>2 DEF Ready, Steady, AnswersKept, Computed, Loaded
    <3> QED BY <3>1 DEF Steady, TimeStands
  <2>0. \A k \in DOMAIN page.times : Received(page, k) => k[1] = "window"
    BY <1>2 DEF Received, Result
  <2>1. /\ page.done = {selectionKey(page)}
        /\ \A r \in Queries : page.data[r] # None
        /\ Received(page, WindowQuery(page)) /\ page.date # None
        /\ t \in SlotsOf(page, page.date,
                   {a \in Result(page, WindowQuery(page)) : a.start \div Minutes = page.date}, page.slotsAt)
    BY <1>2, <2>0, ShownTimesStand DEF Ready
  <2>2. key = selectionKey(page)
    BY <1>2, <2>1
  <2>3. Received(page, WindowOf(key)) /\ t \in Offers(page, key, page.slotsAt)
    BY <2>1, <2>2, KeyOfThePage
  <2>4. /\ Received(q, WindowOf(key)) = Received(page, WindowOf(key))
        /\ Selected(q, key) = Selected(page, key) /\ Taken(q, key) = Taken(page, key)
    BY <1>2 DEF Received, Result, Selected, Taken
  <2>5. Offers(q, key, page.slotsAt) = Offers(page, key, page.slotsAt)
    BY <1>2, <2>4 DEF Offers
  <2>6. page.slotsAt \in Clock /\ page.slotsAt <= now
    BY DEF Ready, Steady, Computed
  <2> QED BY <1>2, <1>4, <2>1, <2>3, <2>4, <2>5, <2>6
<1> QED
  BY <1>2, <1>3, <1>4

\* Every click of the customer leaves a chosen time that stands.
LEMMA CustomerIsSteady ==
  ASSUME Ready(page, now), Customer
  PROVE  Steady(page', now)
<1>0. IsPage(page) /\ Earned(page) /\ Steady(page, now) /\ now \in Clock
  BY DEF Ready, Sound
<1>1. ASSUME NEW f \in {"step", "barber", "service", "sent"}, NEW v,
             Earned([page EXCEPT ![f] = v]), Render([page EXCEPT ![f] = v])
      PROVE  Steady(page', now)
  <2> DEFINE q == [page EXCEPT ![f] = v]
  <2>1. IsPage(q) /\ \A g \in Fields \ {f} : q[g] = page[g]
    BY <1>0, OneField DEF Fields
  <2>2. Earned(q) /\ Render(q)
    BY <1>1
  <2> HIDE DEF q
  <2>3. Steady(q, now)
    BY <1>0, <2>1, ClickIsSteady
  <2> QED BY <1>0, <2>1, <2>2, <2>3, RenderIsSteady
<1>2. CASE SelectBarber
  <2>1. PICK b : page.step = 1 /\ Render([page EXCEPT !.barber = b])
    BY <1>2 DEF SelectBarber
  <2>2. Earned([page EXCEPT !.barber = b])
    BY <1>0, <2>1 DEF IsPage, Fields, Earned
  <2> QED BY <1>1, <2>1, <2>2
<1>3. CASE SelectService
  <2>1. PICK v : page.step = 2 /\ Render([page EXCEPT !.service = v])
    BY <1>3 DEF SelectService
  <2>2. Earned([page EXCEPT !.service = v])
    BY <1>0, <2>1 DEF IsPage, Fields, Earned
  <2> QED BY <1>1, <2>1, <2>2
<1>4. CASE SelectDate
  <2>1. PICK d : page.step = 3 /\ Render([page EXCEPT !.date = d, !.time = None])
    BY <1>4 DEF SelectDate
  <2> DEFINE q == [page EXCEPT !.date = d]
             r == [q EXCEPT !.time = None]
  <2>2. IsPage(q) /\ \A g \in Fields \ {"date"} : q[g] = page[g]
    BY <1>0, OneField DEF Fields
  <2>3. IsPage(r) /\ r.time = None /\ \A g \in Fields \ {"time"} : r[g] = q[g]
    <3> HIDE DEF q
    <3> QED BY <2>2, OneField DEF Fields
  <2>4. Render(r)
    BY <2>1
  <2> HIDE DEF q, r
  <2>5. Earned(r)
    BY <1>0, <2>1, <2>2, <2>3 DEF Earned, Fields
  <2>6. /\ r.kept = page.kept /\ r.data = page.data /\ r.times = page.times
        /\ r.stale = page.stale /\ r.slotsAt = page.slotsAt
    BY <2>2, <2>3 DEF Fields
  <2> QED BY <1>0, <2>3, <2>4, <2>5, <2>6, NoTimeIsSteady, RenderIsSteady
<1>5. CASE SelectTime
  <2>1. PICK t \in ShownTimes(page) :
            page.step = 3 /\ Render([page EXCEPT !.time = IF page.time = t THEN None ELSE t])
    BY <1>0, <1>5 DEF SelectTime, IsPage, Fields
  <2>2. page.barber # None
    BY <2>1 DEF ShownTimes, timeSlots
  <2> DEFINE q == [page EXCEPT !.time = IF page.time = t THEN None ELSE t]
  <2>3. IsPage(q) /\ \A g \in Fields \ {"time"} : q[g] = page[g]
    BY <1>0, OneField DEF Fields
  <2>4. Steady(q, now) /\ Render(q)
    BY <2>1, SelectTimeIsSteady
  <2> HIDE DEF q
  <2>5. Earned(q)
    BY <1>0, <2>1, <2>2, <2>3 DEF Earned, Fields
  <2> QED BY <1>0, <2>3, <2>4, <2>5, RenderIsSteady
<1>6. CASE handleNext
  <2>1. /\ \/ page.step = 1 /\ page.barber # None
           \/ page.step = 2 /\ page.service # None
           \/ page.step = 3 /\ page.date # None /\ page.time # None
        /\ Render([page EXCEPT !.step = page.step + 1])
    BY <1>6 DEF handleNext
  <2>2. Earned([page EXCEPT !.step = page.step + 1])
    BY <1>0, <2>1 DEF IsPage, Fields, Earned
  <2> QED BY <1>1, <2>1, <2>2
<1>7. CASE handleBack
  <2>1. page.step \in 2 .. 4 /\ Render([page EXCEPT !.step = page.step - 1])
    BY <1>7 DEF handleBack
  <2>2. Earned([page EXCEPT !.step = page.step - 1])
    BY <1>0, <2>1 DEF IsPage, Fields, Earned
  <2> QED BY <1>1, <2>1, <2>2
<1>8. CASE handleSubmit
  <2>1. PICK r : Render([page EXCEPT !.sent = r])
    BY <1>8 DEF handleSubmit
  <2>2. Earned([page EXCEPT !.sent = r])
    BY <1>0 DEF IsPage, Fields, Earned
  <2> QED BY <1>1, <2>1, <2>2
<1> QED
  BY <1>2, <1>3, <1>4, <1>5, <1>6, <1>7, <1>8 DEF Customer

\* An answer to one of the five queries changes nothing a chosen time rests on: those were
\* all answered when the first selection was made, and only the window is asked for again.
LEMMA LoadIsSteady ==
  ASSUME Ready(page, now), NEW k \in Queries, NEW v, Render([page EXCEPT !.data[k] = v]),
         \/ page.data[k] = None
         \/ k = "window" /\ v # None,
         k = "window" => v # None /\ (v = Failed => page.data[k] = None)
  PROVE  Steady(page', now)
<1>0. IsPage(page) /\ Earned(page) /\ Steady(page, now) /\ now \in Clock
  BY DEF Ready, Sound
<1> DEFINE d == [page.data EXCEPT ![k] = v]
           q == [page EXCEPT !.data = d]
<1>1. Render(q)
  OBVIOUS
<1>2. IsPage(q) /\ q.data = d /\ \A g \in Fields \ {"data"} : q[g] = page[g]
  BY <1>0, OneField DEF Fields
<1>3. /\ DOMAIN page.data = Queries /\ DOMAIN d = Queries
      /\ d[k] = v /\ \A r \in Queries \ {k} : d[r] = page.data[r]
  BY <1>0 DEF Steady, AnswersKept
<1> HIDE DEF q, d
<1>4. Earned(q)
  BY <1>0, <1>2 DEF Earned, Fields
<1>5. /\ q.time = page.time /\ q.date = page.date /\ q.done = page.done /\ q.kept = page.kept
      /\ q.times = page.times /\ q.stale = page.stale /\ q.slotsAt = page.slotsAt
  BY <1>2 DEF Fields
<1>6. AnswersKept(q) /\ Computed(q, now)
  <2>1. DOMAIN q.times # {} => Loaded(q, "window")
    BY <1>0, <1>2, <1>3, <1>5 DEF Steady, AnswersKept, Loaded, Queries
  <2>2. (q.kept = {} => q.stale = {}) /\ Computed(q, now)
    BY <1>0, <1>5 DEF Steady, AnswersKept, Computed
  <2> QED BY <1>2, <1>3, <2>1, <2>2 DEF AnswersKept
<1>7. TimeStands(q, now)
  <2> SUFFICES ASSUME q.kept = {}, \A j \in DOMAIN q.times : Received(q, j) => j[1] = "window",
                      q.time # None, NEW key \in q.done
               PROVE  /\ \A r \in Queries : q.data[r] # None
                      /\ Received(q, WindowOf(key)) /\ q.date # None
                      /\ \E at \in Clock : at <= now /\ q.time \in Offers(q, key, at)
    BY DEF TimeStands
  <2>1. /\ \A r \in Queries : page.data[r] # None
        /\ Received(page, WindowOf(key)) /\ page.date # None
        /\ \E at \in Clock : at <= now /\ page.time \in Offers(page, key, at)
    BY <1>0, <1>5 DEF Steady, TimeStands, Received, Result
  <2>2. k = "window" /\ \A r \in Queries : q.data[r] # None
    BY <1>2, <1>3, <2>1
  <2>3. /\ \A r \in {"barbers", "services", "hours"} : q.data[r] = page.data[r]
        /\ Received(q, WindowOf(key)) = Received(page, WindowOf(key))
        /\ Taken(q, key) = Taken(page, key)
    BY <1>2, <1>3, <1>5, <2>2 DEF Received, Result, Taken, Queries
  <2>4. /\ Selected(q, key).barber = Selected(page, key).barber
        /\ Selected(q, key).service = Selected(page, key).service
        /\ Selected(q, key).data = q.data /\ Selected(page, key).data = page.data
    BY DEF Selected
  <2>5. \A dd, taken, at : SlotsOf(Selected(q, key), dd, taken, at) = SlotsOf(Selected(page, key), dd, taken, at)
    BY <2>3, <2>4, SlotsAlike
  <2>6. \A at : Offers(q, key, at) = Offers(page, key, at)
    BY <1>5, <2>3, <2>5 DEF Offers
  <2> QED BY <1>5, <2>1, <2>2, <2>3, <2>6
<1> QED
  BY <1>0, <1>1, <1>2, <1>4, <1>6, <1>7, RenderIsSteady DEF Steady

\* Nor does an answer to a query for bookings, which is asked for again only after a booking.
LEMMA LoadTimesIsSteady ==
  ASSUME Ready(page, now), NEW k \in Enabled(page), NEW v, NEW S, S \subseteq page.stale,
         Result(page, k) = None \/ k \in page.stale,
         Render([page EXCEPT !.times = Answered(k, v), !.stale = S])
  PROVE  Steady(page', now)
<1>0. IsPage(page) /\ Earned(page) /\ Steady(page, now) /\ now \in Clock
  BY DEF Ready, Sound
<1> DEFINE T == Answered(k, v)
           q == [page EXCEPT !.times = T]
           r == [q EXCEPT !.stale = S]
<1>1. IsPage(q) /\ q.times = T /\ \A g \in Fields \ {"times"} : q[g] = page[g]
  BY <1>0, OneField DEF Fields
<1>2. IsPage(r) /\ r.stale = S /\ \A g \in Fields \ {"stale"} : r[g] = q[g]
  <2> HIDE DEF q
  <2>1. "stale" \in Fields
    BY DEF Fields
  <2> QED BY <1>1, <2>1, OneField
<1>3. Render(r)
  OBVIOUS
<1>4. /\ DOMAIN T = DOMAIN page.times \cup {k}
      /\ \A j \in DOMAIN page.times \ {k} : T[j] = page.times[j]
  BY DEF Answered
<1> HIDE DEF r, q, T
<1>5. /\ r.time = page.time /\ r.date = page.date /\ r.done = page.done /\ r.kept = page.kept
      /\ r.data = page.data /\ r.times = T /\ r.slotsAt = page.slotsAt
  BY <1>1, <1>2 DEF Fields
<1>6. Earned(r)
  BY <1>0, <1>1, <1>2 DEF Earned, Fields
<1>7. \A j : j # k => Result(r, j) = Result(page, j)
  BY <1>4, <1>5 DEF Result
<1>8. AnswersKept(r) /\ Computed(r, now)
  <2>1. Loaded(page, "window")
    BY DEF Enabled, DayQuery, isPublicDateAllowed
  <2> QED BY <1>0, <1>2, <1>5, <2>1 DEF AnswersKept, Computed, Steady, Loaded
<1>9. TimeStands(r, now)
  <2> SUFFICES ASSUME r.kept = {}, \A j \in DOMAIN r.times : Received(r, j) => j[1] = "window",
                      r.time # None, NEW key \in r.done
               PROVE  /\ \A s \in Queries : r.data[s] # None
                      /\ Received(r, WindowOf(key)) /\ r.date # None
                      /\ \E at \in Clock : at <= now /\ r.time \in Offers(r, key, at)
    BY DEF TimeStands
  <2>0. Result(page, k) = None
    BY <1>0, <1>5 DEF Steady, AnswersKept
  <2>1. /\ \A s \in Queries : page.data[s] # None
        /\ Received(page, WindowOf(key)) /\ page.date # None
        /\ \E at \in Clock : at <= now /\ page.time \in Offers(page, key, at)
    <3>1. \A j \in DOMAIN page.times : Received(page, j) => j[1] = "window"
      BY <1>4, <1>5, <1>7, <2>0 DEF Received
    <3> QED BY <1>0, <1>5, <3>1 DEF Steady, TimeStands
  <2>2. WindowOf(key) # k
    BY <2>0, <2>1 DEF Received
  <2>3. /\ Received(r, WindowOf(key)) = Received(page, WindowOf(key))
        /\ Selected(r, key) = Selected(page, key) /\ Taken(r, key) = Taken(page, key)
    BY <1>5, <1>7, <2>2 DEF Received, Selected, Taken
  <2>4. \A at : Offers(r, key, at) = Offers(page, key, at)
    BY <1>5, <2>3 DEF Offers
  <2> QED BY <1>5, <2>1, <2>3, <2>4
<1> QED
  BY <1>0, <1>2, <1>3, <1>6, <1>8, <1>9, RenderIsSteady DEF Steady

\* What the page holds of the network is steady whatever is answered, lost or refused.
LEMMA NetworkIsSteady ==
  ASSUME Ready(page, now), Load \/ LoadTimes \/ Lose \/ Refuse
  PROVE  Steady(page', now)
<1>0. IsPage(page) /\ Earned(page) /\ Steady(page, now) /\ now \in Clock
  BY DEF Ready, Sound
<1>1. CASE Load
  <2>1. PICK k \in Queries : /\ page.data[k] = None \/ k = "window"
                             /\ Render([page EXCEPT !.data[k] = Answer(k)])
    BY <1>1 DEF Load
  <2>2. k = "window" => Answer(k) \notin {None, Failed}
    BY <1>0, BookingAssumption DEF Answer, Today
  <2> QED BY <2>1, <2>2, LoadIsSteady
<1>2. CASE LoadTimes
  <2>1. PICK k \in Enabled(page) :
            /\ k \notin DOMAIN page.times \/ k \in page.stale
            /\ Render([page EXCEPT !.times = Answered(k, PublicAppointments(k[2], k[3], k[4])),
                                   !.stale = page.stale \ {k}])
    BY <1>0, <1>2 DEF LoadTimes, IsPage, Fields
  <2>2. Result(page, k) = None \/ k \in page.stale
    BY <2>1 DEF Result
  <2>3. page.stale \ {k} \subseteq page.stale
    OBVIOUS
  <2> QED BY <2>1, <2>2, <2>3, LoadTimesIsSteady
<1>3. CASE Lose
  <2>1. CASE \E k \in Queries : page.data[k] = None /\ Render([page EXCEPT !.data[k] = Failed])
    <3>1. PICK k \in Queries : page.data[k] = None /\ Render([page EXCEPT !.data[k] = Failed])
      BY <2>1
    <3>2. Failed # None
      BY BookingAssumption
    <3> QED BY <3>1, <3>2, LoadIsSteady
  <2>2. CASE \E k \in Enabled(page) :
                Result(page, k) = None /\ Render([page EXCEPT !.times = Answered(k, Failed)])
    <3>1. PICK k \in Enabled(page) :
                Result(page, k) = None /\ Render([page EXCEPT !.times = Answered(k, Failed)])
      BY <2>2
    <3> DEFINE q == [page EXCEPT !.times = Answered(k, Failed)]
    <3>2. IsPage(q) /\ \A g \in Fields \ {"times"} : q[g] = page[g]
      BY <1>0, OneField DEF Fields
    <3>3. q = [q EXCEPT !.stale = page.stale]
      <4> HIDE DEF q
      <4> QED BY <3>2 DEF IsPage, Fields
    <3>4. Render([page EXCEPT !.times = Answered(k, Failed), !.stale = page.stale])
      BY <3>1, <3>3
    <3> QED BY <3>1, <3>4, LoadTimesIsSteady
  <2> QED BY <1>3, <2>1, <2>2 DEF Lose
<1>4. CASE Refuse
  <2>1. Render([page EXCEPT !.sent = None])
    BY <1>4 DEF Refuse
  <2> DEFINE q == [page EXCEPT !.sent = None]
  <2>2. IsPage(q) /\ \A g \in Fields \ {"sent"} : q[g] = page[g]
    BY <1>0, OneField DEF Fields
  <2>3. Render(q)
    BY <2>1
  <2> HIDE DEF q
  <2>4. Earned(q)
    BY <1>0, <2>2 DEF Earned, Fields
  <2>5. Steady(q, now)
    BY <1>0, <2>2, ClickIsSteady
  <2> QED BY <1>0, <2>2, <2>3, <2>4, <2>5, RenderIsSteady
<1> QED
  BY <1>1, <1>2, <1>3, <1>4

\* After a booking nothing is claimed of a chosen time.
LEMMA AcceptIsSteady ==
  ASSUME Ready(page, now), Accept
  PROVE  Steady(page', now)
<1>0. IsPage(page) /\ Earned(page) /\ Steady(page, now) /\ now \in Clock
  BY DEF Ready, Sound
<1>1. PICK a, S : Render([page EXCEPT !.sent = None, !.kept = {a}, !.step = 5, !.stale = S])
  BY DEF Accept
<1> DEFINE p1 == [page EXCEPT !.sent = None]
           p2 == [p1 EXCEPT !.kept = {a}]
           p3 == [p2 EXCEPT !.step = 5]
           p4 == [p3 EXCEPT !.stale = S]
<1>2. IsPage(p1) /\ \A g \in Fields \ {"sent"} : p1[g] = page[g]
  BY <1>0, OneField DEF Fields
<1>3. IsPage(p2) /\ p2.kept = {a} /\ \A g \in Fields \ {"kept"} : p2[g] = p1[g]
  <2> HIDE DEF p1
  <2>1. "kept" \in Fields
    BY DEF Fields
  <2> QED BY <1>2, <2>1, OneField
<1>4. IsPage(p3) /\ p3.step = 5 /\ \A g \in Fields \ {"step"} : p3[g] = p2[g]
  <2> HIDE DEF p2
  <2> QED BY <1>3, OneField DEF Fields
<1>5. IsPage(p4) /\ \A g \in Fields \ {"stale"} : p4[g] = p3[g]
  <2> HIDE DEF p3
  <2> QED BY <1>4, OneField DEF Fields
<1>6. Render(p4)
  BY <1>1
<1> HIDE DEF p1, p2, p3, p4
<1>7. /\ p4.kept = {a} /\ p4.step = 5 /\ p4.data = page.data /\ p4.times = page.times
      /\ p4.slotsAt = page.slotsAt
  BY <1>2, <1>3, <1>4, <1>5 DEF Fields
<1>8. Earned(p4) /\ Steady(p4, now)
  BY <1>0, <1>7 DEF Earned, Steady, AnswersKept, Computed, TimeStands, Loaded
<1> QED
  BY <1>0, <1>5, <1>6, <1>8, RenderIsSteady

\* A page just opened has made no selection.
LEMMA OpenedIsReady ==
  ASSUME Init
  PROVE  Ready(page, now)
<1>1. PICK l \in Links : Settles(Opened(l), Opened(l), page)
  BY DEF Init
<1> DEFINE p == Opened(l)
<1>2. /\ p.done = {} /\ p.times = << >> /\ p.stale = {} /\ p.kept = {}
      /\ p.slotsAt = now /\ DOMAIN p.data = Queries
  BY DEF Opened
<1>3. IsPage(p)
  BY DEF Opened, IsPage, Fields
<1>4. Earned(p)
  <2>1. l.date # None
    BY BookingAssumption
  <2>2. /\ p.step = CASE l.barber # None /\ l.service # None /\ l.time # None -> 4
                      [] l.barber # None /\ l.service # None /\ l.time = None -> 3
                      [] l.barber # None /\ l.service = None -> 2
                      [] OTHER -> 1
        /\ p.barber = l.barber /\ p.service = l.service /\ p.date = l.date /\ p.time = l.time
    BY DEF Opened
  <2> HIDE DEF p
  <2> QED BY <2>1, <2>2 DEF Earned
<1>5. Settles(p, p, page)
  BY <1>1
<1> HIDE DEF p
<1>6. TimeStands(p, now)
  BY <1>2 DEF TimeStands
<1>7. AnswersKept(page) /\ Computed(page, now)
  <2>1. /\ page.data = p.data /\ page.stale \subseteq p.stale
        /\ DOMAIN page.times \subseteq DOMAIN p.times /\ page.slotsAt \in {p.slotsAt, now}
    BY <1>3, <1>4, <1>5, SettledKeeps
  <2>2. DOMAIN p.times = {}
    BY <1>2
  <2>3. now \in Clock /\ now <= now
    BY BookingAssumption DEF Init
  <2> QED BY <1>2, <2>1, <2>2, <2>3 DEF AnswersKept, Computed
<1>8. TimeStands(page, now)
  BY <1>3, <1>4, <1>5, <1>6, SettledIsSteady
<1> QED
  BY <1>7, <1>8, OpenedIsSound DEF Ready, Steady, Init

\* Ready is inductive.
LEMMA StepIsReady == Ready(page, now) /\ [Next]_vars => Ready(page, now)'
<1> SUFFICES ASSUME Ready(page, now), [Next]_vars
             PROVE  Ready(page', now')
  OBVIOUS
<1>1. Sound(page')
  BY StepIsSound DEF Ready
<1>2. CASE page' = page /\ now' = now
  BY <1>2
<1>3. CASE Tick
  <2>1. now' \in Clock /\ now' > now /\ page' = page
    BY <1>3 DEF Tick
  <2>2. \A at \in Clock : at <= now => at <= now'
    BY <2>1, BookingAssumption DEF Ready
  <2>3. TimeStands(page, now') /\ Computed(page, now')
    BY <2>2 DEF Ready, Steady, TimeStands, Computed
  <2> QED BY <1>1, <2>1, <2>3 DEF Ready, Steady
<1>4. CASE Customer \/ Load \/ LoadTimes \/ Lose \/ Refuse \/ Accept
  <2>1. now' = now
    BY <1>4 DEF Customer, Load, LoadTimes, Lose, Refuse, Accept
  <2>2. Steady(page', now)
    <3>1. Load \/ LoadTimes \/ Lose \/ Refuse => Steady(page', now)
      BY NetworkIsSteady
    <3>2. Customer => Steady(page', now)
      BY CustomerIsSteady
    <3>3. Accept => Steady(page', now)
      BY AcceptIsSteady
    <3> QED BY <1>4, <3>1, <3>2, <3>3
  <2> QED BY <1>1, <2>1, <2>2 DEF Ready
<1>5. Configure \/ OtherCustomer \/ UNCHANGED vars => page' = page /\ now' = now
  BY DEF Configure, OtherCustomer, vars
<1> QED
  BY <1>2, <1>3, <1>4, <1>5 DEF Next

\* What the page shows as chosen was free, by all it knows, for what is chosen now: no order
\* of clicks and of answers that come late, fail or are asked for again leaves an older
\* choice standing (the effects of Booking.tsx that clear the time, and SelectDate).
THEOREM ChoicesStayOffered == Spec => []ChosenTimeIsOffered
<1>1. Ready(page, now) => ChosenTimeIsOffered
  <2> SUFFICES ASSUME Ready(page, now), OnlyWindowsAnswered, page.kept = {},
                      page.done = {selectionKey(page)}, page.time # None
               PROVE  /\ Received(page, WindowQuery(page)) /\ page.date # None
                      /\ \E at \in Clock : /\ at <= now
                                           /\ page.time \in SlotsOf(page, page.date, existingAppointments(page), at)
    BY DEF ChosenTimeIsOffered
  <2>1. /\ Received(page, WindowOf(selectionKey(page))) /\ page.date # None
        /\ \E at \in Clock : at <= now /\ page.time \in Offers(page, selectionKey(page), at)
    BY DEF Ready, Steady, TimeStands, OnlyWindowsAnswered
  <2>2. Received(page, WindowQuery(page))
    BY <2>1, KeyOfThePage
  <2>3. existingAppointments(page)
          = {a \in Result(page, WindowQuery(page)) : a.start \div Minutes = page.date}
    BY <2>1, <2>2 DEF existingAppointments
  <2> QED BY <2>1, <2>2, <2>3, KeyOfThePage
<1> QED
  BY <1>1, OpenedIsReady, StepIsReady, PTL DEF Spec
-----------------------------------------------------------------------------
\* The calendar.

\* A set of numbers has a least one.
LEMMA LeastNumber ==
  ASSUME NEW T, T \subseteq Nat, T # {}
  PROVE  \E x \in T : \A y \in T : x <= y
<1> DEFINE R == OpToRel(<, Nat)
<1>1. IsWellFoundedOn(R, Nat)
  BY NatLessThanWellFounded
<1>2. \A x, y \in Nat : y < x => <<y, x>> \in R
  BY DEF OpToRel
<1> HIDE DEF R
<1>3. PICK x \in T : \A y \in T : ~(<<y, x>> \in R)
  BY <1>1, WFMin
<1>4. ASSUME NEW y \in T PROVE x <= y
  <2>1. x \in Nat /\ y \in Nat /\ ~(y < x)
    BY <1>2, <1>3
  <2> QED BY <2>1
<1> QED
  BY <1>4

Months == 1 .. Len(MonthStarts)

\* Months follow each other.
LEMMA MonthsInOrder ==
  /\ Len(MonthStarts) \in Nat /\ DOMAIN MonthStarts = Months
  /\ \A x \in Months : x \in Int /\ MonthStarts[x] \in Int
  /\ OpenDay \in Int /\ OpenDay > 0
  /\ \A x, y \in Months : x < y => MonthStarts[x] + OpenDay <= MonthStarts[y]
<1>1. Len(MonthStarts) \in Nat /\ DOMAIN MonthStarts = Months
  BY CalendarAssumption DEF Months
<1>2. \A x \in Months : x \in Int /\ MonthStarts[x] \in Int
  BY CalendarAssumption DEF Months
<1> QED
  BY <1>1, <1>2, CalendarAssumption

\* The months of the calendar do not overlap.
LEMMA MonthOfIs ==
  ASSUME NEW d \in Int, NEW m, m \in Months, m + 1 \in Months,
         MonthStarts[m] <= d, d < MonthStarts[m + 1]
  PROVE  MonthOf(d) = m
<1> DEFINE P(x) == /\ MonthStarts[x] <= d
                   /\ x + 1 \in DOMAIN MonthStarts => d < MonthStarts[x + 1]
<1>0. /\ Len(MonthStarts) \in Nat /\ DOMAIN MonthStarts = Months /\ Months = 1 .. Len(MonthStarts)
      /\ \A x \in DOMAIN MonthStarts : x \in Int /\ MonthStarts[x] \in Int
      /\ OpenDay \in Int /\ OpenDay > 0
      /\ \A x, y \in DOMAIN MonthStarts : x < y => MonthStarts[x] + OpenDay <= MonthStarts[y]
  BY MonthsInOrder DEF Months
<1>1. \A x, y \in DOMAIN MonthStarts : x < y => MonthStarts[x] < MonthStarts[y]
  BY <1>0
<1>2. ASSUME NEW x \in DOMAIN MonthStarts, P(x) PROVE x = m
  <2>1. CASE x < m
    <3>1. x + 1 \in DOMAIN MonthStarts /\ (x + 1 = m \/ x + 1 < m)
      BY <1>0, <2>1
    <3> QED BY <1>0, <1>1, <1>2, <3>1
  <2>2. CASE m < x
    <3>1. m + 1 = x \/ m + 1 < x
      BY <1>0, <2>2
    <3> QED BY <1>0, <1>1, <1>2, <3>1
  <2> QED BY <1>0, <2>1, <2>2
<1>3. P(m)
  OBVIOUS
<1>4. MonthOf(d) = CHOOSE x \in DOMAIN MonthStarts : P(x)
  BY DEF MonthOf
<1> HIDE DEF P
<1> QED
  BY <1>2, <1>3, <1>4

\* Every day between two months is of a month.
LEMMA MonthExists ==
  ASSUME NEW d \in Int, NEW n \in DOMAIN MonthStarts, MonthStarts[1] <= d, d < MonthStarts[n]
  PROVE  /\ MonthOf(d) \in 1 .. n - 1
         /\ MonthStarts[MonthOf(d)] <= d /\ d < MonthStarts[MonthOf(d) + 1]
<1> DEFINE T == {m \in DOMAIN MonthStarts : d < MonthStarts[m]}
<1>0. /\ Len(MonthStarts) \in Nat /\ DOMAIN MonthStarts = 1 .. Len(MonthStarts)
      /\ \A x \in DOMAIN MonthStarts : x \in Int /\ MonthStarts[x] \in Int
  BY MonthsInOrder DEF Months
<1>1. PICK m \in T : \A y \in T : m <= y
  <2>1. T \subseteq Nat /\ n \in T
    BY <1>0
  <2> QED BY <2>1, LeastNumber
<1>2. m \in 2 .. n
  BY <1>0, <1>1
<1>3. m - 1 \notin T /\ m - 1 \in DOMAIN MonthStarts /\ (m - 1) + 1 = m
  BY <1>0, <1>1, <1>2
<1>4. MonthStarts[m - 1] <= d
  BY <1>0, <1>3
<1>5. MonthOf(d) = m - 1
  <2>1. m - 1 \in Months /\ (m - 1) + 1 \in Months /\ d < MonthStarts[(m - 1) + 1]
    BY <1>0, <1>1, <1>3 DEF Months
  <2> QED BY <1>4, <2>1, MonthOfIs
<1> QED
  BY <1>0, <1>1, <1>2, <1>3, <1>4, <1>5

\* The month that a day shows last.
Shown(d) == MonthOf(d) + (IF DayOfMonth(d) >= OpenDay THEN 1 ELSE 0)

\* Around a day there are months enough, those on display and the next.
LEMMA MonthsAround ==
  ASSUME NEW t \in Int, MonthStarts[1] <= t, Len(MonthStarts) > 3,
         t < MonthStarts[Len(MonthStarts) - 2], NEW c, c = MonthOf(t), NEW m, m = Shown(t)
  PROVE  /\ c \in Int /\ (m = c \/ m = c + 1)
         /\ c \in Months /\ c + 1 \in Months /\ m \in Months /\ m + 1 \in Months /\ m + 2 \in Months
         /\ MonthStarts[c] <= t /\ t < MonthStarts[c + 1]
<1>1. /\ Len(MonthStarts) - 2 \in DOMAIN MonthStarts /\ Len(MonthStarts) \in Nat
  BY MonthsInOrder DEF Months
<1>2. /\ c \in 1 .. (Len(MonthStarts) - 2) - 1
      /\ MonthStarts[c] <= t /\ t < MonthStarts[c + 1]
  BY <1>1, MonthExists
<1>3. m = c \/ m = c + 1
  BY <1>1, <1>2 DEF Shown
<1> QED
  BY <1>1, <1>2, <1>3 DEF Months

\* The booking window of a day, with the month it shows last by its name.
WindowOfMonths(d) ==
    [enabled |-> TRUE, today |-> d, maxDate |-> MonthStarts[Shown(d) + 1] - 1,
     nextOpeningDate |-> MonthStarts[Shown(d)] + OpenDay - 1]

\* The days of the first and of the last month that a day shows.
LEMMA DaysOnDisplay ==
  ASSUME NEW t \in Int, NEW c \in Months, NEW m \in Months, c = MonthOf(t), m = Shown(t),
         m = c \/ m = c + 1, c + 1 \in Months, m + 1 \in Months,
         MonthStarts[c] <= t, t < MonthStarts[c + 1],
         NEW lo, lo = MonthStarts[m], NEW hi, hi = MonthStarts[m + 1]
  PROVE  /\ lo \in Int /\ hi \in Int /\ lo + OpenDay <= hi /\ t < lo + OpenDay
         /\ \A d \in Int : t <= d /\ d < lo => MonthOf(d) = c /\ m = c + 1
         /\ \A d \in Int : lo <= d /\ d < hi => MonthOf(d) = m
<1>1. /\ lo \in Int /\ hi \in Int /\ lo + OpenDay <= hi /\ OpenDay \in Int /\ OpenDay > 0
      /\ c \in Int /\ m \in Int /\ MonthStarts[c] \in Int
  <2>1. c \in Int /\ m \in Int /\ OpenDay \in Int /\ OpenDay > 0
    BY MonthsInOrder
  <2>2. m < m + 1
    BY <2>1
  <2>3. MonthStarts[m] + OpenDay <= MonthStarts[m + 1]
    BY <2>2, MonthsInOrder
  <2>4. MonthStarts[m] \in Int /\ MonthStarts[m + 1] \in Int /\ MonthStarts[c] \in Int
    BY MonthsInOrder
  <2> QED BY <2>1, <2>3, <2>4
<1>2. ASSUME NEW d \in Int, t <= d, d < lo PROVE MonthOf(d) = c /\ m = c + 1
  <2>1. MonthStarts[c] <= d
    BY <1>1, <1>2
  <2>2. m # c
    BY <1>1, <1>2, <2>1
  <2> QED BY <1>2, <2>1, <2>2, MonthOfIs
<1>3. ASSUME NEW d \in Int, lo <= d, d < hi PROVE MonthOf(d) = m
  BY <1>3, MonthOfIs
<1>4. t < lo + OpenDay
  <2>1. CASE m = c + 1
    BY <1>1, <2>1
  <2>2. CASE m = c
    <3>1. ~(t - MonthStarts[c] + 1 >= OpenDay)
      BY <1>1, <2>2 DEF Shown, DayOfMonth
    <3> QED BY <1>1, <2>2, <3>1
  <2> QED BY <2>1, <2>2
<1> QED
  BY <1>1, <1>2, <1>3, <1>4

\* Until the opening day of the last month on display no later one is shown.
LEMMA NextMonthOpens ==
  ASSUME NEW t \in Int, NEW c \in Months, NEW m \in Months, c = MonthOf(t), m = Shown(t),
         m = c \/ m = c + 1, c + 1 \in Months, m + 1 \in Months,
         MonthStarts[c] <= t, t < MonthStarts[c + 1],
         NEW o, o = MonthStarts[m] + (OpenDay - 1)
  PROVE  /\ o \in Int /\ t <= o /\ Shown(o) = m + 1
         /\ \A d \in t .. o - 1 : Shown(d) \in {c, m}
<1> DEFINE lo == MonthStarts[m]
           hi == MonthStarts[m + 1]
<1>1. /\ lo \in Int /\ hi \in Int /\ lo + OpenDay <= hi /\ t < lo + OpenDay
      /\ \A d \in Int : t <= d /\ d < lo => MonthOf(d) = c /\ m = c + 1
      /\ \A d \in Int : lo <= d /\ d < hi => MonthOf(d) = m
  BY DaysOnDisplay
<1>2. /\ o = lo + (OpenDay - 1) /\ OpenDay \in Int /\ OpenDay > 0 /\ c \in Int /\ m \in Int
  BY MonthsInOrder
<1>3. \A d : MonthOf(d) = m => DayOfMonth(d) = d - lo + 1
  BY DEF DayOfMonth
<1> HIDE DEF lo, hi
<1>4. o \in Int /\ t <= o /\ lo <= o /\ o < hi
  BY <1>1, <1>2
<1>5. Shown(o) = m + 1
  <2>1. MonthOf(o) = m
    BY <1>1, <1>4
  <2>2. DayOfMonth(o) >= OpenDay
    BY <1>1, <1>2, <1>3, <2>1
  <2> QED BY <2>1, <2>2 DEF Shown
<1>6. ASSUME NEW d \in t .. o - 1 PROVE Shown(d) \in {c, m}
  <2>1. d \in Int /\ t <= d /\ d < o
    BY <1>4
  <2>2. CASE d < lo
    <3>1. MonthOf(d) = c /\ m = c + 1
      BY <1>1, <2>1, <2>2
    <3> QED BY <1>2, <3>1 DEF Shown
  <2>3. CASE ~(d < lo)
    <3>1. lo <= d /\ d < hi
      BY <1>1, <1>4, <2>1, <2>3
    <3>2. MonthOf(d) = m
      BY <1>1, <2>1, <3>1
    <3>3. ~(DayOfMonth(d) >= OpenDay)
      BY <1>1, <1>2, <1>3, <2>1, <3>2
    <3> QED BY <1>2, <3>2, <3>3 DEF Shown
  <2> QED BY <2>2, <2>3
<1> QED
  BY <1>4, <1>5, <1>6

\* The notice of a day on display is of the month after the last one.
LEMMA NoticeOfADay ==
  ASSUME NEW t \in Int, NEW c \in Months, NEW m \in Months, c = MonthOf(t), m = Shown(t),
         m = c \/ m = c + 1, c + 1 \in Months, m + 1 \in Months,
         MonthStarts[c] <= t, t < MonthStarts[c + 1],
         NEW day \in t .. MonthStarts[m + 1] - 1, NEW notice, notice # None,
         notice = getPublicBookingMonthOpeningNotice(WindowOfMonths(t), day, None)
  PROVE  /\ notice.bookingMonth = m + 1
         /\ notice.openingDate = MonthStarts[m] + (OpenDay - 1)
<1>1. /\ MonthStarts[MonthOf(day) + 1] > MonthStarts[m + 1] - 1
      /\ notice = [bookingMonth |-> MonthOf(day) + 1, openingDate |-> MonthStarts[m] + (OpenDay - 1)]
  <2>1. /\ WindowOfMonths(t).maxDate = MonthStarts[m + 1] - 1
        /\ WindowOfMonths(t).nextOpeningDate = MonthStarts[m] + (OpenDay - 1)
    BY DEF WindowOfMonths
  <2> QED BY <2>1, Zenon DEF getPublicBookingMonthOpeningNotice
<1> DEFINE lo == MonthStarts[m]
           hi == MonthStarts[m + 1]
<1>2. /\ lo \in Int /\ hi \in Int
      /\ \A d \in Int : t <= d /\ d < lo => MonthOf(d) = c /\ m = c + 1
      /\ \A d \in Int : lo <= d /\ d < hi => MonthOf(d) = m
      /\ lo + OpenDay <= hi /\ OpenDay \in Int /\ OpenDay > 0
  <2>1. OpenDay \in Int /\ OpenDay > 0
    BY MonthsInOrder
  <2>2. lo = MonthStarts[m] /\ hi = MonthStarts[m + 1]
    OBVIOUS
  <2> HIDE DEF lo, hi
  <2> QED BY <2>1, <2>2, DaysOnDisplay, SMTT(40)
<1>3. day \in Int /\ t <= day /\ day < hi
  BY <1>2
<1>4. MonthOf(day) = m
  <2>1. CASE day < lo
    <3>1. MonthOf(day) + 1 = m
      BY <1>2, <1>3, <2>1
    <3> QED BY <1>1, <1>2, <3>1
  <2>2. CASE ~(day < lo)
    <3>1. lo <= day
      BY <1>2, <1>3, <2>2
    <3> QED BY <1>2, <1>3, <3>1
  <2> QED BY <2>1, <2>2
<1> QED
  BY <1>1, <1>4

\* No day before the opening day has the month after m in its window, and that day has.
LEMMA MonthOpensThen ==
  ASSUME NEW t \in Int, NEW c \in Months, NEW m \in Months, c = MonthOf(t), m = Shown(t),
         m = c \/ m = c + 1, c + 1 \in Months, m + 1 \in Months, m + 2 \in Months,
         MonthStarts[c] <= t, t < MonthStarts[c + 1],
         NEW o, o = MonthStarts[m] + (OpenDay - 1)
  PROVE  /\ MonthStarts[m + 1] <= WindowOfMonths(o).maxDate
         /\ \A d \in t .. o - 1 : ~(MonthStarts[m + 1] <= WindowOfMonths(d).maxDate)
<1>1. /\ o \in Int /\ t <= o /\ Shown(o) = m + 1
      /\ \A d \in t .. o - 1 : Shown(d) \in {c, m}
  BY NextMonthOpens
<1>2. /\ MonthStarts[m + 1] \in Int /\ MonthStarts[m + 2] \in Int /\ MonthStarts[c + 1] \in Int
      /\ MonthStarts[m + 1] + OpenDay <= MonthStarts[m + 2] /\ OpenDay \in Int /\ OpenDay > 0
      /\ MonthStarts[c + 1] <= MonthStarts[m + 1]
  <2>1. c \in Int /\ m \in Int /\ OpenDay \in Int /\ OpenDay > 0
    BY MonthsInOrder
  <2>2. m + 1 < m + 2
    BY <2>1
  <2>3. MonthStarts[m + 1] + OpenDay <= MonthStarts[m + 2]
    BY <2>2, MonthsInOrder
  <2>4. /\ MonthStarts[m + 1] \in Int /\ MonthStarts[m + 2] \in Int /\ MonthStarts[c + 1] \in Int
    BY MonthsInOrder
  <2>5. MonthStarts[c + 1] <= MonthStarts[m + 1]
    <3>1. CASE m = c
      BY <2>4, <3>1
    <3>2. CASE m = c + 1
      <4>1. c + 1 < m + 1
        BY <2>1, <3>2
      <4>2. MonthStarts[c + 1] + OpenDay <= MonthStarts[m + 1]
        BY <4>1, MonthsInOrder
      <4> QED BY <2>1, <2>4, <4>2
    <3> QED BY <3>1, <3>2
  <2> QED BY <2>1, <2>3, <2>4, <2>5
<1>3. \A d : WindowOfMonths(d).maxDate = MonthStarts[Shown(d) + 1] - 1
  BY DEF WindowOfMonths
<1>4. MonthStarts[m + 1] <= WindowOfMonths(o).maxDate
  <2>1. WindowOfMonths(o).maxDate = MonthStarts[(m + 1) + 1] - 1
    BY <1>1, <1>3
  <2>2. m \in Int
    BY MonthsInOrder
  <2>3. (m + 1) + 1 = m + 2
    BY <2>2
  <2> QED BY <1>2, <2>1, <2>3
<1>5. ASSUME NEW d \in t .. o - 1 PROVE ~(MonthStarts[m + 1] <= WindowOfMonths(d).maxDate)
  <2>1. WindowOfMonths(d).maxDate \in {MonthStarts[c + 1] - 1, MonthStarts[m + 1] - 1}
    BY <1>1, <1>3
  <2> QED BY <1>2, <2>1
<1> QED
  BY <1>4, <1>5

\* The notice under the calendar is a promise, in every calendar: the month it names can
\* be booked from the day it names, and not on any day before
\* (getPublicBookingMonthOpeningNotice against getPublicBookingWindow).
THEOREM NoticesAreKept == Spec => []NoticeIsKept
<1>1. ASSUME now \in Clock PROVE NoticeIsKept
  <2>1. /\ Today \in Int /\ MonthStarts[1] <= Today
        /\ Len(MonthStarts) > 3 /\ Today < MonthStarts[Len(MonthStarts) - 2]
    BY <1>1, BookingAssumption DEF Today, Minutes
  <2>2. currentPublicBookingWindow(Today).today = Today
    BY DEF currentPublicBookingWindow, getPublicBookingWindow, getOpenPublicBookingWindow
  <2>3. CASE MonthlyWindow
    <3>1. \A d : currentPublicBookingWindow(d) = WindowOfMonths(d)
      BY <2>3 DEF currentPublicBookingWindow, getPublicBookingWindow, EndOfMonth, Shown, WindowOfMonths
    <3> DEFINE c == MonthOf(Today)
               m == Shown(Today)
    <3>2. /\ c \in Months /\ m \in Months /\ c = MonthOf(Today) /\ m = Shown(Today)
          /\ m = c \/ m = c + 1
          /\ c + 1 \in Months /\ m + 1 \in Months /\ m + 2 \in Months
          /\ MonthStarts[c] <= Today /\ Today < MonthStarts[c + 1]
      BY <2>1, MonthsAround
    <3>3. WindowOfMonths(Today).maxDate = MonthStarts[m + 1] - 1
      BY DEF WindowOfMonths
    <3> HIDE DEF c, m
    <3> SUFFICES ASSUME NEW day \in Today .. MonthStarts[m + 1] - 1,
                        NEW notice, notice # None,
                        notice = getPublicBookingMonthOpeningNotice(WindowOfMonths(Today), day, None)
                 PROVE  /\ MonthStarts[notice.bookingMonth] <= WindowOfMonths(notice.openingDate).maxDate
                        /\ \A d \in Today .. notice.openingDate - 1 :
                              ~(MonthStarts[notice.bookingMonth] <= WindowOfMonths(d).maxDate)
      BY <2>2, <3>1, <3>3, Zenon DEF NoticeIsKept
    <3> DEFINE o == MonthStarts[m] + (OpenDay - 1)
    <3>4. notice.bookingMonth = m + 1 /\ notice.openingDate = o
      BY <2>1, <3>2, NoticeOfADay
    <3>5. /\ MonthStarts[m + 1] <= WindowOfMonths(o).maxDate
          /\ \A d \in Today .. o - 1 : ~(MonthStarts[m + 1] <= WindowOfMonths(d).maxDate)
      BY <2>1, <3>2, MonthOpensThen
    <3> HIDE DEF o
    <3> QED BY <3>4, <3>5, Zenon
  <2>4. CASE ~MonthlyWindow
    <3>1. ~currentPublicBookingWindow(Today).enabled
      BY <2>4 DEF currentPublicBookingWindow, getPublicBookingWindow, getOpenPublicBookingWindow
    <3> QED BY <3>1 DEF NoticeIsKept, getPublicBookingMonthOpeningNotice
  <2> QED BY <2>3, <2>4
<1>2. Ready(page, now) => NoticeIsKept
  BY <1>1 DEF Ready
<1> QED
  BY <1>2, OpenedIsReady, StepIsReady, PTL DEF Spec
-----------------------------------------------------------------------------
\* The page and the server on what is free.

\* A period of work within its day.
Periods == {p \in [start : 0 .. Minutes - 1, end : 0 .. Minutes - 1] : p.start < p.end}

\* The starts of a period are the aligned minutes at which a visit fits.
LEMMA StartsFit ==
  ASSUME NEW p \in Periods, NEW duration \in Nat, NEW m
  PROVE  m \in StartsIn(p, duration)
           <=> m \in Nat /\ isClockTimeAligned(m) /\ m >= p.start /\ m + duration <= p.end
<1> DEFINE first == firstClockAlignedMinute(p.start)
           last == (p.end - p.start) \div Interval
<1>1. p.start \in Nat /\ p.end \in Nat /\ p.start < p.end
  <2>1. p.start \in 0 .. Minutes - 1 /\ p.end \in 0 .. Minutes - 1 /\ p.start < p.end
    BY DEF Periods
  <2>2. \A x \in 0 .. Minutes - 1 : x \in Nat
    BY DEF Minutes
  <2> QED BY <2>1, <2>2
<1>2. Interval \in {15, 30, 60}
  BY CalendarAssumption
<1>3. /\ first \in Nat /\ first % Interval = 0 /\ first >= p.start /\ first < p.start + Interval
      /\ last \in Nat
  BY <1>1, <1>2 DEF firstClockAlignedMinute
<1>4. ASSUME NEW k \in 0 .. last
      PROVE  first + k * Interval \in Nat /\ (first + k * Interval) % Interval = 0
             /\ first + k * Interval >= p.start
  BY <1>1, <1>2, <1>3
<1>5. ASSUME m \in Nat, m % Interval = 0, m >= p.start, m + duration <= p.end
      PROVE  \E k \in 0 .. last : m = first + k * Interval
  <2> DEFINE k == (m - first) \div Interval
  <2>1. m >= first
    BY <1>1, <1>2, <1>3, <1>5
  <2>2. k \in Nat /\ m = first + k * Interval
    <3>1. \A x, y \in Nat : x % Interval = 0 /\ y % Interval = 0 /\ y >= x
             => /\ (y - x) \div Interval \in Nat
                /\ y = x + ((y - x) \div Interval) * Interval
      BY <1>2
    <3> QED BY <1>3, <1>5, <2>1, <3>1
  <2>3. k <= last
    BY <1>1, <1>2, <1>3, <1>5, <2>1
  <2> QED BY <1>3, <2>2, <2>3
<1> HIDE DEF first, last
<1>6. m \in StartsIn(p, duration) <=> (\E k \in 0 .. last : m = first + k * Interval) /\ m + duration <= p.end
  BY DEF StartsIn, first, last
<1> QED
  BY <1>4, <1>5, <1>6 DEF isClockTimeAligned

LEMMA StartsAreNumbers ==
  ASSUME NEW p \in Periods, NEW duration, NEW m \in StartsIn(p, duration)
  PROVE  m \in Int
<1> DEFINE first == firstClockAlignedMinute(p.start)
           last == (p.end - p.start) \div Interval
<1>1. p.start \in 0 .. Minutes - 1
  BY DEF Periods
<1>2. Interval \in {15, 30, 60} /\ \A x \in 0 .. Minutes - 1 : x \in Nat
  BY CalendarAssumption DEF Minutes
<1>3. first \in Int
  BY <1>1, <1>2 DEF firstClockAlignedMinute
<1> HIDE DEF first, last
<1>4. PICK k \in 0 .. last : m = first + k * Interval
  BY DEF StartsIn, first, last
<1> QED
  BY <1>2, <1>3, <1>4

\* Two rows are two periods.
LEMMA TwoPeriods ==
  ASSUME NEW r, NEW s, NEW a \in Nat, NEW b \in Nat, NEW c \in Nat, NEW d \in Nat,
         r.start = a, r.end = b, a < b, s.start = c, s.end = d, c < d
  PROVE  rowsToPeriods({r, s}) = {Period(a, b), Period(c, d)}
<1>1. {Period(x.start, x.end) : x \in {r, s}} = {Period(a, b), Period(c, d)}
  OBVIOUS
<1>2. Period(a, b).end > Period(a, b).start /\ Period(c, d).end > Period(c, d).start
  BY DEF Period
<1>3. rowsToPeriods({r, s}) = {p \in {Period(a, b), Period(c, d)} : p.end > p.start}
  BY <1>1 DEF rowsToPeriods
<1> QED
  BY <1>2, <1>3

\* The rows the server sends for a shop without hours are those hours.
LEMMA DefaultRowsAgree ==
  ASSUME NEW day \in 0 .. 6
  PROVE  rowsToPeriods(On(getDefaultShopAvailabilityRows, day)) = defaultPeriodsForDay(day)
<1> DEFINE open == On(getDefaultShopAvailabilityRows, day)
<1>1. CASE day = 0
  <2>1. open = {}
    BY <1>1 DEF On, getDefaultShopAvailabilityRows, Row
  <2> QED BY <1>1, <2>1 DEF rowsToPeriods, defaultPeriodsForDay
<1>2. CASE day = 1
  <2> DEFINE r == Row(1, 840, 1200, TRUE)
  <2>1. open = {r, r}
    BY <1>2 DEF On, getDefaultShopAvailabilityRows, Row
  <2>2. r.start = 840 /\ r.end = 1200
    BY DEF Row
  <2> HIDE DEF r
  <2>3. rowsToPeriods(open) = {Period(840, 1200), Period(840, 1200)}
    BY <2>1, <2>2, TwoPeriods
  <2> QED BY <1>2, <2>3 DEF defaultPeriodsForDay
<1>3. CASE day \in 2 .. 5
  <2> DEFINE r == Row(day, 540, 780, TRUE)
             s == Row(day, 840, 1200, TRUE)
  <2>1. open = {r, s}
    BY <1>3 DEF On, getDefaultShopAvailabilityRows, Row
  <2>2. r.start = 540 /\ r.end = 780 /\ s.start = 840 /\ s.end = 1200
    BY DEF Row
  <2> HIDE DEF r, s
  <2>3. rowsToPeriods(open) = {Period(540, 780), Period(840, 1200)}
    BY <2>1, <2>2, TwoPeriods
  <2> QED BY <1>3, <2>3 DEF defaultPeriodsForDay
<1>4. CASE day = 6
  <2> DEFINE r == Row(6, 540, 780, TRUE)
             s == Row(6, 840, 1140, TRUE)
  <2>1. open = {r, s}
    BY <1>4 DEF On, getDefaultShopAvailabilityRows, Row
  <2>2. r.start = 540 /\ r.end = 780 /\ s.start = 840 /\ s.end = 1140
    BY DEF Row
  <2> HIDE DEF r, s
  <2>3. rowsToPeriods(open) = {Period(540, 780), Period(840, 1140)}
    BY <2>1, <2>2, TwoPeriods
  <2> QED BY <1>4, <2>3 DEF defaultPeriodsForDay
<1> QED
  BY <1>1, <1>2, <1>3, <1>4

LEMMA DefaultRowsAreRows ==
  getDefaultShopAvailabilityRows \subseteq Rows /\ getDefaultShopAvailabilityRows # {}
<1>2. ASSUME NEW r \in getDefaultShopAvailabilityRows PROVE r \in Rows
  <2>1. CASE r = [weekday |-> 0, start |-> 540, end |-> 780, on |-> FALSE]
    BY <2>1 DEF Rows, Minutes
  <2>2. CASE r = [weekday |-> 1, start |-> 840, end |-> 1200, on |-> TRUE]
    BY <2>2 DEF Rows, Minutes
  <2>3. CASE r = [weekday |-> 6, start |-> 540, end |-> 780, on |-> TRUE]
    BY <2>3 DEF Rows, Minutes
  <2>4. CASE r = [weekday |-> 6, start |-> 840, end |-> 1140, on |-> TRUE]
    BY <2>4 DEF Rows, Minutes
  <2>5. CASE \E d \in 2 .. 5 : r = [weekday |-> d, start |-> 540, end |-> 780, on |-> TRUE]
    BY <2>5 DEF Rows, Minutes
  <2>6. CASE \E d \in 2 .. 5 : r = [weekday |-> d, start |-> 840, end |-> 1200, on |-> TRUE]
    BY <2>6 DEF Rows, Minutes
  <2> QED BY <2>1, <2>2, <2>3, <2>4, <2>5, <2>6 DEF getDefaultShopAvailabilityRows, Row
<1>3. [weekday |-> 0, start |-> 540, end |-> 780, on |-> FALSE] \in getDefaultShopAvailabilityRows
  BY DEF getDefaultShopAvailabilityRows, Row
<1> QED
  BY <1>2, <1>3

\* Stored hours are periods, for the page and for the server.
LEMMA HoursArePeriods ==
  ASSUME NEW hours \in StoredHours, NEW b \in Barbers, NEW day \in 0 .. 6
  PROVE  getEffectivePeriodsForBarber(day, hours.shop, hours.barber[b]) \subseteq Periods
<1>1. hours.shop \subseteq Rows /\ hours.barber[b] \subseteq Rows
  BY DEF StoredHours
<1>2. \A rows : rows \subseteq Rows => rowsToPeriods(On(rows, day)) \subseteq Periods
  BY DEF rowsToPeriods, On, Rows, Periods, Period
<1>3. defaultPeriodsForDay(day) \subseteq Periods
  BY DEF defaultPeriodsForDay, Periods, Period, Minutes
<1>4. periodsForShop(day, hours.shop) \subseteq Periods
  BY <1>1, <1>2, <1>3 DEF periodsForShop
<1>5. \A S, T : S \subseteq Periods /\ T \subseteq Periods => intersectPeriods(S, T) \subseteq Periods
  BY DEF intersectPeriods, Periods, Period, Minutes
<1> QED
  BY <1>1, <1>2, <1>4, <1>5 DEF getEffectivePeriodsForBarber

\* Both find the same periods of work.
LEMMA PeriodsAgree ==
  ASSUME shop \in Settings, NEW b \in Barbers, NEW day \in 0 .. 6, NEW hours, hours = Answer("hours")
  PROVE  /\ hours \in StoredHours
         /\ getEffectivePeriodsForBarber(day, hours.shop, hours.barber[b])
              = getBarberWorkingPeriods(b, day, shop.hours)
<1>1. /\ shop.hours \in StoredHours
      /\ hours = [shop.hours EXCEPT !.shop = IF @ = {} THEN getDefaultShopAvailabilityRows ELSE @]
  BY DEF Settings, Answer
<1>2. /\ hours.barber = shop.hours.barber
      /\ hours.shop = IF shop.hours.shop = {} THEN getDefaultShopAvailabilityRows ELSE shop.hours.shop
      /\ hours \in StoredHours
  BY <1>1, DefaultRowsAreRows DEF StoredHours
<1>3. periodsForShop(day, hours.shop) = IF shop.hours.shop = {} THEN defaultPeriodsForDay(day)
                                        ELSE rowsToPeriods(On(shop.hours.shop, day))
  BY <1>2, DefaultRowsAgree, DefaultRowsAreRows DEF periodsForShop
<1>4. \A T : intersectPeriods({}, T) = {}
  BY DEF intersectPeriods
<1> QED
  BY <1>2, <1>3, <1>4 DEF getEffectivePeriodsForBarber, getBarberWorkingPeriods
\* A visit within its day fits the same periods for both.
LEMMA FitsAlike ==
  ASSUME NEW day \in Int, NEW m \in Nat, m < Minutes, NEW duration \in Nat, NEW P, P \subseteq Periods
  PROVE  /\ FitsSchedule(At(day, m), duration, P)
              <=> \E p \in P : m >= p.start /\ m + duration <= p.end
         /\ FitsSchedule(At(day, m), duration, P) => m + duration < Minutes
         /\ At(day, m) \div Minutes = day /\ At(day, m) % Minutes = m
<1>1. At(day, m) \div Minutes = day /\ At(day, m) % Minutes = m
  BY DEF At, Minutes
<1>2. /\ m + duration < Minutes => /\ (At(day, m) + duration) \div Minutes = day
                                   /\ (At(day, m) + duration) % Minutes = m + duration
      /\ ~(m + duration < Minutes) => (At(day, m) + duration) \div Minutes # day
  BY DEF At, Minutes
<1>3. \A p \in P : m + duration <= p.end => m + duration < Minutes
  <2>1. \A p \in P : p.end \in 0 .. Minutes - 1
    BY DEF Periods
  <2>2. \A x \in 0 .. Minutes - 1 : m + duration <= x => m + duration < Minutes
    BY DEF Minutes
  <2> QED BY <2>1, <2>2
<1> QED
  BY <1>1, <1>2, <1>3 DEF FitsSchedule

\* An appointment of the day that overlaps a visit.
Overlap(b, day, start, duration) ==
    \E a \in booked : /\ a.barber = b /\ a.start \div Minutes = day
                      /\ start < a.start + a.duration
                      /\ start + duration > a.start

\* An appointment of another day is over before it, or begins after it.
LEMMA OtherDaysApart ==
  ASSUME NEW s \in Int, NEW l \in Nat, (s + l) \div Minutes = s \div Minutes,
         NEW day \in Int, NEW m \in Nat, NEW duration \in Nat, m + duration < Minutes,
         At(day, m) < s + l, At(day, m) + duration > s
  PROVE  s \div Minutes = day
  BY DEF At, Minutes

\* The page and the server look for the same conflicts: the durations are stored, and no
\* appointment crosses midnight.
LEMMA ConflictsAlike ==
  ASSUME booked \subseteq Visits, TermsAreStored, NEW day \in Int,
         day <= currentPublicBookingWindow(Today).maxDate,
         NEW b \in shop.team, NEW barber, barber \in {AnyBarber, b},
         NEW taken, taken = PublicAppointments(barber, day, day),
         NEW m \in Nat, NEW duration \in Nat, m + duration < Minutes, NEW start, start = At(day, m)
  PROVE  /\ hasAppointmentIntervalConflict(taken, b, start, duration) <=> Overlap(b, day, start, duration)
         /\ hasAppointmentConflict({a \in booked : a.start \div Minutes = day}, b, start, duration,
                                   OfferedDurations)
              <=> Overlap(b, day, start, duration)
         /\ StoredConflict(booked, b, start, duration) <=> Overlap(b, day, start, duration)
<1>1. \A a \in booked : \A durations : getEffectiveAppointmentDurationMinutes(a, durations) = a.duration
  BY DEF TermsAreStored, getEffectiveAppointmentDurationMinutes
<1>2. \A a \in booked : /\ a.start \in Int /\ a.duration \in Nat
                        /\ (a.start + a.duration) \div Minutes = a.start \div Minutes
  BY DEF Visits
<1>3. start \in Int
  BY DEF At, Minutes
<1>4. hasAppointmentIntervalConflict(taken, b, start, duration) <=> Overlap(b, day, start, duration)
  <2> DEFINE shown == {x \in booked : /\ x.barber \in shop.team
                                      /\ barber \in {AnyBarber, x.barber}
                                      /\ x.start \div Minutes \in day .. day
                                      /\ x.start \div Minutes <= currentPublicBookingWindow(Today).maxDate}
             Public(a) == [barber |-> a.barber, start |-> a.start, duration |-> a.duration]
  <2>1. taken = {Public(a) : a \in shown}
    BY <1>1 DEF PublicAppointments
  <2>2. \A a \in booked : a.barber = b => (a \in shown <=> a.start \div Minutes = day)
    <3>1. \A x : x \in day .. day <=> x = day
      OBVIOUS
    <3> QED BY <3>1
  <2>3. \A a : Public(a).barber = a.barber /\ Public(a).start = a.start /\ Public(a).duration = a.duration
    OBVIOUS
  <2>4. \A a \in shown : a \in booked
    OBVIOUS
  <2> HIDE DEF Public, shown
  <2>5. hasAppointmentIntervalConflict(taken, b, start, duration)
          <=> \E a \in shown : a.barber = b /\ start < a.start + a.duration /\ start + duration > a.start
    BY <2>1, <2>3 DEF hasAppointmentIntervalConflict
  <2> QED BY <2>2, <2>4, <2>5 DEF Overlap
<1>5. hasAppointmentConflict({a \in booked : a.start \div Minutes = day}, b, start, duration, OfferedDurations)
        <=> Overlap(b, day, start, duration)
  BY <1>1 DEF hasAppointmentConflict, Overlap
<1>6. StoredConflict(booked, b, start, duration) <=> Overlap(b, day, start, duration)
  BY <1>2, OtherDaysApart DEF StoredConflict, Overlap
<1> QED
  BY <1>4, <1>5, <1>6

\* A barber is chosen if one is suitable: of those who are, the least busy, and of these
\* the one with the least id.
LEMMA SomebodyIsChosen ==
  ASSUME IsFiniteSet(booked), NEW r
  PROVE  /\ \A c \in Chosen(r) : c \in Barbers /\ Suitable(c, r) /\ (r.barber # AnyBarber => c = r.barber)
         /\ (\E b \in Barbers : Suitable(b, r) /\ r.barber \in {AnyBarber, b}) => Chosen(r) # {}
<1> DEFINE free == {b \in Barbers : Suitable(b, r)}
           day == r.start \div Minutes
<1>1. \A b : Workload(b, day) \in Nat
  <2> TAKE b
  <2>1. IsFiniteSet({a \in booked : a.barber = b /\ a.start \div Minutes = day})
    BY FS_Subset
  <2> QED BY <2>1, FS_CardinalityType DEF Workload
<1>2. ASSUME free # {}
      PROVE  \E b \in free : \A c \in free : \/ Workload(b, day) < Workload(c, day)
                                             \/ Workload(b, day) = Workload(c, day) /\ b <= c
  <2> DEFINE T == {Workload(b, day) : b \in free}
  <2>1. PICK w \in T : \A v \in T : w <= v
    <3>1. T \subseteq Nat /\ T # {}
      BY <1>1, <1>2
    <3> QED BY <3>1, LeastNumber
  <2> DEFINE U == {b \in free : Workload(b, day) = w}
  <2>2. PICK b \in U : \A c \in U : b <= c
    <3>1. U \subseteq Nat /\ U # {}
      BY <2>1, BookingAssumption
    <3> QED BY <3>1, LeastNumber
  <2>3. ASSUME NEW c \in free
        PROVE  \/ Workload(b, day) < Workload(c, day)
               \/ Workload(b, day) = Workload(c, day) /\ b <= c
    <3>1. w <= Workload(c, day) /\ Workload(b, day) = w
      BY <2>1, <2>2
    <3>2. Workload(c, day) = w => b <= c
      BY <2>2
    <3> QED BY <1>1, <3>1, <3>2
  <2> QED BY <2>2, <2>3
<1>3. Chosen(r) = IF r.barber # AnyBarber THEN free \cap {r.barber}
                  ELSE {b \in free : \A c \in free : \/ Workload(b, day) < Workload(c, day)
                                                     \/ Workload(b, day) = Workload(c, day) /\ b <= c}
  BY DEF Chosen
<1> QED
  BY <1>2, <1>3
\* Whether a barber could be given the service from minute m of a day.
CouldTake(b, service, day, m) ==
    /\ b \in shop.team /\ service \in shop.performs[b]
    /\ \E p \in getBarberWorkingPeriods(b, Weekday(day), shop.hours) :
          m >= p.start /\ m + shop.offers[service].duration <= p.end
    /\ ~Overlap(b, day, At(day, m), shop.offers[service].duration)

\* What is stored has its type.
Stored == /\ shop \in Settings /\ booked \subseteq Visits /\ IsFiniteSet(booked)
          /\ now \in Clock

LEMMA WeekdayOf == \A day \in Int : Weekday(day) \in 0 .. 6
  BY DEF Weekday

\* The periods of a barber of the shop.
LEMMA WorkingPeriods ==
  ASSUME Stored, NEW b \in Barbers, NEW day \in Int, NEW hours, hours = Answer("hours")
  PROVE  /\ getEffectivePeriodsForBarber(Weekday(day), hours.shop, hours.barber[b])
              = getBarberWorkingPeriods(b, Weekday(day), shop.hours)
         /\ getBarberWorkingPeriods(b, Weekday(day), shop.hours) \subseteq Periods
<1>1. Weekday(day) \in 0 .. 6
  BY WeekdayOf
<1> QED
  BY <1>1, PeriodsAgree, HoursArePeriods DEF Stored

LEMMA PeriodBounds == \A p \in Periods : p.start \in Nat /\ p.end \in Nat /\ p.end < Minutes
<1>1. \A p \in Periods : p.start \in 0 .. Minutes - 1 /\ p.end \in 0 .. Minutes - 1
  BY DEF Periods
<1>2. \A x \in 0 .. Minutes - 1 : x \in Nat /\ x < Minutes
  BY DEF Minutes
<1> QED
  BY <1>1, <1>2

\* The team that the page is told.
LEMMA TheTeam ==
  /\ \A x \in Answer("barbers") : /\ x.id \in shop.team
                                 /\ x.services = shop.performs[x.id] \cap Offered
  /\ \A b \in shop.team : \E x \in Answer("barbers") : x.id = b
<1> DEFINE Member(b) == [id |-> b, services |-> shop.performs[b] \cap Offered]
<1>1. Answer("barbers") = {Member(b) : b \in shop.team}
  BY DEF Answer
<1>2. \A b : Member(b).id = b /\ Member(b).services = shop.performs[b] \cap Offered
  OBVIOUS
<1> HIDE DEF Member
<1> QED
  BY <1>1, <1>2

\* The page's times of one service, at the instant it computes them.
LEMMA TimesOfAService ==
  ASSUME Stored, TermsAreStored, NEW service \in Offered, NEW day \in Int,
         day <= currentPublicBookingWindow(Today).maxDate, NEW barber, NEW m,
         NEW taken, taken = PublicAppointments(barber, day, day),
         NEW s, s.id = service, s.duration = shop.offers[service].duration, NEW at
  PROVE  m \in getAvailableTimeSlots(s, day, barber, Answer("barbers"), Answer("hours"), taken, at)
           <=> /\ m \in Nat /\ isClockTimeAligned(m)
               /\ ~(day = at \div Minutes /\ At(day, m) <= at)
               /\ \E b \in Barbers : barber \in {AnyBarber, b} /\ CouldTake(b, service, day, m)
<1> DEFINE team == Answer("barbers")
           hours == Answer("hours")
           duration == shop.offers[service].duration
           eligible == {b \in team : (barber = AnyBarber \/ b.id = barber) /\ s.id \in b.services}
           periods(b) == getEffectivePeriodsForBarber(Weekday(day), hours.shop, hours.barber[b.id])
           fits(b) == \E p \in periods(b) : m >= p.start /\ m + duration <= p.end
           free(b) == ~hasAppointmentIntervalConflict(taken, b.id, At(day, m), duration)
           past == day = at \div Minutes /\ At(day, m) <= at
<1>1. duration \in Nat
  BY DEF Stored, Settings, Offered
<1>2. /\ \A b \in team : b.id \in shop.team /\ b.services = shop.performs[b.id] \cap Offered
      /\ \A b \in shop.team : \E x \in team : x.id = b
  BY TheTeam
<1>3. \A b : b \in eligible <=> /\ b \in team /\ barber \in {AnyBarber, b.id}
                               /\ service \in shop.performs[b.id]
  BY <1>2
<1>4. shop.team \subseteq Barbers
  BY DEF Stored, Settings
<1>5. \A b \in team : /\ periods(b) = getBarberWorkingPeriods(b.id, Weekday(day), shop.hours)
                      /\ periods(b) \subseteq Periods
  BY <1>2, <1>4, WorkingPeriods
<1> DEFINE starts(b) == UNION {StartsIn(p, s.duration) : p \in periods(b)}
<1>6. m \in getAvailableTimeSlots(s, day, barber, team, hours, taken, at)
        <=> /\ \E b \in eligible : m \in starts(b)
            /\ ~past /\ \E b \in eligible : fits(b) /\ free(b)
  <2>1. getAvailableTimeSlots(s, day, barber, team, hours, taken, at)
          = {x \in UNION {UNION {StartsIn(p, s.duration) : p \in periods(b)} : b \in eligible} :
                /\ ~(day = at \div Minutes /\ At(day, x) <= at)
                /\ \E b \in eligible :
                      /\ \E p \in periods(b) : x >= p.start /\ x + s.duration <= p.end
                      /\ ~hasAppointmentIntervalConflict(taken, b.id, At(day, x), s.duration)}
    BY DEF getAvailableTimeSlots
  <2> QED BY <2>1
<1> HIDE DEF team, eligible, periods, duration
<1>7. \A b \in eligible : m \in starts(b) <=> m \in Nat /\ isClockTimeAligned(m) /\ fits(b)
  <2> TAKE b \in eligible
  <2>1. \A p \in periods(b) : m \in StartsIn(p, duration)
          <=> m \in Nat /\ isClockTimeAligned(m) /\ m >= p.start /\ m + duration <= p.end
    BY <1>1, <1>3, <1>5, StartsFit
  <2>2. s.duration = duration
    BY DEF duration
  <2> QED BY <2>1, <2>2
<1>8. ASSUME NEW b \in eligible, m \in Nat, fits(b)
      PROVE  free(b) <=> ~Overlap(b.id, day, At(day, m), duration)
  <2>1. m + duration < Minutes
    <3>1. PICK p \in periods(b) : m + duration <= p.end
      BY <1>8
    <3>2. \A x \in Nat : m + duration <= x /\ x < Minutes => m + duration < Minutes
      BY <1>1, <1>8 DEF Minutes
    <3> QED BY <1>3, <1>5, <3>1, <3>2, PeriodBounds
  <2>2. b.id \in shop.team /\ barber \in {AnyBarber, b.id}
    BY <1>2, <1>3
  <2> QED BY <1>1, <1>8, <2>1, <2>2, ConflictsAlike DEF Stored
<1> HIDE DEF starts
<1>9. \A b \in eligible : m \in Nat => (fits(b) /\ free(b) <=> CouldTake(b.id, service, day, m))
  <2> TAKE b \in eligible
  <2> HAVE m \in Nat
  <2>1. b.id \in shop.team /\ service \in shop.performs[b.id]
    BY <1>2, <1>3
  <2>2. fits(b) <=> \E p \in getBarberWorkingPeriods(b.id, Weekday(day), shop.hours) :
                       m >= p.start /\ m + duration <= p.end
    BY <1>3, <1>5
  <2> QED BY <1>8, <2>1, <2>2 DEF CouldTake, duration
<1> HIDE DEF fits, free
<1>10. m \in Nat =>
         ((\E b \in eligible : fits(b) /\ free(b))
            <=> \E b \in Barbers : barber \in {AnyBarber, b} /\ CouldTake(b, service, day, m))
  <2> HAVE m \in Nat
  <2>1. ASSUME NEW b \in eligible, fits(b), free(b)
        PROVE  b.id \in Barbers /\ barber \in {AnyBarber, b.id} /\ CouldTake(b.id, service, day, m)
    BY <1>2, <1>3, <1>4, <1>9, <2>1
  <2>2. ASSUME NEW b \in Barbers, barber \in {AnyBarber, b}, CouldTake(b, service, day, m)
        PROVE  \E x \in eligible : fits(x) /\ free(x)
    <3>1. PICK x \in team : x.id = b
      BY <1>2, <2>2 DEF CouldTake
    <3>2. x \in eligible
      BY <1>3, <2>2, <3>1 DEF CouldTake
    <3> QED BY <1>9, <2>2, <3>1, <3>2
  <2> QED BY <2>1, <2>2
<1>11. past <=> day = at \div Minutes /\ At(day, m) <= at
  OBVIOUS
<1> HIDE DEF past
<1>12. (\E b \in eligible : m \in starts(b)) /\ (\E b \in eligible : fits(b) /\ free(b))
         <=> /\ m \in Nat /\ isClockTimeAligned(m)
             /\ \E b \in eligible : fits(b) /\ free(b)
  BY <1>7
<1> QED
  BY <1>6, <1>10, <1>11, <1>12 DEF team
\* The services of the page that have the chosen id.
LEMMA TheService ==
  ASSUME Stored, NEW p, p.data = page.data, NEW service, NEW x,
         Loaded(p, "barbers"), Loaded(p, "services"),
         p.data["barbers"] = Answer("barbers"), p.data["services"] = Answer("services")
  PROVE  /\ x \in availableServices(p) /\ x.id = service
              => service \in Offered /\ x.duration = shop.offers[service].duration
         /\ service \in Offered /\ (\E b \in Barbers : /\ p.barber \in {AnyBarber, b} /\ b \in shop.team
                                                       /\ service \in shop.performs[b])
              => \E y \in availableServices(p) : y.id = service
<1> DEFINE team == visibleBarbers(p)
           selected == {b \in team : b.id = p.barber}
           Offer(s) == [id |-> s, duration |-> shop.offers[s].duration]
           offers == {Offer(s) : s \in Offered}
           performs(s) == IF p.barber \in Barbers THEN \A b \in selected : s.id \in b.services
                          ELSE \E b \in team : s.id \in b.services
<1>1. /\ \A z \in team : z.id \in shop.team /\ z.services = shop.performs[z.id] \cap Offered
      /\ \A b \in shop.team : \E z \in team : z.id = b
  BY TheTeam DEF visibleBarbers
<1>2. availableServices(p) = {s \in offers : performs(s)}
  BY DEF availableServices, Answer
<1>3. x \in offers /\ x.id = service => service \in Offered /\ x.duration = shop.offers[service].duration
  OBVIOUS
<1>4. ASSUME service \in Offered, NEW b \in Barbers, p.barber \in {AnyBarber, b}, b \in shop.team,
             service \in shop.performs[b]
      PROVE  \E y \in offers : y.id = service /\ performs(y)
  <2>1. PICK y \in offers : y.id = service
    <3>1. Offer(service) \in offers /\ Offer(service).id = service
      BY <1>4
    <3> QED BY <3>1
  <2>2. CASE p.barber = b
    <3>1. p.barber \in Barbers
      BY <1>4, <2>2
    <3>2. \A z \in selected : service \in z.services
      BY <1>1, <1>4, <2>2
    <3> QED BY <2>1, <3>1, <3>2
  <2>3. CASE p.barber = AnyBarber
    <3>1. p.barber \notin Barbers
      BY <2>3, BookingAssumption DEF AnyBarber
    <3>2. \E z \in team : service \in z.services
      BY <1>1, <1>4
    <3> QED BY <2>1, <3>1, <3>2
  <2> QED BY <1>4, <2>2, <2>3
<1> HIDE DEF offers, performs
<1> QED
  BY <1>2, <1>3, <1>4

\* What a page that is up to date offers.
LEMMA TimesOffered ==
  ASSUME Stored, UpToDate, TermsAreStored, page.barber # None, page.date \in Int,
         page.date <= currentPublicBookingWindow(Today).maxDate, NEW m
  PROVE  m \in timeSlots(page)
           <=> /\ m \in Nat /\ isClockTimeAligned(m)
               /\ ~(page.date = page.slotsAt \div Minutes /\ At(page.date, m) <= page.slotsAt)
               /\ page.service \in Offered
               /\ \E b \in Barbers : /\ page.barber \in {AnyBarber, b}
                                     /\ CouldTake(b, page.service, page.date, m)
<1> DEFINE taken == existingAppointments(page)
           times(s) == getAvailableTimeSlots(s, page.date, page.barber, Answer("barbers"), Answer("hours"),
                                             taken, page.slotsAt)
           chosen == {x \in availableServices(page) : x.id = page.service}
<1>1. /\ \A q \in {"barbers", "services", "hours", "config"} : Loaded(page, q) /\ page.data[q] = Answer(q)
      /\ page.date # None /\ taken # None
      /\ taken = PublicAppointments(page.barber, page.date, page.date)
  BY DEF UpToDate, Queries
<1>2. visibleBarbers(page) = Answer("barbers") /\ knownHours(page) = Answer("hours")
  BY <1>1 DEF visibleBarbers, knownHours
<1>3. timeSlots(page) = UNION {times(s) : s \in chosen}
  BY <1>1, <1>2 DEF timeSlots, SlotsOf
<1>4. m \in timeSlots(page) <=> \E s \in chosen : m \in times(s)
  BY <1>3
<1>5. \A s \in chosen : page.service \in Offered /\ s.duration = shop.offers[page.service].duration
  BY <1>1, TheService
<1>6. page.service \in Offered /\ (\E b \in Barbers : /\ page.barber \in {AnyBarber, b}
                                                      /\ CouldTake(b, page.service, page.date, m))
        => \E s \in chosen : TRUE
  BY <1>1, TheService DEF CouldTake
<1>7. ASSUME NEW s \in chosen
      PROVE  m \in times(s)
               <=> /\ m \in Nat /\ isClockTimeAligned(m)
                   /\ ~(page.date = page.slotsAt \div Minutes /\ At(page.date, m) <= page.slotsAt)
                   /\ \E b \in Barbers : /\ page.barber \in {AnyBarber, b}
                                         /\ CouldTake(b, page.service, page.date, m)
  BY <1>1, <1>5, TimesOfAService
<1> QED
  BY <1>4, <1>5, <1>6, <1>7

\* What the server books.
LEMMA TimesAccepted ==
  ASSUME Stored, TermsAreStored, NEW service, NEW barber, NEW day \in Int, NEW m \in Nat, m < Minutes,
         NEW w, w = currentPublicBookingWindow(Today), w.today = Today, w.maxDate \in Int,
         day \in Today .. w.maxDate, NEW r, r = [barber |-> barber, service |-> service, start |-> At(day, m)]
  PROVE  Bookings(r) # {}
           <=> /\ isClockTimeAligned(m) /\ At(day, m) >= now /\ service \in Offered
               /\ \E b \in Barbers : barber \in {AnyBarber, b} /\ CouldTake(b, service, day, m)
<1> DEFINE duration == shop.offers[service].duration
           start == At(day, m)
<1>1. start \div Minutes = day /\ start % Minutes = m
  BY FitsAlike
<1>2. Admissible(r) <=> isClockTimeAligned(m) /\ start >= now /\ service \in Offered
  <2>1. isDateWithinPublicBookingWindow(day, w)
    BY DEF isDateWithinPublicBookingWindow
  <2> QED BY <1>1, <2>1, Zenon DEF Admissible
<1>3. \A d : d \in Offered => shop.offers[d].duration \in Nat
  BY DEF Stored, Settings, Offered
<1>4. ASSUME service \in Offered, NEW b \in Barbers, barber \in {AnyBarber, b}
      PROVE  /\ Suitable(b, r) <=> CouldTake(b, service, day, m)
             /\ Suitable(b, r) => ~StoredConflict(booked, b, start, duration)
  <2> DEFINE P == getBarberWorkingPeriods(b, Weekday(day), shop.hours)
             fits == \E p \in P : m >= p.start /\ m + duration <= p.end
             busy == hasAppointmentConflict({a \in booked : a.start \div Minutes = day}, b, start, duration,
                                            OfferedDurations)
  <2>1. duration \in Nat
    BY <1>3, <1>4
  <2>2. P \subseteq Periods
    BY WorkingPeriods
  <2>3. /\ FitsSchedule(start, duration, P) <=> fits
        /\ FitsSchedule(start, duration, P) => m + duration < Minutes
    BY <2>1, <2>2, FitsAlike
  <2>4. Suitable(b, r) <=> /\ b \in shop.team /\ service \in shop.performs[b]
                           /\ FitsSchedule(start, duration, P) /\ ~busy
    BY <1>1 DEF Suitable
  <2>5. b \in shop.team /\ m + duration < Minutes
          => /\ busy <=> Overlap(b, day, start, duration)
             /\ StoredConflict(booked, b, start, duration) <=> Overlap(b, day, start, duration)
    <3>1. day <= currentPublicBookingWindow(Today).maxDate
      OBVIOUS
    <3> QED BY <1>4, <2>1, <3>1, ConflictsAlike DEF Stored
  <2>6. CouldTake(b, service, day, m) <=> /\ b \in shop.team /\ service \in shop.performs[b]
                                          /\ fits /\ ~Overlap(b, day, start, duration)
    BY DEF CouldTake
  <2> HIDE DEF P, fits, busy
  <2> QED BY <2>3, <2>4, <2>5, <2>6
<1>5. Bookings(r) # {} <=> Admissible(r) /\ \E c \in Chosen(r) : ~StoredConflict(booked, c, start, duration)
  BY DEF Bookings
<1>6. r.barber = barber
  OBVIOUS
<1> HIDE DEF start, duration
<1>7. ASSUME service \in Offered
      PROVE  (\E c \in Chosen(r) : ~StoredConflict(booked, c, start, duration))
               <=> \E b \in Barbers : barber \in {AnyBarber, b} /\ CouldTake(b, service, day, m)
  <2>1. ASSUME NEW c \in Chosen(r)
        PROVE  /\ c \in Barbers /\ barber \in {AnyBarber, c} /\ CouldTake(c, service, day, m)
               /\ ~StoredConflict(booked, c, start, duration)
    <3>1. c \in Barbers /\ Suitable(c, r) /\ barber \in {AnyBarber, c}
      BY <1>6, SomebodyIsChosen DEF Stored
    <3> QED BY <1>4, <1>7, <3>1
  <2>2. ASSUME NEW b \in Barbers, barber \in {AnyBarber, b}, CouldTake(b, service, day, m)
        PROVE  Chosen(r) # {}
    BY <1>4, <1>6, <1>7, <2>2, SomebodyIsChosen DEF Stored
  <2> QED BY <2>1, <2>2
<1> QED
  BY <1>2, <1>5, <1>7 DEF start
-----------------------------------------------------------------------------
\* What the page knows has its type, and its date is one it may offer.

LEMMA WindowOfADay ==
  ASSUME NEW t \in Int, MonthStarts[1] <= t, t < MonthStarts[Len(MonthStarts) - 2],
         NEW w, w = currentPublicBookingWindow(t)
  PROVE  w.today = t /\ w.maxDate \in Int /\ t <= w.maxDate
<1>1. CASE MonthlyWindow
  <2>1. w = WindowOfMonths(t)
    BY <1>1 DEF currentPublicBookingWindow, getPublicBookingWindow, EndOfMonth, Shown, WindowOfMonths
  <2> DEFINE c == MonthOf(t)
             m == Shown(t)
  <2>2. /\ c \in Months /\ m \in Months /\ c = MonthOf(t) /\ m = Shown(t)
        /\ m = c \/ m = c + 1
        /\ c + 1 \in Months /\ m + 1 \in Months
        /\ MonthStarts[c] <= t /\ t < MonthStarts[c + 1]
    BY MonthsAround, BookingAssumption
  <2>3. w.today = t /\ w.maxDate = MonthStarts[m + 1] - 1
    BY <2>1 DEF WindowOfMonths
  <2> HIDE DEF c, m
  <2> DEFINE lo == MonthStarts[m]
             hi == MonthStarts[m + 1]
  <2>4. /\ lo \in Int /\ hi \in Int /\ lo + OpenDay <= hi /\ t < lo + OpenDay
    BY <2>2, DaysOnDisplay
  <2>5. w.today = t /\ w.maxDate = hi - 1
    BY <2>3
  <2>6. OpenDay \in Int
    BY MonthsInOrder
  <2> HIDE DEF lo, hi
  <2> QED BY <2>4, <2>5, <2>6
<1>2. CASE ~MonthlyWindow
  <2>1. w.today = t /\ w.maxDate = t + HorizonDays
    BY <1>2 DEF currentPublicBookingWindow, getPublicBookingWindow, getOpenPublicBookingWindow
  <2>2. HorizonDays \in Nat
    BY BookingAssumption
  <2> QED BY <2>1, <2>2
<1> QED
  BY <1>1, <1>2

LEMMA WindowToday ==
  ASSUME now \in Clock, NEW w, w = currentPublicBookingWindow(Today)
  PROVE  w.today = Today /\ w.maxDate \in Int /\ Today <= w.maxDate /\ Today \in Int
<1>1. /\ Today \in Int /\ MonthStarts[1] <= Today /\ Today < MonthStarts[Len(MonthStarts) - 2]
  BY BookingAssumption DEF Today, Minutes
<1> QED
  BY <1>1, WindowOfADay

\* What a page has been told, and what it makes of it.
Known(p) ==
    /\ p.time \in Int \cup {None} /\ p.date \in Int \cup {None}
    /\ p.sent # None => p.sent.start \in Int
    /\ DOMAIN p.data = Queries
    /\ Loaded(p, "barbers") => \A b \in p.data["barbers"] : b.id \in Barbers
    /\ Loaded(p, "hours") => p.data["hours"] \in StoredHours
    /\ Loaded(p, "window") => /\ p.data["window"].today \in Int /\ p.data["window"].maxDate \in Int
                              /\ p.data["window"].today <= p.data["window"].maxDate

Dated(p) == Loaded(p, "window") /\ p.date # None => isPublicDateAllowed(p, p.date)

\* What the server answers has the types.
LEMMA AnswersAreKnown ==
  ASSUME Stored
  PROVE  /\ \A b \in Answer("barbers") : b.id \in Barbers
         /\ Answer("hours") \in StoredHours
         /\ Answer("window").today \in Int /\ Answer("window").maxDate \in Int
         /\ Answer("window").today <= Answer("window").maxDate
<1>1. \A b \in Answer("barbers") : b.id \in Barbers
  BY TheTeam DEF Stored, Settings
<1>2. Answer("hours") \in StoredHours
  <2>1. /\ shop.hours \in StoredHours
        /\ Answer("hours") = [shop.hours EXCEPT !.shop = IF @ = {} THEN getDefaultShopAvailabilityRows ELSE @]
    BY DEF Stored, Settings, Answer
  <2> QED BY <2>1, DefaultRowsAreRows DEF StoredHours
<1>3. Answer("window") = currentPublicBookingWindow(Today)
  BY DEF Answer
<1> QED
  BY <1>1, <1>2, <1>3, WindowToday DEF Stored

\* Of days there is a first one.
LEMMA LeastDay ==
  ASSUME NEW from \in Int, NEW to \in Int, NEW T, T \subseteq from .. to, T # {}
  PROVE  Min(T) \in T
<1> DEFINE U == {d - from : d \in T}
<1>1. \A d \in T : d \in Int /\ d - from \in Nat
  OBVIOUS
<1>2. U \subseteq Nat /\ U # {}
  BY <1>1
<1>3. PICK u \in U : \A v \in U : u <= v
  BY <1>2, LeastNumber
<1>4. PICK d \in T : u = d - from
  OBVIOUS
<1>5. \A e \in T : d <= e
  <2> TAKE e \in T
  <2>1. d - from <= e - from
    BY <1>3, <1>4
  <2> QED BY <1>1, <2>1
<1> QED
  BY <1>4, <1>5 DEF Min

\* The first date with a time is one of the window.
LEMMA FirstDateIsADay ==
  ASSUME NEW p, Known(p), FirstDateKnown(p)
  PROVE  /\ Loaded(p, "window")
         /\ firstAvailableDate(p) \in {None} \cup p.data["window"].today .. p.data["window"].maxDate
<1> DEFINE from == p.data["window"].today
           to == p.data["window"].maxDate
<1>1. Loaded(p, "window") /\ from \in Int /\ to \in Int
  BY DEF FirstDateKnown, Known
<1> HIDE DEF from, to
<1>2. \A T : T \subseteq from .. to /\ T # {} => Min(T) \in T
  BY <1>1, LeastDay
<1>3. \A slots : DOMAIN slots = from .. to => findFirstAvailableDate(slots, None) \in {None} \cup from .. to
  <2> TAKE slots
  <2> HAVE DOMAIN slots = from .. to
  <2> DEFINE free == {d \in DOMAIN slots : slots[d] # {}}
  <2>1. free \subseteq from .. to
    OBVIOUS
  <2>2. findFirstAvailableDate(slots, None) = IF free = {} THEN None ELSE Min(free)
    BY DEF findFirstAvailableDate
  <2> HIDE DEF free
  <2> QED BY <1>2, <2>1, <2>2
<1>4. firstAvailableDate(p)
        = findFirstAvailableDate([day \in from .. to |-> SlotsOf(p, day, Result(p, WindowQuery(p)), p.firstAt)], None)
  BY DEF firstAvailableDate, from, to
<1> QED
  BY <1>1, <1>3, <1>4 DEF from, to

\* One round of the effects leaves no date outside the window.
LEMMA EffectsKnow ==
  ASSUME NEW p, IsPage(p), Known(p)
  PROVE  IsPage(Effects(p)) /\ Known(Effects(p)) /\ Dated(Effects(p))
<1> DEFINE q == Effects(p)
<1>1. /\ IsPage(q) /\ q.data = p.data /\ q.sent = p.sent /\ q.time \in {None, p.time}
      /\ q.date = IF InitialSelection(p)
                  THEN IF initialAvailabilityHasError(p) THEN None ELSE firstAvailableDate(p)
                  ELSE IF DateClosed(p) THEN p.data["window"].today ELSE p.date
  BY EffectsSet
<1> HIDE DEF q
<1>2. CASE InitialSelection(p)
  <2>1. q.date # None => FirstDateKnown(p) /\ q.date = firstAvailableDate(p)
    BY <1>1, <1>2 DEF InitialSelection
  <2>2. q.date # None => /\ Loaded(p, "window")
                         /\ q.date \in p.data["window"].today .. p.data["window"].maxDate
    BY <2>1, FirstDateIsADay
  <2> QED BY <1>1, <2>2 DEF Known, Dated, Loaded, isPublicDateAllowed, isDateWithinPublicBookingWindow, q
<1>3. CASE ~InitialSelection(p) /\ DateClosed(p)
  BY <1>1, <1>3 DEF Known, Dated, Loaded, isPublicDateAllowed, isDateWithinPublicBookingWindow, DateClosed, q
<1>4. CASE ~InitialSelection(p) /\ ~DateClosed(p)
  BY <1>1, <1>4 DEF Known, Dated, Loaded, isPublicDateAllowed, isDateWithinPublicBookingWindow, DateClosed, q
<1> QED
  BY <1>2, <1>3, <1>4

\* So do the renderings, until the page settles.
LEMMA SettledKnows ==
  ASSUME NEW old, NEW p, IsPage(p), Known(p), NEW q, Settles(old, p, q)
  PROVE  Known(q) /\ Dated(q)
<1>1. \A o, x : IsPage(x) => /\ IsPage(Rendered(o, x))
                            /\ (Known(x) => Known(Rendered(o, x)))
                            /\ (Dated(x) => Dated(Rendered(o, x)))
  <2> TAKE o, x
  <2> HAVE IsPage(x)
  <2> DEFINE y == Rendered(o, x)
  <2>1. y = Rendered(o, x)
    OBVIOUS
  <2> HIDE DEF y
  <2>2. IsPage(y) /\ y.time = x.time /\ y.date = x.date /\ y.sent = x.sent /\ y.data = x.data
    BY <2>1, RenderedSets DEF Fields
  <2>3. (Known(x) => Known(y)) /\ (Dated(x) => Dated(y))
    BY <2>2 DEF Known, Dated, Loaded, isPublicDateAllowed, isDateWithinPublicBookingWindow
  <2> QED BY <2>2, <2>3 DEF y
<1>2. PICK first, second : /\ first = Rendered(old, p)
                           /\ second = Rendered(first, Effects(first))
                           /\ q = Rendered(second, Effects(second))
  BY RunsOfEffects
<1>3. IsPage(first) /\ Known(first)
  BY <1>1, <1>2
<1>4. IsPage(second) /\ Known(second)
  BY <1>1, <1>2, <1>3, EffectsKnow
<1>5. IsPage(Effects(second)) /\ Known(Effects(second)) /\ Dated(Effects(second))
  BY <1>4, EffectsKnow
<1> QED
  BY <1>1, <1>2, <1>5

\* Also after a step.
LEMMA RenderKnows ==
  ASSUME NEW p, IsPage(p), Known(p), Render(p)
  PROVE  Known(page') /\ Dated(page')
  BY SettledKnows DEF Render

\* A time the page offers is a number.
LEMMA TimesAreNumbers ==
  ASSUME NEW p, Known(p), NEW t \in timeSlots(p)
  PROVE  t \in Int
<1>1. p.date \in Int
  BY DEF timeSlots, Known
<1>2. knownHours(p) \in StoredHours /\ \A b \in visibleBarbers(p) : b.id \in Barbers
  <2>1. [shop |-> {}, barber |-> [b \in Barbers |-> {}]] \in StoredHours
    BY DEF StoredHours
  <2> QED BY <2>1 DEF knownHours, visibleBarbers, Known
<1>3. PICK s : t \in getAvailableTimeSlots(s, p.date, p.barber, visibleBarbers(p), knownHours(p),
                                           existingAppointments(p), p.slotsAt)
  <2>1. t \in SlotsOf(p, p.date, existingAppointments(p), p.slotsAt)
    BY DEF timeSlots
  <2> QED BY <2>1 DEF SlotsOf
<1> DEFINE periods(b) == getEffectivePeriodsForBarber(Weekday(p.date), knownHours(p).shop,
                                                      knownHours(p).barber[b.id])
<1>4. PICK b \in visibleBarbers(p) : \E r \in periods(b) : t \in StartsIn(r, s.duration)
  BY <1>3 DEF getAvailableTimeSlots
<1>5. \E r \in Periods : t \in StartsIn(r, s.duration)
  <2>1. periods(b) \subseteq Periods
    BY <1>1, <1>2, WeekdayOf, HoursArePeriods
  <2> QED BY <1>4, <2>1
<1> HIDE DEF periods
<1> QED
  BY <1>5, StartsAreNumbers

\* What the server books is an appointment of one day.
LEMMA BookingsAreVisits ==
  ASSUME Stored, NEW r, r.start \in Int, NEW a \in Bookings(r)
  PROVE  a \in Visits
<1>1. Admissible(r) /\ \E c \in Chosen(r) :
        a = [barber |-> c, start |-> r.start, duration |-> shop.offers[r.service].duration,
             service |-> r.service, terms |-> TRUE]
  BY DEF Bookings
<1>2. PICK c \in Chosen(r) :
        a = [barber |-> c, start |-> r.start, duration |-> shop.offers[r.service].duration,
             service |-> r.service, terms |-> TRUE]
  BY <1>1
<1>3. c \in Barbers /\ Suitable(c, r)
  BY SomebodyIsChosen DEF Stored
<1>4. r.service \in Services /\ shop.offers[r.service].duration \in Nat
  BY <1>1 DEF Admissible, Offered, Stored, Settings
<1>5. (r.start + shop.offers[r.service].duration) \div Minutes = r.start \div Minutes
  BY <1>3 DEF Suitable, FitsSchedule
<1> QED
  BY <1>2, <1>3, <1>4, <1>5 DEF Visits

\* An update of one field that leaves what the page knows.
LEMMA FieldIsKnown ==
  ASSUME IsPage(page), Known(page), NEW f \in {"step", "barber", "service", "times", "stale"},
         NEW v, NEW q, q = [page EXCEPT ![f] = v]
  PROVE  IsPage(q) /\ Known(q)
<1>1. /\ IsPage(q) /\ q.time = page.time /\ q.date = page.date /\ q.sent = page.sent
      /\ q.data = page.data
  BY DEF IsPage, Fields
<1> QED
  BY <1>1 DEF Known, Loaded

\* Every click leaves the page with what it knows.
LEMMA CustomerKnows ==
  ASSUME IsPage(page), Known(page), Customer
  PROVE  Known(page') /\ Dated(page')
<1>1. CASE SelectBarber
  <2>1. PICK b : Render([page EXCEPT !.barber = b])
    BY <1>1 DEF SelectBarber
  <2> QED BY <2>1, FieldIsKnown, RenderKnows
<1>2. CASE SelectService
  <2>1. PICK s : Render([page EXCEPT !.service = s.id])
    BY <1>2 DEF SelectService
  <2> QED BY <2>1, FieldIsKnown, RenderKnows
<1>3. CASE handleNext
  <2>1. Render([page EXCEPT !.step = page.step + 1])
    BY <1>3 DEF handleNext, IsPage, Fields
  <2> QED BY <2>1, FieldIsKnown, RenderKnows
<1>4. CASE handleBack
  <2>1. Render([page EXCEPT !.step = page.step - 1])
    BY <1>4 DEF handleBack, IsPage, Fields
  <2> QED BY <2>1, FieldIsKnown, RenderKnows
<1>5. CASE SelectTime
  <2>1. PICK t \in ShownTimes(page) : Render([page EXCEPT !.time = IF page.time = t THEN None ELSE t])
    BY <1>5 DEF SelectTime, IsPage, Fields
  <2>2. t \in Int
    <3>1. t \in timeSlots(page)
      BY DEF ShownTimes
    <3> QED BY <3>1, TimesAreNumbers
  <2> DEFINE v == IF page.time = t THEN None ELSE t
             q == [page EXCEPT !.time = v]
  <2>3. v \in Int \cup {None} /\ Render(q)
    BY <2>1, <2>2
  <2> HIDE DEF v
  <2>4. IsPage(q) /\ q.time = v /\ \A g \in Fields \ {"time"} : q[g] = page[g]
    BY OneField DEF Fields
  <2> HIDE DEF q
  <2>5. q.date = page.date /\ q.sent = page.sent /\ q.data = page.data
    BY <2>4 DEF Fields
  <2>6. Known(q)
    BY <2>3, <2>4, <2>5 DEF Known, Loaded
  <2> QED BY <2>3, <2>4, <2>6, RenderKnows
<1>6. CASE SelectDate
  <2>1. PICK d \in page.data.window.today .. page.data.window.maxDate :
          Render([page EXCEPT !.date = IF page.date = d THEN None ELSE d, !.time = None])
    BY <1>6 DEF SelectDate, IsPage, Fields
  <2> DEFINE v == IF page.date = d THEN None ELSE d
             q1 == [page EXCEPT !.date = v]
             q == [q1 EXCEPT !.time = None]
  <2>2. v \in Int \cup {None} /\ Render(q)
    BY <2>1
  <2> HIDE DEF v
  <2>3. IsPage(q1) /\ q1.date = v /\ \A g \in Fields \ {"date"} : q1[g] = page[g]
    BY OneField DEF Fields
  <2> HIDE DEF q1
  <2>4. IsPage(q) /\ q.time = None /\ \A g \in Fields \ {"time"} : q[g] = q1[g]
    BY <2>3, OneField DEF Fields
  <2> HIDE DEF q
  <2>5. q.date = v /\ q.sent = page.sent /\ q.data = page.data
    BY <2>3, <2>4 DEF Fields
  <2>6. Known(q)
    BY <2>2, <2>4, <2>5 DEF Known, Loaded
  <2> QED BY <2>2, <2>4, <2>6, RenderKnows
<1>7. CASE handleSubmit
  <2> DEFINE v == [barber |-> page.barber, service |-> page.service, start |-> At(page.date, page.time)]
             q == [page EXCEPT !.sent = v]
  <2>1. Render(q) /\ page.date # None /\ page.time # None
    BY <1>7 DEF handleSubmit
  <2>2. page.date \in Int /\ page.time \in Int
    BY <2>1 DEF Known
  <2>3. \A x, y \in Int : At(x, y) \in Int
    BY DEF At, Minutes
  <2>4. v.start \in Int
    BY <2>2, <2>3
  <2> HIDE DEF v
  <2>5. IsPage(q) /\ q.sent = v /\ \A g \in Fields \ {"sent"} : q[g] = page[g]
    BY OneField DEF Fields
  <2> HIDE DEF q
  <2>6. q.date = page.date /\ q.time = page.time /\ q.data = page.data
    BY <2>5 DEF Fields
  <2>7. Known(q)
    BY <2>4, <2>5, <2>6 DEF Known, Loaded
  <2> QED BY <2>1, <2>5, <2>7, RenderKnows
<1> QED
  BY <1>1, <1>2, <1>3, <1>4, <1>5, <1>6, <1>7 DEF Customer
\* An answer is of the type the page expects.
LEMMA LoadKnows ==
  ASSUME IsPage(page), Known(page), NEW k \in Queries, NEW v, v \in {Failed, Answer(k)}, Stored,
         NEW q, q = [page EXCEPT !.data[k] = v]
  PROVE  IsPage(q) /\ Known(q)
<1> DEFINE d == [page.data EXCEPT ![k] = v]
<1>1. q = [page EXCEPT !.data = d]
  BY DEF IsPage, Fields
<1>2. DOMAIN d = Queries
  BY DEF Known
<1>3. /\ d[k] = v
      /\ \A j \in Queries \ {k} : d[j] = page.data[j]
  BY DEF Known
<1> HIDE DEF d
<1>4. IsPage(q) /\ q.data = d
  BY <1>1 DEF IsPage, Fields
<1>5. q.time = page.time /\ q.date = page.date /\ q.sent = page.sent
  BY <1>1 DEF IsPage, Fields
<1>6. \A j \in Queries : Loaded(q, j) => \/ d[j] = page.data[j] /\ Loaded(page, j)
                                         \/ d[j] = Answer(j)
  BY <1>3, <1>4 DEF Loaded
<1>7. {"barbers", "hours", "window"} \subseteq Queries
  BY DEF Queries
<1>8. /\ Loaded(q, "barbers") => \A b \in d["barbers"] : b.id \in Barbers
      /\ Loaded(q, "hours") => d["hours"] \in StoredHours
      /\ Loaded(q, "window") => /\ d["window"].today \in Int /\ d["window"].maxDate \in Int
                                /\ d["window"].today <= d["window"].maxDate
  BY <1>6, <1>7, AnswersAreKnown DEF Known
<1> QED
  BY <1>2, <1>4, <1>5, <1>8 DEF Known

\* Two fields that leave what the page knows.
LEMMA TimesAreKnown ==
  ASSUME IsPage(page), Known(page), NEW T, NEW S, NEW q, q = [page EXCEPT !.times = T, !.stale = S]
  PROVE  IsPage(q) /\ Known(q)
<1>1. /\ IsPage(q) /\ q.time = page.time /\ q.date = page.date /\ q.sent = page.sent /\ q.data = page.data
  BY DEF IsPage, Fields
<1> QED
  BY <1>1 DEF Known, Loaded

\* Every answer leaves the page with what it knows.
LEMMA NetworkKnows ==
  ASSUME IsPage(page), Known(page), Stored, Load \/ LoadTimes \/ Lose \/ Refuse \/ Accept
  PROVE  Known(page') /\ Dated(page')
<1>1. CASE Load
  <2>1. PICK k \in Queries : Render([page EXCEPT !.data[k] = Answer(k)])
    BY <1>1 DEF Load
  <2> QED BY <2>1, LoadKnows, RenderKnows
<1>2. CASE LoadTimes
  <2>1. PICK T, S : Render([page EXCEPT !.times = T, !.stale = S])
    <3>1. PICK k : Render([page EXCEPT !.times = Answered(k, PublicAppointments(k[2], k[3], k[4])),
                                       !.stale = page.stale \ {k}])
      BY <1>2 DEF LoadTimes, IsPage, Fields
    <3> QED BY <3>1
  <2> QED BY <2>1, TimesAreKnown, RenderKnows
<1>3. CASE Lose
  <2>1. CASE \E k \in Queries : Render([page EXCEPT !.data[k] = Failed])
    BY <2>1, LoadKnows, RenderKnows
  <2>2. CASE \E k \in Enabled(page) : Render([page EXCEPT !.times = Answered(k, Failed)])
    <3>1. PICK T : Render([page EXCEPT !.times = T])
      BY <2>2
    <3> QED BY <3>1, FieldIsKnown, RenderKnows
  <2> QED BY <1>3, <2>1, <2>2 DEF Lose
<1>4. CASE Refuse
  <2> DEFINE q == [page EXCEPT !.sent = None]
  <2>1. Render(q)
    BY <1>4 DEF Refuse
  <2>2. /\ IsPage(q) /\ q.time = page.time /\ q.date = page.date /\ q.sent = None /\ q.data = page.data
    BY DEF IsPage, Fields
  <2> HIDE DEF q
  <2>3. Known(q)
    BY <2>2 DEF Known, Loaded
  <2> QED BY <2>1, <2>2, <2>3, RenderKnows
<1>5. CASE Accept
  <2>1. PICK a : Render([page EXCEPT !.sent = None, !.kept = {a}, !.step = 5, !.stale = DOMAIN page.times])
    BY <1>5 DEF Accept
  <2> DEFINE q == [page EXCEPT !.sent = None, !.kept = {a}, !.step = 5, !.stale = DOMAIN page.times]
  <2>2. /\ IsPage(q) /\ q.time = page.time /\ q.date = page.date /\ q.sent = None /\ q.data = page.data
    BY DEF IsPage, Fields
  <2>3. Render(q)
    BY <2>1
  <2> HIDE DEF q
  <2>4. Known(q)
    BY <2>2 DEF Known, Loaded
  <2> QED BY <2>2, <2>3, <2>4, RenderKnows
<1> QED
  BY <1>1, <1>2, <1>3, <1>4, <1>5

LEMMA HoursAre ==
  \A rows \in SUBSET Rows, own \in [Barbers -> SUBSET Rows] : [shop |-> rows, barber |-> own] \in StoredHours
  BY DEF StoredHours

LEMMA SettingsAre ==
  \A hours \in StoredHours, team \in SUBSET Barbers, performs \in [Barbers -> SUBSET Services],
     offers \in [Services -> [active : BOOLEAN, duration : Nat]] :
        [hours |-> hours, team |-> team, performs |-> performs, offers |-> offers] \in Settings
  BY DEF Settings

\* The shop's settings and its appointments keep their types.
LEMMA ShopStaysStored ==
  ASSUME Stored, Configure
  PROVE  Stored'
<1> SUFFICES shop' \in Settings
  BY DEF Stored, Configure
<1>1. /\ Hours \subseteq SUBSET Rows /\ Skills \subseteq SUBSET Services /\ Durations \subseteq Nat
  BY BookingAssumption
<1>2. /\ shop = [hours |-> shop.hours, team |-> shop.team, performs |-> shop.performs,
                 offers |-> shop.offers]
      /\ shop.hours = [shop |-> shop.hours.shop, barber |-> shop.hours.barber]
      /\ shop.hours.shop \in SUBSET Rows /\ shop.hours.barber \in [Barbers -> SUBSET Rows]
      /\ shop.team \subseteq Barbers /\ shop.performs \in [Barbers -> SUBSET Services]
      /\ shop.offers \in [Services -> [active : BOOLEAN, duration : Nat]]
  BY DEF Stored, Settings, StoredHours
<1>3. CASE replaceShopAvailability
  <2>1. PICK rows \in SUBSET Rows : shop' = [shop EXCEPT !.hours.shop = rows]
    BY <1>1, <1>3 DEF replaceShopAvailability
  <2>2. shop' = [hours |-> [shop |-> rows, barber |-> shop.hours.barber], team |-> shop.team,
                 performs |-> shop.performs, offers |-> shop.offers]
    BY <1>2, <2>1
  <2> QED BY <1>2, <2>2, SettingsAre, HoursAre
<1>4. CASE replaceBarberAvailability
  <2>1. PICK b \in shop.team, rows \in SUBSET Rows : shop' = [shop EXCEPT !.hours.barber[b] = rows]
    BY <1>1, <1>4 DEF replaceBarberAvailability
  <2>2. shop' = [hours |-> [shop |-> shop.hours.shop, barber |-> [shop.hours.barber EXCEPT ![b] = rows]],
                 team |-> shop.team, performs |-> shop.performs, offers |-> shop.offers]
    BY <1>2, <2>1
  <2>3. [shop.hours.barber EXCEPT ![b] = rows] \in [Barbers -> SUBSET Rows]
    BY <1>2
  <2> QED BY <1>2, <2>2, <2>3, SettingsAre, HoursAre
<1>5. CASE replaceBarberServices
  <2>1. PICK b \in shop.team, S \in SUBSET Services : shop' = [shop EXCEPT !.performs[b] = S]
    BY <1>1, <1>5 DEF replaceBarberServices
  <2>2. shop' = [hours |-> shop.hours, team |-> shop.team,
                 performs |-> [shop.performs EXCEPT ![b] = S], offers |-> shop.offers]
    BY <1>2, <2>1
  <2>3. [shop.performs EXCEPT ![b] = S] \in [Barbers -> SUBSET Services] /\ shop.hours \in StoredHours
    BY <1>2 DEF Stored, Settings
  <2> QED BY <1>2, <2>2, <2>3, SettingsAre
<1>6. CASE setBarberVisible
  <2>1. PICK T \in SUBSET Barbers : shop' = [shop EXCEPT !.team = T]
    <3>1. PICK b \in Barbers :
            shop' = [shop EXCEPT !.team = IF b \in shop.team THEN shop.team \ {b} ELSE shop.team \cup {b}]
      BY <1>2, <1>6 DEF setBarberVisible
    <3>2. (IF b \in shop.team THEN shop.team \ {b} ELSE shop.team \cup {b}) \in SUBSET Barbers
      BY <1>2
    <3> QED BY <3>1, <3>2
  <2>2. shop' = [hours |-> shop.hours, team |-> T, performs |-> shop.performs, offers |-> shop.offers]
    BY <1>2, <2>1
  <2>3. shop.hours \in StoredHours
    BY DEF Stored, Settings
  <2> QED BY <1>2, <2>2, <2>3, SettingsAre
<1>7. CASE updateOffer
  <2>1. PICK s \in Services, active \in BOOLEAN, d \in Nat :
          shop' = [shop EXCEPT !.offers[s] = [active |-> active, duration |-> d]]
    BY <1>1, <1>7 DEF updateOffer
  <2> DEFINE o == [active |-> active, duration |-> d]
  <2>2. shop' = [hours |-> shop.hours, team |-> shop.team, performs |-> shop.performs,
                 offers |-> [shop.offers EXCEPT ![s] = o]]
    BY <1>2, <2>1
  <2>3. o \in [active : BOOLEAN, duration : Nat]
    OBVIOUS
  <2> HIDE DEF o
  <2>4. [shop.offers EXCEPT ![s] = o] \in [Services -> [active : BOOLEAN, duration : Nat]]
        /\ shop.hours \in StoredHours
    BY <1>2, <2>3 DEF Stored, Settings
  <2> QED BY <1>2, <2>2, <2>4, SettingsAre
<1> QED
  BY <1>3, <1>4, <1>5, <1>6, <1>7 DEF Configure

\* What is booked are visits, and there are finitely many.
LEMMA BookingsStayStored ==
  ASSUME Stored, Known(page), OtherCustomer \/ Accept
  PROVE  Stored'
<1>1. \E r : r.start \in Int /\ \E a \in Bookings(r) : booked' = booked \cup {a}
  <2>1. CASE OtherCustomer
    <3>1. PICK b \in Barbers, s \in Services, d \in Today .. currentPublicBookingWindow(Today).maxDate,
               m \in OtherTimes :
            \E a \in Bookings([barber |-> b, service |-> s, start |-> At(d, m)]) : booked' = booked \cup {a}
      BY <2>1 DEF OtherCustomer
    <3>2. d \in Int /\ m \in Int
      BY BookingAssumption
    <3>3. At(d, m) \in Int
      BY <3>2 DEF At, Minutes
    <3> DEFINE r == [barber |-> b, service |-> s, start |-> At(d, m)]
    <3>4. r.start = At(d, m)
      OBVIOUS
    <3> QED BY <3>1, <3>3, <3>4
  <2>2. CASE Accept
    BY <2>2 DEF Accept, Known
  <2> QED BY <2>1, <2>2
<1>2. PICK r : r.start \in Int /\ \E a \in Bookings(r) : booked' = booked \cup {a}
  BY <1>1
<1>3. PICK a \in Visits : booked' = booked \cup {a}
  BY <1>2, BookingsAreVisits
<1>4. IsFiniteSet(booked \cup {a})
  BY FS_AddElement DEF Stored
<1> QED
  BY <1>3, <1>4 DEF Stored, OtherCustomer, Accept
\* The invariant that the comparison of page and server rests on.
Told == Stored /\ Known(page) /\ Dated(page)

LEMMA OpenedIsTold ==
  ASSUME Init
  PROVE  Told
<1>1. Stored
  BY BookingAssumption DEF Init, Stored
<1>2. PICK l \in Links : Settles(Opened(l), Opened(l), page)
  BY DEF Init
<1> DEFINE p == Opened(l)
<1>3. IsPage(p)
  BY DEF Opened, IsPage, Fields
<1>4. /\ p.time = l.time /\ p.date = l.date /\ p.sent = None
      /\ p.data = [q \in Queries |-> IF q \in l.known THEN Answer(q) ELSE None]
  BY DEF Opened
<1> HIDE DEF p
<1>5. l.time \in Int \cup {None} /\ l.date \in Int
  BY BookingAssumption
<1>6. \A q \in Queries : Loaded(p, q) => p.data[q] = Answer(q)
  BY <1>4 DEF Loaded
<1>7. {"barbers", "hours", "window"} \subseteq Queries
  BY DEF Queries
<1>8. DOMAIN p.data = Queries
  BY <1>4
<1>9. Known(p)
  BY <1>1, <1>4, <1>5, <1>6, <1>7, <1>8, AnswersAreKnown DEF Known
<1> QED
  BY <1>1, <1>2, <1>3, <1>9, SettledKnows DEF Told, p

LEMMA StepIsTold == IsPage(page) /\ Told /\ [Next]_vars => Told'
<1> SUFFICES ASSUME IsPage(page), Stored, Known(page), Dated(page), [Next]_vars
             PROVE  Stored' /\ Known(page') /\ Dated(page')
  BY DEF Told, Known, Dated, Loaded, isPublicDateAllowed
<1>1. CASE Customer
  <2>1. shop' = shop /\ booked' = booked /\ now' = now
    BY <1>1 DEF Customer
  <2>2. Known(page') /\ Dated(page')
    BY <1>1, CustomerKnows
  <2> QED BY <2>1, <2>2 DEF Stored
<1>2. CASE Load \/ LoadTimes \/ Lose \/ Refuse
  <2>1. shop' = shop /\ booked' = booked /\ now' = now
    BY <1>2 DEF Load, LoadTimes, Lose, Refuse
  <2>2. Known(page') /\ Dated(page')
    BY <1>2, NetworkKnows
  <2> QED BY <2>1, <2>2 DEF Stored
<1>3. CASE Accept
  BY <1>3, NetworkKnows, BookingsStayStored
<1>4. CASE Configure
  BY <1>4, ShopStaysStored DEF Configure
<1>5. CASE OtherCustomer
  BY <1>5, BookingsStayStored DEF OtherCustomer
<1>6. CASE Tick
  BY <1>6 DEF Tick, Stored
<1>7. CASE UNCHANGED vars
  BY <1>7 DEF vars, Stored
<1> QED
  BY <1>1, <1>2, <1>3, <1>4, <1>5, <1>6, <1>7 DEF Next

\* Page and server agree, on the times to come, in every state the invariant allows.
LEMMA OffersAgree ==
  ASSUME Told, Computed(page, now), page.barber # None, UpToDate, TermsAreStored
  PROVE  {m \in timeSlots(page) : At(page.date, m) > now}
           = {m \in {15 * k : k \in 0 .. 95} :
                 /\ At(page.date, m) # now
                 /\ Bookings([barber |-> page.barber, service |-> page.service,
                              start |-> At(page.date, m)]) # {}}
<1> DEFINE w == currentPublicBookingWindow(Today)
           r(m) == [barber |-> page.barber, service |-> page.service, start |-> At(page.date, m)]
           able(m) == \E b \in Barbers : /\ page.barber \in {AnyBarber, b}
                                         /\ CouldTake(b, page.service, page.date, m)
<1>1. w.today = Today /\ w.maxDate \in Int /\ Today <= w.maxDate /\ Today \in Int
  BY WindowToday DEF Told, Stored
<1>2. page.date \in Int /\ page.date \in Today .. w.maxDate
  <2>1. Loaded(page, "window") /\ page.data["window"] = w /\ page.date # None
    BY DEF UpToDate, Queries, Answer
  <2> QED BY <1>1, <2>1 DEF Told, Dated, isPublicDateAllowed, isDateWithinPublicBookingWindow
<1>3. \A m \in Nat : At(page.date, m) > now => ~(At(page.date, m) <= page.slotsAt)
  <2>1. now \in Nat /\ page.slotsAt \in Nat /\ page.slotsAt <= now
    BY BookingAssumption DEF Told, Stored, Computed
  <2>2. \A m \in Nat : At(page.date, m) \in Int
    BY <1>2 DEF At, Minutes
  <2> QED BY <2>1, <2>2
<1>4. now \in Int /\ \A m \in Nat : At(page.date, m) \in Int
  BY <1>2, BookingAssumption DEF Told, Stored, At, Minutes
<1>5. ASSUME NEW m \in Nat, page.service \in Offered, able(m) PROVE m < Minutes
  <2>1. PICK b \in Barbers : \E p \in getBarberWorkingPeriods(b, Weekday(page.date), shop.hours) :
          m + shop.offers[page.service].duration <= p.end
    BY <1>5 DEF CouldTake
  <2>2. PICK p \in Periods : m + shop.offers[page.service].duration <= p.end
    BY <1>2, <2>1, WorkingPeriods DEF Told
  <2>5. p.end \in Nat /\ p.end < Minutes
    BY PeriodBounds
  <2>3. shop.offers[page.service].duration \in Nat
    BY <1>5 DEF Told, Stored, Settings, Offered
  <2>4. \A d, e \in Nat : m + d <= e /\ e < Minutes => m < Minutes
    BY DEF Minutes
  <2> QED BY <2>2, <2>3, <2>4, <2>5
<1>6. \A m : m \in timeSlots(page)
         <=> /\ m \in Nat /\ isClockTimeAligned(m)
             /\ ~(page.date = page.slotsAt \div Minutes /\ At(page.date, m) <= page.slotsAt)
             /\ page.service \in Offered /\ able(m)
  BY <1>2, TimesOffered DEF Told
<1>7. \A m \in Nat : m < Minutes =>
         (Bookings(r(m)) # {} <=> /\ isClockTimeAligned(m) /\ At(page.date, m) >= now
                                  /\ page.service \in Offered /\ able(m))
  BY <1>1, <1>2, TimesAccepted DEF Told
<1>8. \A m : m \in {15 * k : k \in 0 .. 95} <=> m \in Nat /\ m < Minutes /\ m % 15 = 0
  <2> TAKE m
  <2>1. ASSUME m \in Nat, m < Minutes, m % 15 = 0 PROVE \E k \in 0 .. 95 : m = 15 * k
    <3>1. m \div 15 \in 0 .. 95 /\ m = 15 * (m \div 15)
      BY <2>1 DEF Minutes
    <3> QED BY <3>1
  <2>2. \A k \in 0 .. 95 : 15 * k \in Nat /\ 15 * k < Minutes /\ (15 * k) % 15 = 0
    BY DEF Minutes
  <2> QED BY <2>1, <2>2
<1>9. \A m \in Nat : isClockTimeAligned(m) => m % 15 = 0
  BY CalendarAssumption DEF isClockTimeAligned
<1> HIDE DEF r, able, w
<1>10. ASSUME NEW m
       PROVE  m \in timeSlots(page) /\ At(page.date, m) > now
                <=> m \in {15 * k : k \in 0 .. 95} /\ At(page.date, m) # now /\ Bookings(r(m)) # {}
  <2>1. \A x \in Int : x >= now /\ x # now <=> x > now
    BY <1>4
  <2> QED BY <1>3, <1>4, <1>5, <1>6, <1>7, <1>8, <1>9, <2>1
<1>11. {m \in timeSlots(page) : At(page.date, m) > now}
         = {m \in {15 * k : k \in 0 .. 95} : At(page.date, m) # now /\ Bookings(r(m)) # {}}
  BY <1>10
<1> QED
  BY <1>11 DEF r

\* Two programs that decide what is free agree, in every shop and at whatever instant
\* the page computed its slots: of the times still to come, the page that is up to date
\* offers what the server would book, for a chosen barber and for any (getAvailableTimeSlots
\* against POST /api/appointments). The times that have passed since stay on offer.
THEOREM PageAndServerAgree == Spec => []OffersMatchAnswers
<1>1. Ready(page, now) /\ Told => OffersMatchAnswers
  BY OffersAgree DEF OffersMatchAnswers, Ready, Steady
<1>2. Init => Ready(page, now) /\ Told
  BY OpenedIsReady, OpenedIsTold
<1>3. Ready(page, now) /\ Told /\ [Next]_vars => (Ready(page, now) /\ Told)'
  BY StepIsReady, StepIsTold DEF Ready, Sound
<1> QED
  BY <1>1, <1>2, <1>3, PTL DEF Spec
=============================================================================
