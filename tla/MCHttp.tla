------------------------------- MODULE MCHttp -------------------------------
EXTENDS Http

Message(first, length, body, close) ==
  [first |-> first, length |-> length, body |-> body, close |-> close, fields |-> 0]
WithField(message, field) == [message EXCEPT !.fields = field]

mcRequests == {Message("GET", NoLength, 0, FALSE), Message("GET", NoLength, 0, TRUE),
               WithField(Message("HEAD", NoLength, 0, FALSE), 1), Message("POST", 2, 2, FALSE)}

\* A body of announced length, none, no content, and a body that ends with the
\* connection for who asked to close it.
Usual == {Message("200", 2, 2, FALSE), Message("200", 1, 1, TRUE), Message("200", 0, 0, FALSE),
          Message("204", NoLength, 0, FALSE)}
UntilClose == {Message("200", NoLength, 2, FALSE)}
Bodiless == {Message("200", 2, 0, FALSE), Message("200", NoLength, 0, FALSE)}

mcAnswers == [q \in {"GET", "HEAD", "POST"} \X BOOLEAN |->
                IF q[1] = "HEAD" THEN Bodiless ELSE IF q[2] THEN Usual \cup UntilClose ELSE Usual]

mcFirstLengths == {NoLength, 0, 1}

\* What MessagesArriveWhole is promised under holds of these.
ASSUME MessagesAreOrderly == Orderly

=============================================================================
